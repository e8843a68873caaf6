-------------------------- MODULE NetplanAgentProofs --------------------------
(***************************************************************************)
(* Proofs about the agent on a netplan node, for any devices, rows, names,  *)
(* number of workers and number of edits, faults, signals and crashes: its  *)
(* state is type correct, and the cleanup removes no file of a MAC that had *)
(* a row, provided that every row of the table scans.  The second half is   *)
(* about a node whose agent configures one row at a time.                   *)
(***************************************************************************)
EXTENDS NetplanAgent, AgentLemmas, FiniteSetTheorems

IInv == SharedInv(Pcs)

LEMMA PcsKnown == CommonPcs \subseteq Pcs /\ AdapterPcs \subseteq Pcs
BY DEF CommonPcs, Pcs

LEMMA TypesOfInv == IInv => TypeOK
BY DEF IInv, SharedInv, SharedTypeOK, TypeOK

\* Whatever netplan does, devices keep a name, none or are absent, and run with
\* the settings of some file.
LEMMA NetplanTyped ==
  ASSUME NodeTypeOK, NetplanApplies \/ NetplanFails
  PROVE  /\ dev' \in [MACs -> Slots \cup {Unnamed, Absent}]
         /\ live' \in [MACs -> Cfgs \cup {Plain}]
<1>1. CASE NetplanApplies
  <2>1. \A m \in MACs : \A n : Settings(file, m, n) \in Cfgs \cup {Plain}
    BY DEF Settings, Wanted, Content
  <2> QED
    BY <1>1, <2>1 DEF NetplanApplies
<1>2. CASE UNCHANGED <<dev, live>>
  BY <1>2 DEF NodeTypeOK
<1> QED
  BY <1>1, <1>2 DEF NetplanFails

-----------------------------------------------------------------------------
LEMMA AdapterStepIInv ==
  ASSUME IInv, NEW id \in RowIds, AdapterStep(id), UNCHANGED <<deleteVars, stops>>
  PROVE  IInv'
<1> USE DEF Pcs, AdapterPcs, UseCasePcs, Verdicts, Aside
<1>1. SharedInv(Pcs) /\ SharedTypeOK(Pcs) /\ NodeTypeOK
  BY DEF IInv, SharedInv, SharedTypeOK
<1>2. CASE OpenFile(id, "configure")
  BY <1>1, <1>2, OpenFileShared DEF IInv
<1>3. CASE FillFile(id, "try")
  BY <1>1, <1>3, FillFileShared DEF IInv
<1>4. CASE TryNetplan(id)
  <2>1. faults' \in 0 .. MaxFaults
    BY <1>1, <1>4, FaultsBounded DEF TryNetplan
  <2>2. /\ dev' \in [MACs -> Slots \cup {Unnamed, Absent}]
        /\ live' \in [MACs -> Cfgs \cup {Plain}]
    BY <1>1, <1>4, NetplanTyped DEF TryNetplan
  <2> QED
    BY <1>1, <1>4, <2>1, <2>2, WorkerMoves DEF TryNetplan, IInv, SharedTypeOK, NodeTypeOK
<1>5. CASE DropTried(id)
  <2>1. faults' \in 0 .. MaxFaults
    BY <1>1, <1>5, FaultsBounded DEF DropTried
  <2> QED
    BY <1>1, <1>5, <2>1, WorkerMoves DEF DropTried, IInv, SharedTypeOK, NodeTypeOK
<1>6. CASE ApplyNetplan(id)
  <2>1. faults' \in 0 .. MaxFaults
    BY <1>1, <1>6, FaultsBounded DEF ApplyNetplan
  <2>2. /\ dev' \in [MACs -> Slots \cup {Unnamed, Absent}]
        /\ live' \in [MACs -> Cfgs \cup {Plain}]
    BY <1>1, <1>6, NetplanTyped DEF ApplyNetplan
  <2> QED
    BY <1>1, <1>6, <2>1, <2>2, WorkerMoves
       DEF ApplyNetplan, IInv, SharedTypeOK, NodeTypeOK
<1>7. CASE RollbackRemove(id)
  <2>1. faults' \in 0 .. MaxFaults
    BY <1>1, <1>7, FaultsBounded DEF RollbackRemove
  <2> QED
    BY <1>1, <1>7, <2>1, WorkerMoves DEF RollbackRemove, IInv, SharedTypeOK, NodeTypeOK
<1>8. CASE RollbackApply(id)
  <2>1. faults' \in 0 .. MaxFaults
    BY <1>1, <1>8, FaultsBounded DEF RollbackApply
  <2>2. /\ dev' \in [MACs -> Slots \cup {Unnamed, Absent}]
        /\ live' \in [MACs -> Cfgs \cup {Plain}]
    BY <1>1, <1>8, NetplanTyped DEF RollbackApply
  <2> QED
    BY <1>1, <1>8, <2>1, <2>2, WorkerMoves
       DEF RollbackApply, IInv, SharedTypeOK, NodeTypeOK
<1>9. CASE Validate(id)
  <2>1. faults' \in 0 .. MaxFaults
    BY <1>1, <1>9, FaultsBounded DEF Validate
  <2> QED
    BY <1>1, <1>9, <2>1, WorkerMoves DEF Validate, IInv, SharedTypeOK, NodeTypeOK
<1> QED
  BY <1>2, <1>3, <1>4, <1>5, <1>6, <1>7, <1>8, <1>9 DEF AdapterStep

LEMMA CleanupStepIInv ==
  ASSUME IInv, CleanupStep, UNCHANGED stops
  PROVE  IInv'
<1>1. SharedInv(Pcs) /\ NodeTypeOK
  BY DEF IInv, SharedInv, SharedTypeOK
<1>2. CASE FindStep
  BY <1>1, <1>2, FindStepShared DEF IInv
<1>3. CASE RemoveOrphan(TRUE)
  BY <1>1, <1>3, RemoveOrphanShared DEF IInv
<1>4. CASE ReapplyNetplan
  <2>1. faults' \in 0 .. MaxFaults
    BY <1>1, <1>4, FaultsBounded DEF ReapplyNetplan
  <2>2. /\ dev' \in [MACs -> Slots \cup {Unnamed, Absent}]
        /\ live' \in [MACs -> Cfgs \cup {Plain}]
    BY <1>1, <1>4, NetplanTyped DEF ReapplyNetplan
  <2> QED
    BY <1>1, <1>4, <2>1, <2>2, ReappliedShared DEF ReapplyNetplan, IInv
<1>5. CASE DeleteDone
  BY <1>1, <1>5, DeleteDoneShared DEF IInv
<1> QED
  BY <1>2, <1>3, <1>4, <1>5 DEF CleanupStep

LEMMA AttachTyped ==
  ASSUME NodeTypeOK, NEW m \in MACs, NEW n \in Slots \cup {Unnamed}, Attach(m, n)
  PROVE  NodeTypeOK'
<1>1. plugs' \in 0 .. MaxPlugs
  BY NodeAssumption DEF Attach, NodeTypeOK
<1>2. Settings(file, m, n) \in Cfgs \cup {Plain}
  BY DEF Settings, Wanted, Content
<1> QED
  BY <1>1, <1>2 DEF Attach, NodeTypeOK

LEMMA EnvironmentIInv ==
  ASSUME IInv, EnvironmentStep
  PROVE  IInv'
<1>1. SharedInv(Pcs) /\ NodeTypeOK
  BY DEF IInv, SharedInv, SharedTypeOK
<1>2. NodeTypeOK'
  BY <1>1, EditingTyped, AttachTyped, DetachTyped DEF EnvironmentStep, Environment
<1> QED
  BY <1>1, <1>2, OutsideMoves DEF EnvironmentStep, IInv

\* A poll between its parts, and the goroutines.
LEMMA PollIInv ==
  ASSUME IInv, PollStep
  PROVE  IInv'
<1>1. SharedInv(Pcs)
  BY DEF IInv
<1>2. CASE StartAPoll /\ UNCHANGED <<deleteVars, stops>>
  BY <1>1, <1>2, StartPollShared, PcsKnown DEF StartAPoll, IInv
<1>3. CASE PollFails /\ UNCHANGED <<deleteVars, stops>>
  BY <1>1, <1>3, PollFailsShared DEF IInv
<1>4. CASE ConfigureDone /\ UNCHANGED <<deleteVars, stops>>
  BY <1>1, <1>4, ConfigureDoneShared DEF Pcs, IInv
<1>5. CASE CleanupStep /\ UNCHANGED stops
  BY <1>5, CleanupStepIInv
<1> QED
  BY <1>2, <1>3, <1>4, <1>5 DEF PollStep

LEMMA NextIInv == IInv /\ [Next]_vars => IInv'
<1> SUFFICES ASSUME IInv, [Next]_vars PROVE IInv'
  OBVIOUS
<1>1. SharedInv(Pcs)
  BY DEF IInv
<1>2. CASE PollStep
  BY <1>2, PollIInv
<1>3. ASSUME NEW id \in RowIds, WorkerStep(id)
      PROVE  IInv'
  <2>1. CASE UseCaseStep(id)
    BY <1>1, <1>3, <2>1, UseCaseStepShared, PcsKnown DEF WorkerStep, IInv
  <2>2. CASE AdapterStep(id)
    BY <1>3, <2>2, AdapterStepIInv DEF WorkerStep
  <2> QED
    BY <1>3, <2>1, <2>2 DEF WorkerStep, Worker
<1>4. CASE ProcessStep
  BY <1>1, <1>4, ProcessShared DEF ProcessStep, Pcs, IInv
<1>5. CASE EnvironmentStep
  BY <1>5, EnvironmentIInv
<1>6. CASE UNCHANGED vars
  BY <1>1, <1>6
     DEF vars, nodeVars, workVars, deleteVars, stops, IInv, SharedInv, SharedTypeOK,
         NodeTypeOK, StopsTypeOK, WorkersHoldRows, WorkersOnlyConfigure
<1> QED
  BY <1>2, <1>3, <1>4, <1>5, <1>6 DEF Next, AgentStep

LEMMA InitIInv == Init => IInv /\ OrphansUnlisted
BY InitShared DEF Init, IInv, Pcs

\* The state of the agent, the table and the node is type correct
\* (configure_network.go:87-152, delete_network.go:76-114).
THEOREM TypeCorrect == Spec => []TypeOK
<1>1. Init => IInv
  BY InitIInv
<1>2. IInv /\ [Next]_vars => IInv'
  BY NextIInv
<1> QED
  BY <1>1, <1>2, TypesOfInv, PTL DEF Spec

-----------------------------------------------------------------------------
\* A worker runs only while the poll configures, and then there is no list.
LEMMA WorkersUnlisted ==
  ASSUME IInv, NEW id \in RowIds, WorkerStep(id)
  PROVE  phase = "configuring" /\ phase' # "deleting"
<1>1. pc[id] # "none" /\ phase' = phase
  BY DEF WorkerStep, Worker, UseCaseStep, AdapterStep, Acquire, ReuseName, NextName,
         CheckNeed, Skip, MarkConfigured, MarkFailed, OpenFile, FillFile, TryNetplan,
         DropTried, ApplyNetplan, RollbackRemove, RollbackApply, Validate, Aside
<1> QED
  BY <1>1 DEF IInv, SharedInv, WorkersOnlyConfigure

\* One step of the argument: the list stays right, and only what is on it goes.
LEMMA CleanupStepSpares ==
  ASSUME ScanMayFail = FALSE \/ faults' = 0, IInv, OrphansUnlisted, [Next]_vars
  PROVE  /\ OrphansUnlisted'
         /\ phase = "deleting" /\ phase' # "down" =>
              \A s \in Slots : file'[s] # file[s] => s \in orphans
<1>1. CASE PollStep
  <2>1. CASE (StartAPoll \/ PollFails \/ ConfigureDone) /\ UNCHANGED <<deleteVars, stops>>
    BY <2>1, OthersUnlisted
       DEF StartAPoll, StartPoll, PollFails, ConfigureDone, workVars, nodeVars, deleteVars
  <2>2. CASE FindStep
    <3>1. phase = "cleanup"
      BY <2>2 DEF FindStep, FindOrphans, FindOrphansUnread, FindFails
    <3> QED
      BY <2>2, <3>1, FindStepUnlisted DEF IInv, SharedInv, SharedTypeOK
  <2>3. CASE RemoveOrphan(TRUE)
    BY <2>3, RemoveOrphanUnlisted DEF IInv
  <2>4. CASE ReapplyNetplan \/ DeleteDone
    BY <2>4, OthersUnlisted DEF ReapplyNetplan, Reapplied, DeleteDone, workVars, nodeVars
  <2> QED
    BY <1>1, <2>1, <2>2, <2>3, <2>4 DEF PollStep, CleanupStep
<1>2. ASSUME NEW id \in RowIds, WorkerStep(id)
      PROVE  phase = "configuring" /\ OrphansUnlisted'
  BY <1>2, WorkersUnlisted, OthersUnlisted
<1>3. CASE ProcessStep
  BY <1>3, OthersUnlisted
     DEF ProcessStep, Signal, Exit, Crash, Gone, Restart, nodeVars, workVars, deleteVars
<1>4. CASE EnvironmentStep
  <2>1. UNCHANGED <<file, workVars, deleteVars>>
    BY <1>4 DEF EnvironmentStep, Environment, Editing, InsertRow, EditRow, DeleteRow,
                Attach, Detach
  <2> QED
    BY <2>1, OthersUnlisted DEF workVars, deleteVars
<1>5. CASE UNCHANGED vars
  BY <1>5, OthersUnlisted DEF vars, nodeVars, workVars, deleteVars
<1> QED
  BY <1>1, <1>2, <1>3, <1>4, <1>5 DEF Next, AgentStep

\* The cleanup removes no file of a MAC that had an active row when it read the
\* table, if every row scans: with any number of workers, and whatever the
\* controller, the devices, faults, signals and crashes do meanwhile
\* (delete_network.go:171-226).
THEOREM ListedSpared ==
  ASSUME ScanMayFail = FALSE
  PROVE  Spec => CleanupSparesListed
<1> DEFINE Inv == IInv /\ OrphansUnlisted
<1>1. Init => Inv
  BY InitIInv
<1>2. Inv /\ [Next]_vars => Inv'
  BY NextIInv, CleanupStepSpares
<1>3. Inv /\ [Next]_vars =>
        [\A s \in Slots :
           phase = "deleting" /\ phase' # "down"
             /\ file[s] \in Content /\ file'[s] # file[s]
           => file[s].mac \notin listed]_vars
  BY CleanupStepSpares DEF OrphansUnlisted
<1> QED
  BY <1>1, <1>2, <1>3, PTL DEF Spec, CleanupSparesListed

-----------------------------------------------------------------------------
(***************************************************************************)
(* One worker, and no device comes or goes.  What Validate passes is the    *)
(* row's own interface, and no working interface of another row loses its   *)
(* file.  With two workers neither holds.                                   *)
(*                                                                         *)
(* Why: a name is taken only when no other device has it.  Netplan gives a  *)
(* name to the device of its file alone, and once the file is written that  *)
(* is the worker's own, so nobody else gets the name before the worker has  *)
(* ended (NameHeld).  When Validate finds the name on a device it is the    *)
(* row's device, with the settings the last apply gave it (LiveOwn).        *)
(***************************************************************************)

\* Where the file of the worker's name is the one it wrote, where it should be
\* gone but for a fault, and where the worker has a name at all.
WrittenPcs == {"try", "dropTried", "apply", "undo", "validate"}
ClearedPcs == {"undoApply", "rollbackApply"}
NamedPcs   == {"check", "configure", "fill", "rollback"} \cup WrittenPcs \cup ClearedPcs

OneRuns == \A i, j \in Running : i = j

\* A name of the agent's is one device's.
NamesApart ==
  \A m, n \in MACs : m # n /\ dev[m] \in Slots => dev[m] # dev[n]

NobodyElse(id) == \A m \in MACs : m # snap[id].mac => dev[m] # name[id]

NameHeld(id) == pc[id] \in NamedPcs => name[id] \in Slots /\ NobodyElse(id)

FileOwn(id) ==
  /\ pc[id] \in WrittenPcs => file[name[id]] = Prescribed(id)
  /\ pc[id] = "undoApply" => file[name[id]] \in {NoFile, Prescribed(id)}
  /\ pc[id] \in ClearedPcs /\ faults = 0 => file[name[id]] = NoFile

LiveOwn(id) ==
  pc[id] = "validate" /\ dev[snap[id].mac] = name[id] =>
    live[snap[id].mac] = snap[id].cfg

Own(id) == NameHeld(id) /\ FileOwn(id) /\ LiveOwn(id)

SeqInv == OneRuns /\ \A id \in RowIds : Own(id)

-----------------------------------------------------------------------------
\* Where no worker runs there is nothing to say.
LEMMA NobodyRuns ==
  ASSUME \A id \in RowIds : pc[id] \in Outside
  PROVE  SeqInv
BY DEF SeqInv, OneRuns, Running, Own, NameHeld, FileOwn, LiveOwn, Outside, Verdicts,
       NamedPcs, WrittenPcs, ClearedPcs

\* The step of the worker that runs concerns nobody else.
LEMMA RunnerMoves ==
  ASSUME IInv, SeqInv, NEW id \in RowIds, pc[id] \notin Outside, NEW next, Goto(id, next),
         Own(id)'
  PROVE  SeqInv'
<1>1. pc \in [RowIds -> Pcs]
  BY DEF IInv, SharedInv, SharedTypeOK
<1>2. \A j \in RowIds \ {id} : pc'[j] = pc[j] /\ pc[j] \in Outside
  BY <1>1 DEF SeqInv, OneRuns, Running, Goto
<1>3. OneRuns'
  BY <1>2 DEF OneRuns, Running
<1>4. \A j \in RowIds \ {id} : Own(j)'
  BY <1>2 DEF Own, NameHeld, FileOwn, LiveOwn, Outside, Verdicts, NamedPcs, WrittenPcs,
              ClearedPcs
<1> QED
  BY <1>3, <1>4 DEF SeqInv

\* Netplan gives a name to the device that the file of that name is for.
LEMMA NetplanNamesOwn ==
  ASSUME NodeTypeOK, NetplanApplies \/ NetplanFails, NEW n \in MACs, NEW s \in Slots,
         file[s] \in Content => file[s].mac = n,
         \A m \in MACs : m # n => dev[m] # s
  PROVE  \A m \in MACs : m # n => dev'[m] # s
<1>1. CASE NetplanApplies
  <2>1. Renames(file, dev, dev')
    BY <1>1 DEF NetplanApplies
  <2> SUFFICES ASSUME NEW m \in MACs, m # n, dev'[m] = s PROVE FALSE
    OBVIOUS
  <2>2. dev'[m] # dev[m]
    OBVIOUS
  <2>3. s \in Wanted(file, m)
    BY <2>1, <2>2 DEF Renames
  <2> QED
    BY <2>3 DEF Wanted
<1>2. CASE UNCHANGED <<dev, live>>
  BY <1>2
<1> QED
  BY <1>1, <1>2 DEF NetplanFails

\* ... and configures the device that has the name of its file.
LEMMA NetplanConfigures ==
  ASSUME NetplanApplies, NEW n \in MACs, NEW s \in Slots,
         file[s] \in Content, file[s].mac = n, dev'[n] = s
  PROVE  live'[n] = file[s].cfg
BY DEF NetplanApplies, Settings, Wanted

\* What a worker holds while it runs.
LEMMA RunnerHolds ==
  ASSUME IInv, SeqInv, NEW id \in RowIds, pc[id] # "none"
  PROVE  /\ NodeTypeOK /\ phase = "configuring"
         /\ pc \in [RowIds -> Pcs] /\ name \in [RowIds -> Slots \cup {NoSlot}]
         /\ snap[id] \in Row /\ snap[id].mac \in MACs /\ Prescribed(id) \in Content
         /\ Prescribed(id).mac = snap[id].mac /\ Prescribed(id).cfg = snap[id].cfg
         /\ Own(id)
BY DEF IInv, SharedInv, SharedTypeOK, WorkersHoldRows, WorkersOnlyConfigure, Row,
       Prescribed, Content, SeqInv

-----------------------------------------------------------------------------
\* Only the least of the free names is taken, and a free name is nobody's.
LEMMA NextNameSeq ==
  ASSUME IInv, SeqInv, NEW id \in RowIds, NextName(id)
  PROVE  SeqInv'
<1> DEFINE free == {s \in Slots : ~InUse(s)}
           least == CHOOSE s \in free : \A t \in free : s <= t
<1>1. pc[id] = "next" /\ pc[id] \notin Outside /\ pc[id] # "none"
  BY DEF NextName, Outside, Verdicts
<1>2. CASE free = {}
  <2>1. Goto(id, "failed")
    BY <1>2 DEF NextName
  <2>2. pc'[id] = "failed"
    BY <1>1, <2>1, RunnerHolds DEF Goto
  <2>3. Own(id)'
    BY <2>2 DEF Own, NameHeld, FileOwn, LiveOwn, NamedPcs, WrittenPcs, ClearedPcs
  <2> QED
    BY <1>1, <2>1, <2>3, RunnerMoves
<1>3. CASE free # {}
  <2>1. Goto(id, "check") /\ name' = [name EXCEPT ![id] = least]
        /\ UNCHANGED <<snap, dev>>
    BY <1>3 DEF NextName, nodeVars
  <2>2. least \in free
    BY <1>3, LeastSlot
  <2>3. pc'[id] = "check" /\ name'[id] = least
    BY <1>1, <2>1, RunnerHolds DEF Goto
  <2>4. least \in Slots /\ \A m \in MACs : dev[m] # least
    BY <2>2 DEF InUse
  <2> HIDE DEF free, least
  <2>5. NameHeld(id)'
    BY <2>1, <2>3, <2>4 DEF NameHeld, NobodyElse
  <2>6. Own(id)'
    BY <2>3, <2>5 DEF Own, FileOwn, LiveOwn, WrittenPcs, ClearedPcs
  <2> QED
    BY <1>1, <2>1, <2>6, RunnerMoves
<1> QED
  BY <1>2, <1>3

\* A name is reused by the one device that has it.
LEMMA ReuseNameSeq ==
  ASSUME IInv, SeqInv, NamesApart, NEW id \in RowIds, ReuseName(id)
  PROVE  SeqInv'
<1>1. pc[id] = "reuse" /\ pc[id] \notin Outside /\ pc[id] # "none"
      /\ UNCHANGED <<snap, dev>>
  BY DEF ReuseName, Outside, Verdicts
<1>2. CASE /\ Named(snap[id].mac)
           /\ name' = [name EXCEPT ![id] = dev[snap[id].mac]]
           /\ Goto(id, "check")
  <2>1. pc'[id] = "check" /\ name'[id] = dev[snap[id].mac]
    BY <1>1, <1>2, RunnerHolds DEF Goto
  <2>2. snap[id].mac \in MACs /\ dev[snap[id].mac] \in Slots
    BY <1>1, <1>2, RunnerHolds DEF Named
  <2>3. NameHeld(id)'
    BY <1>1, <2>1, <2>2 DEF NameHeld, NobodyElse, NamesApart
  <2>4. Own(id)'
    BY <2>1, <2>3 DEF Own, FileOwn, LiveOwn, WrittenPcs, ClearedPcs
  <2> QED
    BY <1>1, <1>2, <2>4, RunnerMoves
<1>3. CASE Goto(id, "next")
  <2>1. pc'[id] = "next"
    BY <1>1, <1>3, RunnerHolds DEF Goto
  <2>2. Own(id)'
    BY <2>1 DEF Own, NameHeld, FileOwn, LiveOwn, NamedPcs, WrittenPcs, ClearedPcs
  <2> QED
    BY <1>1, <1>3, <2>2, RunnerMoves
<1> QED
  BY <1>2, <1>3 DEF ReuseName

\* A worker gets the only slot of the semaphore when nobody runs.
LEMMA AcquireSeq ==
  ASSUME MaxWorkers = 1, IInv, SeqInv, NEW id \in RowIds, Acquire(id)
  PROVE  SeqInv'
<1>1. Running = {}
  <2>1. IsFiniteSet(Running) /\ Cardinality(Running) \in Nat
    <3>1. IsFiniteSet(RowIds)
      BY NodeAssumption, FS_Interval DEF RowIds
    <3> QED
      BY <3>1, FS_Subset, FS_CardinalityType DEF Running
  <2>2. Cardinality(Running) = 0
    BY <2>1 DEF Acquire, CanAcquire
  <2> QED
    BY <2>1, <2>2, FS_EmptySet
<1>2. /\ pc \in [RowIds -> Pcs]
      /\ pc' = [pc EXCEPT ![id] = "reuse"]
  BY DEF Acquire, Goto, IInv, SharedInv, SharedTypeOK
<1>3. \A j \in RowIds : j # id => pc'[j] \in Outside
  BY <1>1, <1>2 DEF Running
<1>4. pc'[id] = "reuse"
  BY <1>2
<1>5. OneRuns'
  BY <1>3 DEF OneRuns, Running
<1>6. \A j \in RowIds : Own(j)'
  BY <1>3, <1>4 DEF Own, NameHeld, FileOwn, LiveOwn, NamedPcs, WrittenPcs, ClearedPcs,
                    Outside, Verdicts
<1> QED
  BY <1>5, <1>6 DEF SeqInv

\* Steps of the use case that keep devices and files as they are.
LEMMA UseCaseSeq ==
  ASSUME MaxWorkers = 1, IInv, SeqInv, NamesApart, NEW id \in RowIds, UseCaseStep(id)
  PROVE  SeqInv'
<1>1. CASE Acquire(id)
  BY <1>1, AcquireSeq
<1>2. CASE ReuseName(id)
  BY <1>2, ReuseNameSeq
<1>3. CASE NextName(id)
  BY <1>3, NextNameSeq
<1>4. CASE CheckNeed(id)
  <2> DEFINE next == IF snap[id].mac \in BadMACs THEN "markFailed" ELSE "configure"
  <2>1. pc[id] = "check" /\ pc[id] # "none" /\ pc[id] \notin Outside /\ Goto(id, next)
        /\ UNCHANGED <<snap, name, dev, file, live>>
    BY <1>4 DEF CheckNeed, Outside, Verdicts
  <2>2. pc'[id] = next
    BY <2>1, RunnerHolds DEF Goto
  <2>3. NameHeld(id)
    BY <2>1, RunnerHolds DEF Own
  <2> HIDE DEF next
  <2>4. next \in {"markFailed", "configure"}
    BY DEF next
  <2>5. Own(id)'
    BY <2>1, <2>2, <2>3, <2>4
       DEF Own, NameHeld, NobodyElse, FileOwn, LiveOwn, NamedPcs, WrittenPcs, ClearedPcs
  <2> QED
    BY <2>1, <2>5, RunnerMoves
<1>5. CASE Skip(id) \/ MarkConfigured(id) \/ MarkFailed(id)
  <2>1. PICK next \in {"skipped", "markFailed", "processed", "failed"} :
          pc[id] \in {"check", "mark", "markFailed"} /\ Goto(id, next)
    BY <1>5 DEF Skip, MarkConfigured, MarkFailed
  <2>2. pc[id] # "none" /\ pc[id] \notin Outside
    BY <2>1 DEF Outside, Verdicts
  <2>3. pc'[id] = next
    BY <2>1, <2>2, RunnerHolds DEF Goto
  <2>4. Own(id)'
    BY <2>1, <2>3
       DEF Own, NameHeld, FileOwn, LiveOwn, NamedPcs, WrittenPcs, ClearedPcs
  <2> QED
    BY <2>1, <2>2, <2>4, RunnerMoves
<1> QED
  BY <1>1, <1>2, <1>3, <1>4, <1>5 DEF UseCaseStep

-----------------------------------------------------------------------------
\* Steps of the adapter that leave the devices alone.
LEMMA FileStepSeq ==
  ASSUME IInv, SeqInv, NEW id \in RowIds,
         \/ OpenFile(id, "configure")
         \/ FillFile(id, "try")
         \/ DropTried(id)
         \/ RollbackRemove(id)
         \/ Validate(id)
  PROVE  SeqInv' /\ UNCHANGED dev
<1>1. /\ pc[id] \in {"configure", "fill", "dropTried", "undo", "rollback", "validate"}
      /\ UNCHANGED <<dev, live, snap, name>>
  BY DEF OpenFile, FillFile, DropTried, RollbackRemove, Validate, Aside
<1>2. pc[id] \in NamedPcs /\ pc[id] \notin Outside /\ pc[id] # "none"
  BY <1>1 DEF NamedPcs, WrittenPcs, Outside, Verdicts
<1>3. /\ pc \in [RowIds -> Pcs] /\ name[id] \in Slots /\ NobodyElse(id)
      /\ file \in [Slots -> Content \cup {NoFile, Truncated}]
      /\ Prescribed(id)' = Prescribed(id)
  BY <1>1, <1>2, RunnerHolds DEF Own, NameHeld, NodeTypeOK, Prescribed
<1>4. NobodyElse(id)'
  BY <1>1, <1>3 DEF NobodyElse
<1>5. ASSUME NEW next \in {"fill", "rollback", "markFailed", "mark"}, Goto(id, next)
      PROVE  SeqInv'
  <2>1. pc'[id] = next
    BY <1>3, <1>5 DEF Goto
  <2>2. Own(id)'
    BY <1>1, <1>3, <1>4, <2>1
       DEF Own, NameHeld, FileOwn, LiveOwn, WrittenPcs, ClearedPcs
  <2> QED
    BY <1>2, <1>5, <2>2, RunnerMoves
<1>6. ASSUME NEW next \in ClearedPcs, Goto(id, next),
             next = "undoApply" => pc[id] = "undo",
             \/ UNCHANGED file /\ faults' # 0
             \/ file' = [file EXCEPT ![name[id]] = NoFile]
      PROVE  SeqInv'
  <2>1. pc'[id] = next
    BY <1>3, <1>6 DEF Goto
  <2>2. /\ file'[name'[id]] \in {NoFile, file[name[id]]}
        /\ faults' = 0 => file'[name'[id]] = NoFile
    BY <1>1, <1>3, <1>6
  <2>3. FileOwn(id)
    BY <1>2, RunnerHolds DEF Own
  <2>4. FileOwn(id)'
    BY <1>3, <1>6, <2>1, <2>2, <2>3 DEF FileOwn, WrittenPcs, ClearedPcs
  <2>5. Own(id)'
    BY <1>1, <1>3, <1>4, <1>6, <2>1, <2>4
       DEF Own, NameHeld, LiveOwn, ClearedPcs
  <2> QED
    BY <1>2, <1>6, <2>5, RunnerMoves
<1>7. ASSUME Goto(id, "try"), file' = [file EXCEPT ![name[id]] = Prescribed(id)]
      PROVE  SeqInv'
  <2>1. pc'[id] = "try" /\ file'[name'[id]] = Prescribed(id)'
    BY <1>1, <1>3, <1>7 DEF Goto
  <2>2. Own(id)'
    BY <1>1, <1>3, <1>4, <2>1
       DEF Own, NameHeld, FileOwn, LiveOwn, WrittenPcs, ClearedPcs
  <2> QED
    BY <1>2, <1>7, <2>2, RunnerMoves
<1>8. CASE OpenFile(id, "configure") \/ DropTried(id) \/ Validate(id)
  BY <1>1, <1>5, <1>8 DEF OpenFile, DropTried, Validate
<1>9. CASE FillFile(id, "try")
  BY <1>1, <1>5, <1>7, <1>9 DEF FillFile
<1>10. CASE RollbackRemove(id)
  <2>1. Faulty => faults' # 0
    BY DEF IInv, SharedInv, SharedTypeOK, NodeTypeOK, Faulty
  <2> QED
    BY <1>1, <1>5, <1>6, <1>10, <2>1 DEF RollbackRemove, ClearedPcs
<1> QED
  BY <1>1, <1>8, <1>9, <1>10

\* Steps of the adapter that run netplan: the name stays the worker's own, and
\* an apply that works configures the device that has it.
LEMMA NetplanStepSeq ==
  ASSUME IInv, SeqInv, NEW id \in RowIds,
         TryNetplan(id) \/ ApplyNetplan(id) \/ RollbackApply(id)
  PROVE  SeqInv' /\ (NetplanApplies \/ NetplanFails)
<1>1. /\ pc[id] \in {"try", "apply", "undoApply", "rollbackApply"}
      /\ NetplanApplies \/ NetplanFails
      /\ UNCHANGED <<file, snap, name>>
  BY DEF TryNetplan, ApplyNetplan, RollbackApply, Aside
<1>2. pc[id] \in NamedPcs /\ pc[id] \notin Outside /\ pc[id] # "none"
  BY <1>1 DEF NamedPcs, WrittenPcs, ClearedPcs, Outside, Verdicts
<1>3. /\ NodeTypeOK /\ pc \in [RowIds -> Pcs]
      /\ name[id] \in Slots /\ NobodyElse(id) /\ FileOwn(id)
      /\ snap[id].mac \in MACs
      /\ Prescribed(id) \in Content /\ Prescribed(id).mac = snap[id].mac
      /\ Prescribed(id).cfg = snap[id].cfg
      /\ Prescribed(id)' = Prescribed(id)
  BY <1>1, <1>2, RunnerHolds DEF Own, NameHeld, Prescribed
<1>4. pc[id] # "rollbackApply" /\ file[name[id]] \in Content
        => file[name[id]].mac = snap[id].mac
  BY <1>1, <1>3, MarkerAssumption DEF FileOwn, WrittenPcs, ClearedPcs
<1>5. pc[id] # "rollbackApply" => NobodyElse(id)'
  BY <1>1, <1>3, <1>4, NetplanNamesOwn DEF NobodyElse
<1>6. CASE ApplyNetplan(id) /\ NetplanApplies /\ Goto(id, "validate")
  <2>1. pc'[id] = "validate" /\ pc[id] = "apply"
    BY <1>3, <1>6 DEF Goto, ApplyNetplan
  <2>2. file[name[id]] = Prescribed(id)
    BY <1>3, <2>1 DEF FileOwn, WrittenPcs
  <2>3. LiveOwn(id)'
    BY <1>1, <1>3, <1>6, <2>2, NetplanConfigures DEF LiveOwn
  <2>4. Own(id)'
    BY <1>1, <1>3, <1>5, <2>1, <2>2, <2>3
       DEF Own, NameHeld, FileOwn, WrittenPcs, ClearedPcs
  <2> QED
    BY <1>1, <1>2, <1>6, <2>4, RunnerMoves
<1>7. ASSUME NEW next \in {"apply", "dropTried", "undo", "rollback", "markFailed"},
             Goto(id, next),
             pc[id] \in ClearedPcs => next \in {"rollback", "markFailed"},
             pc[id] = "rollbackApply" => next = "markFailed"
      PROVE  SeqInv'
  <2>1. pc'[id] = next
    BY <1>3, <1>7 DEF Goto
  <2>2. FileOwn(id)'
    BY <1>1, <1>3, <1>7, <2>1 DEF FileOwn, WrittenPcs, ClearedPcs
  <2>3. Own(id)'
    BY <1>1, <1>3, <1>5, <1>7, <2>1, <2>2
       DEF Own, NameHeld, LiveOwn, NamedPcs, WrittenPcs, ClearedPcs
  <2> QED
    BY <1>2, <1>7, <2>3, RunnerMoves
<1>8. CASE TryNetplan(id)
  BY <1>1, <1>7, <1>8 DEF TryNetplan, ClearedPcs
<1>9. CASE ApplyNetplan(id)
  BY <1>1, <1>6, <1>7, <1>9 DEF ApplyNetplan, ClearedPcs
<1>10. CASE RollbackApply(id)
  <2>1. \/ pc[id] = "undoApply" /\ Goto(id, "rollback")
        \/ pc[id] = "rollbackApply" /\ Goto(id, "markFailed")
    BY <1>10 DEF RollbackApply
  <2> QED
    BY <1>1, <1>7, <2>1
<1> QED
  BY <1>1, <1>8, <1>9, <1>10

-----------------------------------------------------------------------------
LEMMA NamesStayApart ==
  ASSUME NodeTypeOK, NamesApart, NetplanApplies \/ NetplanFails \/ UNCHANGED dev
  PROVE  NamesApart'
<1>1. CASE NetplanApplies
  BY <1>1 DEF NetplanApplies, Renames, NamesApart
<1>2. CASE UNCHANGED dev
  BY <1>2 DEF NamesApart
<1> QED
  BY <1>1, <1>2 DEF NetplanFails

LEMMA WorkerSeq ==
  ASSUME MaxWorkers = 1, IInv, SeqInv, NamesApart, NEW id \in RowIds, Worker(id)
  PROVE  SeqInv' /\ NamesApart'
<1>1. NodeTypeOK
  BY DEF IInv, SharedInv, SharedTypeOK
<1>2. CASE UseCaseStep(id)
  <2>1. UNCHANGED dev
    BY <1>2 DEF UseCaseStep, Acquire, ReuseName, NextName, CheckNeed, Skip,
                MarkConfigured, MarkFailed, nodeVars
  <2> QED
    BY <1>1, <1>2, <2>1, UseCaseSeq, NamesStayApart
<1>3. CASE AdapterStep(id)
  BY <1>1, <1>3, FileStepSeq, NetplanStepSeq, NamesStayApart DEF AdapterStep
<1> QED
  BY <1>2, <1>3 DEF Worker

\* What is not a worker's step: there is none, or nothing it has is touched.
LEMMA OtherSeq ==
  ASSUME MaxPlugs = 0, IInv, SeqInv, NamesApart,
         PollStep \/ ProcessStep \/ EnvironmentStep \/ UNCHANGED vars
  PROVE  SeqInv' /\ NamesApart'
<1>1. NodeTypeOK /\ pc \in [RowIds -> Pcs]
  BY DEF IInv, SharedInv, SharedTypeOK
<1>2. ASSUME UNCHANGED <<pc, snap, name, file, dev, live>>,
             faults' = 0 => faults = 0
      PROVE  SeqInv' /\ NamesApart'
  BY <1>2 DEF SeqInv, OneRuns, Running, Own, NameHeld, NobodyElse, FileOwn, LiveOwn,
              Prescribed, NamesApart
<1>3. ASSUME \A id \in RowIds : pc'[id] \in Outside,
             NetplanApplies \/ NetplanFails \/ UNCHANGED dev
      PROVE  SeqInv' /\ NamesApart'
  <2>1. SeqInv'
    BY <1>3 DEF SeqInv, OneRuns, Running, Own, NameHeld, FileOwn, LiveOwn, Outside,
                Verdicts, NamedPcs, WrittenPcs, ClearedPcs
  <2> QED
    BY <1>1, <1>3, <2>1, NamesStayApart
<1>4. CASE (StartAPoll \/ PollFails \/ ConfigureDone) /\ UNCHANGED <<deleteVars, stops>>
  <2>1. CASE PollFails
    BY <1>1, <1>2, <2>1, FaultsGrow DEF PollFails, workVars
  <2>2. CASE StartAPoll \/ ConfigureDone
    <3>1. /\ UNCHANGED dev
          /\ \A id \in RowIds : pc'[id] \in {"none", "queued"}
      BY <2>2 DEF StartAPoll, StartPoll, ConfigureDone, NoWorkers, nodeVars
    <3> QED
      BY <1>3, <3>1 DEF Outside
  <2> QED
    BY <1>4, <2>1, <2>2
<1>5. CASE CleanupStep /\ UNCHANGED stops
  <2>1. phase # "configuring" /\ UNCHANGED pc
    BY <1>5 DEF CleanupStep, FindStep, FindOrphans, FindOrphansUnread, FindFails,
                RemoveOrphan, ReapplyNetplan, Reapplied, DeleteDone, workVars, nodeVars
  <2>2. \A id \in RowIds : pc'[id] \in Outside
    BY <2>1 DEF IInv, SharedInv, WorkersOnlyConfigure, Outside
  <2>3. NetplanApplies \/ NetplanFails \/ UNCHANGED dev
    BY <1>5 DEF CleanupStep, FindStep, FindOrphans, FindOrphansUnread, FindFails,
                RemoveOrphan, ReapplyNetplan, Reapplied, DeleteDone, nodeVars
  <2> QED
    BY <1>3, <2>2, <2>3
<1>6. CASE ProcessStep
  <2>1. CASE Signal \/ Restart
    BY <1>2, <2>1 DEF Signal, Restart, nodeVars, workVars
  <2>2. CASE Exit \/ Crash
    <3>1. UNCHANGED dev /\ \A id \in RowIds : pc'[id] \in Outside
      BY <2>2 DEF Exit, Crash, Gone, NoWorkers, Outside
    <3> QED
      BY <1>3, <3>1
  <2> QED
    BY <1>6, <2>1, <2>2 DEF ProcessStep
<1>7. CASE EnvironmentStep
  <2>1. ~(plugs < MaxPlugs)
    BY <1>1 DEF NodeTypeOK
  <2>2. UNCHANGED <<file, dev, live, faults, workVars>>
    BY <1>7, <2>1 DEF EnvironmentStep, Environment, Editing, InsertRow, EditRow,
                      DeleteRow, Attach, Detach
  <2> QED
    BY <1>2, <2>2 DEF workVars
<1>8. CASE UNCHANGED vars
  BY <1>2, <1>8 DEF vars, nodeVars, workVars
<1> QED
  BY <1>4, <1>5, <1>6, <1>7, <1>8 DEF PollStep

LEMMA InitSeq == Init => SeqInv /\ NamesApart
<1> SUFFICES ASSUME Init PROVE SeqInv /\ NamesApart
  OBVIOUS
<1>1. \A id \in RowIds : pc[id] \in Outside
  BY DEF Init, WorkInit, NoWorkers, Outside
<1>2. NamesApart
  BY NodeAssumption DEF Init, NodeInit, NamesApart
<1> QED
  BY <1>1, <1>2, NobodyRuns

LEMMA NextSeq ==
  ASSUME MaxWorkers = 1, MaxPlugs = 0, IInv, SeqInv, NamesApart, [Next]_vars
  PROVE  SeqInv' /\ NamesApart'
BY WorkerSeq, OtherSeq DEF Next, AgentStep, WorkerStep

-----------------------------------------------------------------------------
\* Where a worker comes from and what it does to the files, of all its steps.
LEMMA WorkerSteps ==
  ASSUME IInv, NEW id \in RowIds, Worker(id)
  PROVE  /\ pc[id] # "none"
         /\ \A i \in RowIds \ {id} : pc'[i] = pc[i]
         /\ pc[id] = "validate" /\ pc'[id] = "mark" => InUse(name[id])
         /\ \A s \in Slots : file'[s] # file[s] => pc[id] \in NamedPcs /\ name[id] = s
<1>1. pc \in [RowIds -> Pcs]
      /\ file \in [Slots -> Content \cup {NoFile, Truncated}]
  BY DEF IInv, SharedInv, SharedTypeOK, NodeTypeOK
<1>2. CASE UseCaseStep(id)
  BY <1>1, <1>2 DEF UseCaseStep, Acquire, ReuseName, NextName, CheckNeed, Skip,
                    MarkConfigured, MarkFailed, Goto, nodeVars
<1>3. CASE \/ OpenFile(id, "configure") \/ FillFile(id, "try") \/ DropTried(id)
           \/ RollbackRemove(id)
  <2>1. pc[id] \in NamedPcs /\ pc[id] \notin {"none", "validate"}
    BY <1>3 DEF OpenFile, FillFile, DropTried, RollbackRemove, NamedPcs, WrittenPcs
  <2>2. \A s \in Slots : s # name[id] => file'[s] = file[s]
    BY <1>1, <1>3 DEF OpenFile, FillFile, DropTried, RollbackRemove
  <2> QED
    BY <1>1, <1>3, <2>1, <2>2 DEF OpenFile, FillFile, DropTried, RollbackRemove, Goto
<1>4. CASE TryNetplan(id) \/ ApplyNetplan(id) \/ RollbackApply(id) \/ Validate(id)
  BY <1>1, <1>4 DEF TryNetplan, ApplyNetplan, RollbackApply, Validate, DeviceExists,
                    Goto
<1> QED
  BY <1>2, <1>3, <1>4 DEF Worker, AdapterStep

\* A worker is moved by its own step, by the start of a poll, or by its end.
LEMMA Moved ==
  ASSUME IInv, Next, NEW id \in RowIds, pc'[id] # pc[id]
  PROVE  \/ WorkerStep(id)
         \/ pc'[id] \in {"none", "queued"} /\ (phase' = "configuring" => UNCHANGED file)
<1>1. ASSUME NEW i \in RowIds, WorkerStep(i) PROVE WorkerStep(id)
  BY <1>1, WorkerSteps DEF WorkerStep
<1>2. CASE PollStep \/ ProcessStep \/ EnvironmentStep
  BY <1>2 DEF PollStep, StartAPoll, StartPoll, PollFails, ConfigureDone, CleanupStep,
              FindStep, FindOrphans, FindOrphansUnread, FindFails, RemoveOrphan,
              ReapplyNetplan, Reapplied, DeleteDone, ProcessStep, Signal, Exit, Crash,
              Gone, Restart, EnvironmentStep, NoWorkers, nodeVars, workVars
<1> QED
  BY <1>1, <1>2 DEF Next, AgentStep

\* What the name stands for that Validate finds on some device.
LEMMA ValidateSees ==
  ASSUME SeqInv, NEW id \in RowIds, pc[id] = "validate", InUse(name[id])
  PROVE  ValidatedMeans(id)
<1>1. Own(id)
  BY DEF SeqInv
<1>2. name[id] \in Slots /\ NobodyElse(id) /\ file[name[id]] = Prescribed(id)
  BY <1>1 DEF Own, NameHeld, FileOwn, NamedPcs, WrittenPcs
<1>3. dev[snap[id].mac] = name[id]
  BY <1>2 DEF InUse, NobodyElse
<1>4. live[snap[id].mac] = snap[id].cfg
  BY <1>1, <1>3 DEF Own, LiveOwn
<1> QED
  BY <1>2, <1>3, <1>4 DEF ValidatedMeans

\* One worker, and no device comes or goes: Validate reports success only for
\* the interface it was called for, whatever the controller, faults, signals
\* and crashes do (interface_naming.go:36-72, netplan_adapter.go:92-106,
\* configure_network.go:173-186).
THEOREM ValidatedIsTrue ==
  ASSUME MaxWorkers = 1, MaxPlugs = 0
  PROVE  Spec => ValidatedIsReal
<1> DEFINE Inv == IInv /\ SeqInv /\ NamesApart
<1>1. Init => Inv
  BY InitIInv, InitSeq
<1>2. Inv /\ [Next]_vars => Inv'
  BY NextIInv, NextSeq
<1>3. Inv /\ [Next]_vars =>
        [\A id \in RowIds :
           pc[id] = "validate" /\ pc'[id] = "mark" => ValidatedMeans(id)]_vars
  <2> SUFFICES ASSUME Inv, Next, NEW id \in RowIds, pc[id] = "validate", pc'[id] = "mark"
               PROVE  ValidatedMeans(id)
    BY DEF vars
  <2>1. InUse(name[id])
    BY Moved, WorkerSteps DEF WorkerStep
  <2> QED
    BY <2>1, ValidateSees
<1> QED
  BY <1>1, <1>2, <1>3, PTL DEF Spec, ValidatedIsReal

\* Under the same assumptions no worker touches the file of another row's
\* working interface (interface_naming.go:36-72, netplan_adapter.go:45-60,109-118).
THEOREM OthersKept ==
  ASSUME MaxWorkers = 1, MaxPlugs = 0
  PROVE  Spec => OthersKeepTheirFiles
<1> DEFINE Inv == IInv /\ SeqInv /\ NamesApart
<1>1. Init => Inv
  BY InitIInv, InitSeq
<1>2. Inv /\ [Next]_vars => Inv'
  BY NextIInv, NextSeq
<1>3. Inv /\ [Next]_vars =>
        [\A id \in RowIds, s \in Slots :
           pc'[id] # pc[id] /\ phase' = "configuring" /\ InService(s, id)
             => file'[s] = file[s]]_vars
  <2> SUFFICES ASSUME Inv, Next, NEW id \in RowIds, NEW s \in Slots,
                      pc'[id] # pc[id], phase' = "configuring", InService(s, id),
                      file'[s] # file[s]
               PROVE  FALSE
    BY DEF vars
  <2>1. WorkerStep(id) /\ pc[id] \in NamedPcs /\ name[id] = s
    BY Moved, WorkerSteps DEF WorkerStep
  <2>2. NobodyElse(id)
    BY <2>1 DEF SeqInv, Own, NameHeld
  <2> QED
    BY <2>1, <2>2 DEF NobodyElse, InService, Content
<1> QED
  BY <1>1, <1>2, <1>3, PTL DEF Spec, OthersKeepTheirFiles

-----------------------------------------------------------------------------
\* Why no MAC gets a second file while nothing fails: a file is either under the
\* name its device has, or was not applied yet (its worker is at work, or was
\* killed).  An unapplied file is always under the least name nobody has,
\* because that is what GenerateNextName chooses and names are never given back.

LeastFree(s) == ~InUse(s) /\ \A t \in Slots : t < s => InUse(t)

Placed(m, s) == IF dev[m] \in Slots THEN dev[m] = s ELSE LeastFree(s)

FilesPlaced == \A s \in Slots : file[s] \in Content => Placed(file[s].mac, s)

NamePlaced(id) ==
  /\ pc[id] = "next" => dev[snap[id].mac] \notin Slots
  /\ pc[id] \in NamedPcs => Placed(snap[id].mac, name[id])

PlacedInv == faults = 0 => FilesPlaced /\ \A id \in RowIds : NamePlaced(id)

LEMMA OneLeastFree ==
  ASSUME NEW s \in Slots, NEW t \in Slots, LeastFree(s), LeastFree(t)
  PROVE  s = t
<1>1. s \in Nat /\ t \in Nat
  BY NodeAssumption DEF Slots
<1> QED
  BY <1>1 DEF LeastFree

LEMMA PlacedOnce ==
  ASSUME FilesPlaced, file \in [Slots -> Content \cup {NoFile, Truncated}]
  PROVE  OneFileEach
<1> SUFFICES ASSUME NEW s \in Slots, NEW t \in Slots, file[s] \in Content,
                    file[t] \in Content, file[s].mac = file[t].mac
             PROVE  s = t
  BY DEF OneFileEach
<1>1. Placed(file[s].mac, s) /\ Placed(file[s].mac, t)
  BY DEF FilesPlaced
<1> QED
  BY <1>1, OneLeastFree DEF Placed

\* Netplan takes no name away, and gives the least free one only.
LEMMA NetplanFillsLeast ==
  ASSUME NodeTypeOK, NamesApart, FilesPlaced, NetplanApplies, NEW m \in MACs
  PROVE  /\ dev[m] \in Slots => dev'[m] = dev[m]
         /\ dev'[m] # dev[m] =>
              /\ dev'[m] \in Slots /\ LeastFree(dev'[m])
              /\ file[dev'[m]] \in Content /\ file[dev'[m]].mac = m
<1>1. SUFFICES ASSUME dev'[m] # dev[m]
               PROVE  /\ dev[m] \notin Slots
                      /\ dev'[m] \in Slots /\ LeastFree(dev'[m])
                      /\ file[dev'[m]] \in Content /\ file[dev'[m]].mac = m
  OBVIOUS
<1>2. dev'[m] \in Wanted(file, m)
  BY <1>1 DEF NetplanApplies, Renames
<1>3. dev'[m] \in Slots /\ file[dev'[m]] \in Content /\ file[dev'[m]].mac = m
  BY <1>2 DEF Wanted
<1>4. Placed(m, dev'[m])
  BY <1>3 DEF FilesPlaced
<1> QED
  BY <1>1, <1>3, <1>4 DEF Placed

\* So what is placed stays so, when no other MAC's file is under the name.
LEMMA StaysPlaced ==
  ASSUME NodeTypeOK, NamesApart, FilesPlaced, NetplanApplies,
         NEW m \in MACs, NEW s \in Slots, Placed(m, s),
         file[s] \in Content => file[s].mac = m
  PROVE  Placed(m, s)'
<1>1. CASE dev[m] \in Slots
  BY <1>1, NetplanFillsLeast DEF Placed
<1>2. CASE dev[m] \notin Slots /\ dev'[m] \in Slots
  BY <1>2, NetplanFillsLeast, OneLeastFree DEF Placed
<1>3. CASE dev[m] \notin Slots /\ dev'[m] \notin Slots
  <2>1. LeastFree(s)
    BY <1>3 DEF Placed
  <2>2. \A n \in MACs : dev'[n] # s
    <3> SUFFICES ASSUME NEW n \in MACs, dev'[n] = s PROVE FALSE
      OBVIOUS
    <3>1. dev'[n] # dev[n]
      BY <2>1 DEF LeastFree, InUse
    <3> QED
      BY <1>3, <3>1, NetplanFillsLeast
  <2>3. \A t \in Slots : t < s => \E n \in MACs : dev'[n] = t
    BY <2>1, NetplanFillsLeast DEF LeastFree, InUse
  <2> QED
    BY <1>3, <2>2, <2>3 DEF Placed, LeastFree, InUse
<1> QED
  BY <1>1, <1>2, <1>3

LEMMA FilesStayPlaced ==
  ASSUME NodeTypeOK, NamesApart, FilesPlaced, NetplanApplies \/ UNCHANGED dev,
         UNCHANGED file
  PROVE  FilesPlaced'
<1>1. CASE NetplanApplies
  <2> SUFFICES ASSUME NEW s \in Slots, file[s] \in Content
               PROVE  Placed(file[s].mac, s)'
    BY DEF FilesPlaced
  <2>1. file[s].mac \in MACs /\ Placed(file[s].mac, s)
    BY DEF FilesPlaced, Content
  <2> QED
    BY <1>1, <2>1, StaysPlaced
<1>2. CASE UNCHANGED dev
  BY <1>2 DEF FilesPlaced, Placed, LeastFree, InUse
<1> QED
  BY <1>1, <1>2

\* Files may go, and nothing else happens to them and to the devices.
LEMMA FewerFiles ==
  ASSUME FilesPlaced, UNCHANGED dev,
         \A s \in Slots : file'[s] \in Content => file'[s] = file[s]
  PROVE  FilesPlaced'
BY DEF FilesPlaced, Placed, LeastFree, InUse

\* A worker's step that keeps the devices keeps the other workers' places.
LEMMA QuietPlaced ==
  ASSUME PlacedInv, NEW id \in RowIds, UNCHANGED <<dev, snap>>,
         faults' = 0 => faults = 0 /\ FilesPlaced' /\ NamePlaced(id)',
         \A j \in RowIds \ {id} : pc'[j] = pc[j] /\ name'[j] = name[j]
  PROVE  PlacedInv'
BY DEF PlacedInv, NamePlaced, Placed, LeastFree, InUse

LEMMA UseCasePlaced ==
  ASSUME IInv, SeqInv, PlacedInv, NEW id \in RowIds, UseCaseStep(id)
  PROVE  PlacedInv'
<1>1. /\ NodeTypeOK /\ pc \in [RowIds -> Pcs] /\ name \in [RowIds -> Slots \cup {NoSlot}]
      /\ pc[id] # "none"
  BY DEF IInv, SharedInv, SharedTypeOK, UseCaseStep, Acquire, ReuseName, NextName,
         CheckNeed, Skip, MarkConfigured, MarkFailed
<1>2. /\ UNCHANGED <<file, dev, snap>>
      /\ \A j \in RowIds \ {id} : pc'[j] = pc[j] /\ name'[j] = name[j]
  BY <1>1 DEF UseCaseStep, Acquire, ReuseName, NextName, CheckNeed, Skip,
              MarkConfigured, MarkFailed, Goto, nodeVars
<1>3. faults' = 0 => faults = 0
  BY <1>1, FaultsGrow
     DEF UseCaseStep, Acquire, ReuseName, NextName, CheckNeed, Skip, MarkConfigured,
         MarkFailed, Sound, nodeVars
<1>4. faults' = 0 => FilesPlaced'
  BY <1>2, <1>3, FewerFiles DEF PlacedInv
<1>5. ASSUME faults' = 0 PROVE NamePlaced(id)'
  <2>1. faults = 0 /\ NamePlaced(id)
    BY <1>3, <1>5 DEF PlacedInv
  <2>2. CASE \/ Acquire(id) \/ Skip(id) \/ MarkConfigured(id) \/ MarkFailed(id)
    <3>1. pc'[id] \in {"reuse", "skipped", "processed", "failed", "markFailed"}
      BY <1>1, <2>2 DEF Acquire, Skip, MarkConfigured, MarkFailed, Goto
    <3> QED
      BY <3>1 DEF NamePlaced, NamedPcs, WrittenPcs, ClearedPcs
  <2>3. CASE ReuseName(id)
    <3>1. CASE Named(snap[id].mac) /\ name' = [name EXCEPT ![id] = dev[snap[id].mac]]
               /\ Goto(id, "check")
      <4>1. pc'[id] = "check" /\ name'[id] = dev[snap[id].mac]
            /\ dev[snap[id].mac] \in Slots
        BY <1>1, <3>1 DEF Goto, Named
      <4> QED
        BY <1>2, <4>1 DEF NamePlaced, Placed
    <3>2. CASE (IF Named(snap[id].mac) THEN Faulty ELSE Sound) /\ Goto(id, "next")
      <4>1. pc'[id] = "next"
        BY <1>1, <3>2 DEF Goto
      <4>2. ~Faulty
        BY <1>1, <1>5, NodeAssumption DEF Faulty, NodeTypeOK
      <4>3. dev[snap[id].mac] \notin Slots
        BY <3>2, <4>2 DEF Named
      <4> QED
        BY <1>2, <4>1, <4>3 DEF NamePlaced, NamedPcs, WrittenPcs, ClearedPcs
    <3> QED
      BY <2>3, <3>1, <3>2 DEF ReuseName
  <2>4. CASE NextName(id)
    <3> DEFINE free == {s \in Slots : ~InUse(s)}
               least == CHOOSE s \in free : \A t \in free : s <= t
    <3>1. CASE free = {}
      <4>1. pc'[id] = "failed"
        BY <1>1, <2>4, <3>1 DEF NextName, Goto
      <4> QED
        BY <4>1 DEF NamePlaced, NamedPcs, WrittenPcs, ClearedPcs
    <3>2. CASE free # {}
      <4>1. pc'[id] = "check" /\ name'[id] = least /\ pc[id] = "next"
        BY <1>1, <2>4, <3>2 DEF NextName, Goto
      <4>2. least \in free /\ \A t \in free : least <= t
        <5>1. \E s \in free : \A t \in free : s <= t
          BY <3>2, LeastExists
        <5> QED
          BY <5>1
      <4> HIDE DEF least
      <4>3. LeastFree(least)
        <5> SUFFICES ASSUME NEW t \in Slots, t < least PROVE InUse(t)
          BY <4>2 DEF LeastFree
        <5>1. t \in Nat /\ least \in Nat
          BY <4>2, NodeAssumption DEF Slots
        <5> QED
          BY <4>2, <5>1
      <4>4. dev[snap[id].mac] \notin Slots
        BY <2>1, <4>1 DEF NamePlaced
      <4> QED
        BY <1>2, <4>1, <4>3, <4>4 DEF NamePlaced, Placed, LeastFree, InUse
    <3> QED
      BY <3>1, <3>2
  <2>5. CASE CheckNeed(id)
    <3>1. pc[id] = "check" /\ UNCHANGED name /\ pc'[id] \in {"markFailed", "configure"}
      BY <1>1, <2>5 DEF CheckNeed, Goto
    <3> QED
      BY <1>2, <2>1, <3>1
         DEF NamePlaced, Placed, LeastFree, InUse, NamedPcs, WrittenPcs, ClearedPcs
  <2> QED
    BY <2>2, <2>3, <2>4, <2>5 DEF UseCaseStep
<1> QED
  BY <1>2, <1>3, <1>4, <1>5, QuietPlaced

LEMMA FileStepPlaced ==
  ASSUME IInv, SeqInv, PlacedInv, NEW id \in RowIds,
         \/ OpenFile(id, "configure")
         \/ FillFile(id, "try")
         \/ DropTried(id)
         \/ RollbackRemove(id)
         \/ Validate(id)
  PROVE  PlacedInv'
<1>1. /\ NodeTypeOK /\ pc \in [RowIds -> Pcs]
      /\ file \in [Slots -> Content \cup {NoFile, Truncated}]
      /\ UNCHANGED <<dev, snap, name>>
      /\ pc[id] \in {"configure", "fill", "dropTried", "undo", "rollback", "validate"}
  BY DEF IInv, SharedInv, SharedTypeOK, NodeTypeOK, OpenFile, FillFile, DropTried,
         RollbackRemove, Validate, Aside
<1>2. pc[id] \in NamedPcs /\ pc[id] # "none"
  BY <1>1 DEF NamedPcs, WrittenPcs
<1>3. /\ name[id] \in Slots /\ snap[id].mac \in MACs /\ Prescribed(id).mac = snap[id].mac
  BY <1>2, RunnerHolds DEF Own, NameHeld
<1>4. /\ \A j \in RowIds \ {id} : pc'[j] = pc[j]
      /\ pc'[id] # "next"
  BY <1>1 DEF OpenFile, FillFile, DropTried, RollbackRemove, Validate, Goto
<1>5. faults' = 0 => faults = 0
  BY <1>1, FaultsGrow
     DEF OpenFile, FillFile, DropTried, RollbackRemove, Validate
<1>6. ASSUME faults = 0 PROVE NamePlaced(id)'
  <2>1. Placed(snap[id].mac, name[id])
    BY <1>2, <1>6 DEF PlacedInv, NamePlaced
  <2> QED
    BY <1>1, <1>4, <2>1 DEF NamePlaced, Placed, LeastFree, InUse
<1>7. ASSUME faults = 0 PROVE FilesPlaced'
  <2>1. FilesPlaced /\ Placed(snap[id].mac, name[id])
    BY <1>2, <1>7 DEF PlacedInv, NamePlaced
  <2>2. CASE file' = [file EXCEPT ![name[id]] = Prescribed(id)]
    <3>1. \A s \in Slots : s # name[id] => file'[s] = file[s]
      BY <1>1, <2>2
    <3>2. file'[name[id]] = Prescribed(id)
      BY <1>1, <1>3, <2>2
    <3> QED
      BY <1>1, <1>3, <2>1, <3>1, <3>2 DEF FilesPlaced, Placed, LeastFree, InUse
  <2>3. CASE \/ file' = [file EXCEPT ![name[id]] = Truncated]
             \/ file' = [file EXCEPT ![name[id]] = NoFile]
             \/ UNCHANGED file
    <3>1. \A s \in Slots : file'[s] \in Content => file'[s] = file[s]
      BY <1>1, <2>3, MarkerAssumption
    <3> QED
      BY <1>1, <2>1, <3>1, FewerFiles
  <2> QED
    BY <2>2, <2>3 DEF OpenFile, FillFile, DropTried, RollbackRemove, Validate
<1> QED
  BY <1>1, <1>4, <1>5, <1>6, <1>7, QuietPlaced

LEMMA NetplanStepPlaced ==
  ASSUME IInv, SeqInv, NamesApart, PlacedInv, NEW id \in RowIds,
         TryNetplan(id) \/ ApplyNetplan(id) \/ RollbackApply(id)
  PROVE  PlacedInv'
<1>1. /\ NodeTypeOK /\ pc \in [RowIds -> Pcs]
      /\ NetplanApplies \/ UNCHANGED dev
      /\ UNCHANGED <<file, snap, name>>
      /\ pc[id] \in {"try", "apply", "undoApply", "rollbackApply"}
  BY DEF IInv, SharedInv, SharedTypeOK, TryNetplan, ApplyNetplan, RollbackApply, Aside,
         NetplanFails
<1>2. pc[id] \in NamedPcs /\ pc[id] # "none" /\ pc[id] \notin Outside
  BY <1>1 DEF NamedPcs, WrittenPcs, ClearedPcs, Outside, Verdicts
<1>3. /\ name[id] \in Slots /\ snap[id].mac \in MACs /\ FileOwn(id)
      /\ Prescribed(id).mac = snap[id].mac
  BY <1>2, RunnerHolds DEF Own, NameHeld
<1>4. faults = 0 /\ file[name[id]] \in Content => file[name[id]].mac = snap[id].mac
  BY <1>1, <1>3, MarkerAssumption DEF FileOwn, WrittenPcs, ClearedPcs
<1>5. faults' = 0 => faults = 0
  BY <1>1, FaultsGrow DEF TryNetplan, ApplyNetplan, RollbackApply
<1>6. ASSUME faults = 0 PROVE PlacedInv'
  <2>1. FilesPlaced /\ Placed(snap[id].mac, name[id])
    BY <1>2, <1>6 DEF PlacedInv, NamePlaced
  <2>2. FilesPlaced'
    BY <1>1, <2>1, FilesStayPlaced
  <2>3. (Placed(snap[id].mac, name[id]))'
    <3>1. CASE NetplanApplies
      BY <1>1, <1>3, <1>4, <1>6, <2>1, <3>1, StaysPlaced
    <3>2. CASE UNCHANGED dev
      BY <1>1, <2>1, <3>2 DEF Placed, LeastFree, InUse
    <3> QED
      BY <1>1, <3>1, <3>2
  <2>4. pc'[id] # "next" /\ \A j \in RowIds \ {id} : pc'[j] \in Outside
    BY <1>1, <1>2 DEF SeqInv, OneRuns, Running, TryNetplan, ApplyNetplan, RollbackApply,
                      Goto
  <2>5. \A j \in RowIds : NamePlaced(j)'
    BY <2>3, <2>4 DEF NamePlaced, Outside, Verdicts, NamedPcs, WrittenPcs, ClearedPcs
  <2> QED
    BY <2>2, <2>5 DEF PlacedInv
<1> QED
  BY <1>5, <1>6 DEF PlacedInv

LEMMA OtherPlaced ==
  ASSUME MaxPlugs = 0, IInv, NamesApart, PlacedInv,
         PollStep \/ ProcessStep \/ EnvironmentStep \/ UNCHANGED vars
  PROVE  PlacedInv'
<1>1. NodeTypeOK /\ file \in [Slots -> Content \cup {NoFile, Truncated}]
  BY DEF IInv, SharedInv, SharedTypeOK, NodeTypeOK
<1>2. ASSUME UNCHANGED <<pc, snap, name, file, dev>>, faults' = 0 => faults = 0
      PROVE  PlacedInv'
  BY <1>2 DEF PlacedInv, NamePlaced, FilesPlaced, Placed, LeastFree, InUse
<1>3. ASSUME \A id \in RowIds : pc'[id] \in Outside,
             faults' = 0 => faults = 0,
             \/ /\ UNCHANGED dev
                /\ \A s \in Slots : file'[s] \in Content => file'[s] = file[s]
             \/ (NetplanApplies \/ NetplanFails) /\ UNCHANGED file
      PROVE  PlacedInv'
  <2>1. faults = 0 => FilesPlaced'
    BY <1>1, <1>3, FewerFiles, FilesStayPlaced DEF PlacedInv, NetplanFails
  <2>2. \A id \in RowIds : NamePlaced(id)'
    BY <1>3 DEF NamePlaced, Outside, Verdicts, NamedPcs, WrittenPcs, ClearedPcs
  <2> QED
    BY <1>3, <2>1, <2>2 DEF PlacedInv
<1>4. CASE (StartAPoll \/ PollFails \/ ConfigureDone) /\ UNCHANGED <<deleteVars, stops>>
  <2>1. CASE PollFails
    <3>1. faults' = 0 => faults = 0
      BY <1>1, <2>1, FaultsGrow DEF PollFails
    <3> QED
      BY <1>2, <2>1, <3>1 DEF PollFails, workVars
  <2>2. CASE StartAPoll
    <3>1. PICK ids \in SUBSET RowIds : StartPoll(ids)
      BY <2>2 DEF StartAPoll
    <3>2. faults' = 0 => faults = 0
      BY <1>1, <3>1, FaultsGrow DEF StartPoll, Reads
    <3>3. UNCHANGED <<dev, file>> /\ \A id \in RowIds : pc'[id] \in Outside
      BY <3>1 DEF StartPoll, Outside
    <3> QED
      BY <1>3, <3>2, <3>3
  <2>3. CASE ConfigureDone
    <3>1. UNCHANGED <<dev, file, faults>> /\ \A id \in RowIds : pc'[id] \in Outside
      BY <2>3 DEF ConfigureDone, NoWorkers, nodeVars, Outside
    <3> QED
      BY <1>3, <3>1
  <2> QED
    BY <1>4, <2>1, <2>2, <2>3
<1>5. CASE CleanupStep /\ UNCHANGED stops
  <2>1. phase # "configuring" /\ UNCHANGED pc
    BY <1>5 DEF CleanupStep, FindStep, FindOrphans, FindOrphansUnread, FindFails,
                RemoveOrphan, ReapplyNetplan, Reapplied, DeleteDone, workVars, nodeVars
  <2>2. \A id \in RowIds : pc'[id] \in Outside
    BY <2>1 DEF IInv, SharedInv, WorkersOnlyConfigure, Outside
  <2>3. faults' = 0 => faults = 0
    <3>1. CASE FindStep
      BY <1>1, <3>1, FaultsGrow DEF FindStep, FindOrphans, FindOrphansUnread, FindFails,
                                    Reads
    <3>2. CASE RemoveOrphan(TRUE) \/ ReapplyNetplan
      BY <1>1, <3>2, FaultsGrow DEF RemoveOrphan, ReapplyNetplan
    <3>3. CASE DeleteDone
      BY <3>3 DEF DeleteDone, nodeVars
    <3> QED
      BY <1>5, <3>1, <3>2, <3>3 DEF CleanupStep
  <2>4. CASE RemoveOrphan(TRUE)
    <3>1. \A s \in Slots : file'[s] \in Content => file'[s] = file[s]
      BY <1>1, <2>4, MarkerAssumption DEF RemoveOrphan
    <3>2. UNCHANGED dev
      BY <2>4 DEF RemoveOrphan
    <3> QED
      BY <1>3, <2>2, <2>3, <3>1, <3>2
  <2>5. CASE FindStep \/ DeleteDone
    BY <1>3, <2>2, <2>3, <2>5
       DEF FindStep, FindOrphans, FindOrphansUnread, FindFails, DeleteDone, nodeVars
  <2>6. CASE ReapplyNetplan
    BY <1>3, <2>2, <2>3, <2>6 DEF ReapplyNetplan, Reapplied
  <2> QED
    BY <1>5, <2>4, <2>5, <2>6 DEF CleanupStep
<1>6. CASE ProcessStep
  <2>1. CASE Signal \/ Restart
    BY <1>2, <2>1 DEF Signal, Restart, nodeVars, workVars
  <2>2. CASE Exit \/ Crash
    <3>1. UNCHANGED <<dev, file, faults>> /\ \A id \in RowIds : pc'[id] \in Outside
      BY <2>2 DEF Exit, Crash, Gone, NoWorkers, Outside
    <3> QED
      BY <1>3, <3>1
  <2> QED
    BY <1>6, <2>1, <2>2 DEF ProcessStep
<1>7. CASE EnvironmentStep
  <2>1. ~(plugs < MaxPlugs)
    BY <1>1 DEF NodeTypeOK
  <2>2. UNCHANGED <<file, dev, workVars, faults>>
    BY <1>7, <2>1 DEF EnvironmentStep, Environment, Editing, InsertRow, EditRow,
                      DeleteRow, Attach, Detach
  <2> QED
    BY <1>2, <2>2 DEF workVars
<1>8. CASE UNCHANGED vars
  BY <1>2, <1>8 DEF vars, nodeVars, workVars
<1> QED
  BY <1>4, <1>5, <1>6, <1>7, <1>8 DEF PollStep

LEMMA InitPlaced == Init => PlacedInv
<1> SUFFICES ASSUME Init PROVE PlacedInv
  OBVIOUS
<1>1. FilesPlaced
  BY MarkerAssumption DEF Init, NodeInit, FilesPlaced
<1>2. \A id \in RowIds : NamePlaced(id)
  BY DEF Init, WorkInit, NoWorkers, NamePlaced, NamedPcs, WrittenPcs, ClearedPcs
<1> QED
  BY <1>1, <1>2 DEF PlacedInv

LEMMA NextPlaced ==
  ASSUME MaxPlugs = 0, IInv, SeqInv, NamesApart, PlacedInv, [Next]_vars
  PROVE  PlacedInv'
<1>1. ASSUME NEW id \in RowIds, WorkerStep(id) PROVE PlacedInv'
  BY <1>1, UseCasePlaced, FileStepPlaced, NetplanStepPlaced
     DEF WorkerStep, Worker, AdapterStep
<1> QED
  BY <1>1, OtherPlaced DEF Next, AgentStep

\* One worker: no MAC has the files of two names until an operation fails,
\* whatever the controller, signals and crashes do (interface_naming.go:36-72,
\* netplan_adapter.go:45-60).
THEOREM FilesAreSingle ==
  ASSUME MaxWorkers = 1, MaxPlugs = 0
  PROVE  Spec => []OneFilePerMac
<1> DEFINE Inv == IInv /\ SeqInv /\ NamesApart /\ PlacedInv
<1>1. Init => Inv
  BY InitIInv, InitSeq, InitPlaced
<1>2. Inv /\ [Next]_vars => Inv'
  BY NextIInv, NextSeq, NextPlaced
<1>3. Inv => OneFilePerMac
  BY PlacedOnce DEF IInv, SharedInv, SharedTypeOK, NodeTypeOK, PlacedInv, OneFilePerMac
<1> QED
  BY <1>1, <1>2, <1>3, PTL DEF Spec
=============================================================================
