--------------------------- MODULE RHELAgentProofs ---------------------------
(***************************************************************************)
(* Proofs about the agent on a node with ifcfg files, for the same          *)
(* parameters and along the same argument as NetplanAgentProofs.  What is   *)
(* new are the links and the names under which workers found their devices. *)
(***************************************************************************)
EXTENDS RHELAgent, AgentLemmas

AdapterTypeOK == LinkTypeOK /\ FoundTypeOK

BaseInv == SharedInv(Pcs) /\ AdapterTypeOK

\* A worker that has got to its adapter has a name to give to its device.
Nameless == Outside \cup {"reuse", "next"}

WorkersNamed == \A id \in RowIds : pc[id] \notin Nameless => name[id] \in Slots

IInv == BaseInv /\ WorkersNamed

LEMMA PcsKnown == CommonPcs \subseteq Pcs /\ AdapterPcs \subseteq Pcs
BY DEF CommonPcs, Pcs

LEMMA TypesOfInv == IInv => TypeOK
BY DEF IInv, BaseInv, SharedInv, SharedTypeOK, AdapterTypeOK, TypeOK

\* A restart of NetworkManager renames nothing, and devices run with the
\* settings of some file, with their old ones or with none.
LEMMA ManagerTyped ==
  ASSUME NodeTypeOK, LinkTypeOK, NMRestarts \/ NMFails
  PROVE  live' \in [MACs -> Cfgs \cup {Plain}] /\ LinkTypeOK'
<1>1. CASE NMRestarts
  BY <1>1 DEF NMRestarts, LinkTypeOK
<1>2. CASE UNCHANGED <<live, linkDown>>
  BY <1>2 DEF NodeTypeOK, LinkTypeOK
<1> QED
  BY <1>1, <1>2 DEF NMFails

-----------------------------------------------------------------------------
\* Each step of the adapter with its effect on links and found names ...
LEMMA AdapterStepTyped ==
  ASSUME BaseInv, NEW id \in RowIds, AdapterStep(id)
  PROVE  AdapterTypeOK'
<1> USE DEF AdapterTypeOK, LinkTypeOK, FoundTypeOK, adapterVars
<1>1. NodeTypeOK /\ AdapterTypeOK /\ snap[id] \in Row \cup {NoRow}
  BY DEF BaseInv, SharedInv, SharedTypeOK
<1>2. CASE FindDevice(id)
  <2>1. pc[id] # "none"
    BY <1>2 DEF FindDevice
  <2>2. dev[snap[id].mac] \in Slots \cup {Unnamed, Absent}
    BY <1>1, <2>1 DEF BaseInv, SharedInv, WorkersHoldRows, Row, NodeTypeOK
  <2> QED
    BY <1>1, <1>2, <2>2 DEF FindDevice
<1>3. \A n : Holders(id, n) \subseteq MACs
  BY DEF Holders
<1>4. Forget(id) => FoundTypeOK'
  BY <1>1 DEF Forget
<1>5. CASE LinkDown(id)
  BY <1>1, <1>3, <1>4, <1>5 DEF LinkDown
<1>6. CASE Rename(id)
  BY <1>1, <1>4, <1>6 DEF Rename
<1>7. CASE BringBack(id)
  BY <1>1, <1>3, <1>4, <1>7 DEF BringBack
<1>8. CASE LinkUp(id)
  BY <1>1, <1>3, <1>8 DEF LinkUp
<1>9. CASE UNCHANGED adapterVars
  BY <1>1, <1>9
<1>10. CASE RestartManager(id)
  BY <1>1, <1>10, ManagerTyped DEF RestartManager
<1>11. CASE RollbackRestart(id)
  BY <1>1, <1>11, ManagerTyped DEF RollbackRestart
<1> QED
  BY <1>2, <1>5, <1>6, <1>7, <1>8, <1>9, <1>10, <1>11
     DEF AdapterStep, LookForFile, Validate, RollbackRemove

\* ... and on everything else.
LEMMA AdapterStepShared ==
  ASSUME IInv, NEW id \in RowIds, AdapterStep(id), UNCHANGED <<deleteVars, stops>>
  PROVE  SharedInv(Pcs)'
<1> USE DEF Pcs, AdapterPcs, UseCasePcs, Verdicts, Aside
<1>1. SharedInv(Pcs) /\ SharedTypeOK(Pcs) /\ NodeTypeOK /\ LinkTypeOK
  BY DEF IInv, BaseInv, SharedInv, SharedTypeOK, AdapterTypeOK
<1>2. CASE FindDevice(id)
  <2>1. faults' \in 0 .. MaxFaults
    BY <1>1, <1>2, FaultsBounded DEF FindDevice
  <2> QED
    BY <1>1, <1>2, <2>1, WorkerMoves DEF FindDevice, SharedTypeOK, NodeTypeOK
<1>3. CASE LinkDown(id)
  <2>1. faults' \in 0 .. MaxFaults
    BY <1>1, <1>3, FaultsBounded DEF LinkDown
  <2>2. live' \in [MACs -> Cfgs \cup {Plain}]
    <3> DEFINE ms == Holders(id, found[id])
    <3>1. {Plain} \cup {live[m] : m \in ms} \subseteq Cfgs \cup {Plain}
      BY <1>1 DEF NodeTypeOK, Holders
    <3>2. ASSUME NEW c \in {Plain} \cup {live[m] : m \in ms},
                 live' = [m \in MACs |-> IF m \in ms THEN c ELSE live[m]]
          PROVE  live' \in [MACs -> Cfgs \cup {Plain}]
      BY <1>1, <3>1, <3>2 DEF NodeTypeOK
    <3>3. CASE UNCHANGED live
      BY <1>1, <3>3 DEF NodeTypeOK
    <3>4. \/ \E c \in {Plain} \cup {live[m] : m \in ms} :
               live' = [m \in MACs |-> IF m \in ms THEN c ELSE live[m]]
          \/ UNCHANGED live
      BY <1>3 DEF LinkDown
    <3> HIDE DEF ms
    <3> QED
      BY <3>2, <3>3, <3>4
  <2> QED
    BY <1>1, <1>3, <2>1, <2>2, WorkerMoves DEF LinkDown, SharedTypeOK, NodeTypeOK
<1>4. CASE Rename(id)
  <2>1. faults' \in 0 .. MaxFaults
    BY <1>1, <1>4, FaultsBounded DEF Rename
  <2>2. dev' \in [MACs -> Slots \cup {Unnamed, Absent}]
    <3> DEFINE ms == Holders(id, found[id])
    <3>1. \/ dev' = [m \in MACs |-> IF m \in ms THEN name[id] ELSE dev[m]]
          \/ UNCHANGED dev
      BY <1>4 DEF Rename
    <3>2. name[id] \in Slots
      BY <1>4 DEF Rename, IInv, WorkersNamed, Nameless, Outside
    <3> HIDE DEF ms
    <3> QED
      BY <1>1, <3>1, <3>2 DEF NodeTypeOK
  <2> QED
    BY <1>1, <1>4, <2>1, <2>2, WorkerMoves DEF Rename, SharedTypeOK, NodeTypeOK
<1>5. CASE BringBack(id)
  <2>1. faults' \in 0 .. MaxFaults
    BY <1>1, <1>5, FaultsBounded DEF BringBack
  <2> QED
    BY <1>1, <1>5, <2>1, WorkerMoves DEF BringBack, SharedTypeOK, NodeTypeOK
<1>6. CASE LinkUp(id)
  <2>1. faults' \in 0 .. MaxFaults
    BY <1>1, <1>6, FaultsBounded DEF LinkUp
  <2> QED
    BY <1>1, <1>6, <2>1, WorkerMoves DEF LinkUp, SharedTypeOK, NodeTypeOK
<1>7. CASE OpenFile(id, "write")
  BY <1>1, <1>7, OpenFileShared
<1>8. CASE FillFile(id, "written")
  BY <1>1, <1>8, FillFileShared
<1>9. ASSUME NEW from \in {"written", "hasFile"}, NEW next \in {"restart", "mark"},
             LookForFile(id, from, next)
      PROVE  SharedInv(Pcs)'
  <2>1. faults' \in 0 .. MaxFaults
    BY <1>1, <1>9, FaultsBounded DEF LookForFile
  <2> QED
    BY <1>1, <1>9, <2>1, WorkerMoves DEF LookForFile, SharedTypeOK, NodeTypeOK
<1>10. CASE RestartManager(id)
  <2>1. faults' \in 0 .. MaxFaults
    BY <1>1, <1>10, FaultsBounded DEF RestartManager
  <2>2. live' \in [MACs -> Cfgs \cup {Plain}]
    BY <1>1, <1>10, ManagerTyped DEF RestartManager
  <2> QED
    BY <1>1, <1>10, <2>1, <2>2, WorkerMoves DEF RestartManager, SharedTypeOK, NodeTypeOK
<1>11. CASE Validate(id)
  <2>1. faults' \in 0 .. MaxFaults
    BY <1>1, <1>11, FaultsBounded DEF Validate
  <2> QED
    BY <1>1, <1>11, <2>1, WorkerMoves DEF Validate, SharedTypeOK, NodeTypeOK
<1>12. CASE RollbackRemove(id)
  <2>1. faults' \in 0 .. MaxFaults
    BY <1>1, <1>12, FaultsBounded DEF RollbackRemove
  <2> QED
    BY <1>1, <1>12, <2>1, WorkerMoves DEF RollbackRemove, SharedTypeOK, NodeTypeOK
<1>13. CASE RollbackRestart(id)
  <2>1. faults' \in 0 .. MaxFaults
    BY <1>1, <1>13, FaultsBounded DEF RollbackRestart
  <2>2. live' \in [MACs -> Cfgs \cup {Plain}]
    BY <1>1, <1>13, ManagerTyped DEF RollbackRestart
  <2> QED
    BY <1>1, <1>13, <2>1, <2>2, WorkerMoves
       DEF RollbackRestart, SharedTypeOK, NodeTypeOK
<1> QED
  BY <1>2, <1>3, <1>4, <1>5, <1>6, <1>7, <1>8, <1>9, <1>10, <1>11, <1>12, <1>13
     DEF AdapterStep, WriteStep

-----------------------------------------------------------------------------
LEMMA CleanupStepKept ==
  ASSUME BaseInv, CleanupStep, UNCHANGED stops
  PROVE  BaseInv'
<1>1. SharedInv(Pcs) /\ NodeTypeOK /\ AdapterTypeOK
  BY DEF BaseInv, SharedInv, SharedTypeOK
<1>2. CASE UNCHANGED adapterVars /\ (FindStep \/ RemoveOrphan(FALSE) \/ DeleteDone)
  <2>1. SharedInv(Pcs)'
    BY <1>1, <1>2, FindStepShared, RemoveOrphanShared, DeleteDoneShared
  <2> QED
    BY <1>1, <1>2, <2>1 DEF adapterVars, BaseInv, AdapterTypeOK, LinkTypeOK, FoundTypeOK
<1>3. CASE RestartForOrphan
  <2>1. faults' \in 0 .. MaxFaults
    BY <1>1, <1>3, FaultsBounded DEF RestartForOrphan
  <2>2. live' \in [MACs -> Cfgs \cup {Plain}] /\ LinkTypeOK'
    BY <1>1, <1>3, ManagerTyped DEF RestartForOrphan, AdapterTypeOK
  <2>3. dev' \in [MACs -> Slots \cup {Unnamed, Absent}] /\ FoundTypeOK'
    BY <1>1, <1>3 DEF RestartForOrphan, NodeTypeOK, AdapterTypeOK, FoundTypeOK
  <2> QED
    BY <1>1, <1>3, <2>1, <2>2, <2>3, ReappliedShared
       DEF RestartForOrphan, BaseInv, AdapterTypeOK
<1> QED
  BY <1>2, <1>3 DEF CleanupStep

LEMMA AttachTyped ==
  ASSUME NodeTypeOK, NEW m \in MACs, NEW n \in Slots \cup {Unnamed}, Attach(m, n)
  PROVE  NodeTypeOK'
<1>1. plugs' \in 0 .. MaxPlugs
  BY NodeAssumption DEF Attach, NodeTypeOK
<1>2. /\ n \in Slots => n \in FreeFor(m)
      /\ FreeFor(m) \subseteq {s \in Slots : file[s] \in Content}
  BY NodeAssumption DEF Attach, FreeFor, Wanted
<1>3. {Plain} \cup {file[s].cfg : s \in {n} \cap Slots} \subseteq Cfgs \cup {Plain}
  BY <1>2 DEF Content
<1>4. live' \in [MACs -> Cfgs \cup {Plain}]
  BY <1>3 DEF Attach, NodeTypeOK
<1> QED
  BY <1>1, <1>4 DEF Attach, NodeTypeOK

LEMMA EnvironmentKept ==
  ASSUME BaseInv, EnvironmentStep
  PROVE  BaseInv'
<1>1. SharedInv(Pcs) /\ NodeTypeOK /\ AdapterTypeOK
  BY DEF BaseInv, SharedInv, SharedTypeOK
<1>2. NodeTypeOK'
  BY <1>1, EditingTyped, AttachTyped, DetachTyped
     DEF EnvironmentStep, Environment, DetachLink
<1>3. AdapterTypeOK'
  BY <1>1
     DEF EnvironmentStep, Environment, Attach, DetachLink, AdapterTypeOK, LinkTypeOK,
         FoundTypeOK
<1> QED
  BY <1>1, <1>2, <1>3, OutsideMoves DEF EnvironmentStep, BaseInv

LEMMA PollKept ==
  ASSUME BaseInv, PollStep
  PROVE  BaseInv'
<1>1. SharedInv(Pcs) /\ AdapterTypeOK
  BY DEF BaseInv
<1>2. CASE (BetweenStep \/ PollFails) /\ UNCHANGED <<adapterVars, deleteVars, stops>>
  <2>1. SharedInv(Pcs)'
    BY <1>1, <1>2, StartPollShared, ConfigureDoneShared, PollFailsShared, PcsKnown
       DEF BetweenStep, StartAPoll, Pcs
  <2> QED
    BY <1>1, <1>2, <2>1 DEF adapterVars, BaseInv, AdapterTypeOK, LinkTypeOK, FoundTypeOK
<1>3. CASE CleanupStep /\ UNCHANGED stops
  BY <1>3, CleanupStepKept
<1> QED
  BY <1>2, <1>3 DEF PollStep, BetweenStep

LEMMA ProcessKept ==
  ASSUME BaseInv, ProcessStep
  PROVE  BaseInv'
<1>1. SharedInv(Pcs)'
  BY ProcessShared DEF ProcessStep, Pcs, BaseInv
<1>2. AdapterTypeOK'
  BY DEF ProcessStep, Ended, NothingFound, adapterVars, BaseInv, AdapterTypeOK, LinkTypeOK,
         FoundTypeOK
<1> QED
  BY <1>1, <1>2 DEF BaseInv

-----------------------------------------------------------------------------
LEMMA AdapterStepStays ==
  ASSUME NEW id \in RowIds, AdapterStep(id)
  PROVE  /\ pc[id] \in AdapterPcs \cup {"configure", "fill", "validate", "rollback"}
         /\ UNCHANGED <<phase, name>>
         /\ \E next \in Pcs : Goto(id, next)
<1> USE DEF Aside, AdapterPcs, UseCasePcs, Verdicts, Pcs
<1>1. CASE FindDevice(id)
  BY <1>1 DEF FindDevice
<1>2. CASE LinkDown(id)
  BY <1>2 DEF LinkDown
<1>3. CASE Rename(id)
  BY <1>3 DEF Rename
<1>4. CASE BringBack(id)
  BY <1>4 DEF BringBack
<1>5. CASE LinkUp(id)
  BY <1>5 DEF LinkUp
<1>6. CASE WriteStep(id)
  BY <1>6 DEF WriteStep, OpenFile, FillFile
<1>7. CASE LookForFile(id, "written", "restart") \/ LookForFile(id, "hasFile", "mark")
  BY <1>7 DEF LookForFile
<1>8. CASE RestartManager(id) \/ Validate(id)
  BY <1>8 DEF RestartManager, Validate
<1>9. CASE RollbackRemove(id) \/ RollbackRestart(id)
  BY <1>9 DEF RollbackRemove, RollbackRestart
<1> QED
  BY <1>1, <1>2, <1>3, <1>4, <1>5, <1>6, <1>7, <1>8, <1>9 DEF AdapterStep

LEMMA WorkerStepNamed ==
  ASSUME IInv, NEW id \in RowIds, WorkerStep(id)
  PROVE  WorkersNamed'
<1> USE DEF Nameless, Outside, Verdicts
<1>1. pc \in [RowIds -> Pcs] /\ name \in [RowIds -> Slots \cup {NoSlot}]
  BY DEF IInv, BaseInv, SharedInv, SharedTypeOK
<1>2. /\ \A i \in RowIds \ {id} : pc'[i] = pc[i] /\ name'[i] = name[i]
      /\ pc'[id] \notin Nameless => name'[id] \in Slots
  <2>1. CASE Acquire(id)
    BY <1>1, <2>1 DEF Acquire, Goto
  <2>2. CASE ReuseName(id)
    BY <1>1, <2>2 DEF ReuseName, Named, Goto
  <2>3. CASE NextName(id)
    <3> DEFINE free == {s \in Slots : ~InUse(s)}
    <3>1. free # {} => (CHOOSE s \in free : \A t \in free : s <= t) \in free
      BY LeastSlot
    <3> QED
      BY <1>1, <2>3, <3>1 DEF NextName, Goto
  <2>4. CASE CheckNeed(id) \/ Skip(id) \/ MarkConfigured(id) \/ MarkFailed(id)
    <3>1. /\ pc[id] \in {"check", "mark", "markFailed"} /\ UNCHANGED name
          /\ \E next : Goto(id, next)
      BY <2>4 DEF CheckNeed, Skip, MarkConfigured, MarkFailed
    <3> QED
      BY <1>1, <3>1 DEF Goto, IInv, WorkersNamed
  <2>5. CASE AdapterStep(id)
    <3>1. pc[id] \notin Nameless
      BY <2>5, AdapterStepStays DEF AdapterPcs
    <3> QED
      BY <1>1, <2>5, <3>1, AdapterStepStays DEF Goto, IInv, WorkersNamed
  <2> QED
    BY <2>1, <2>2, <2>3, <2>4, <2>5 DEF WorkerStep, Worker, UseCaseStep
<1> QED
  BY <1>2 DEF IInv, WorkersNamed

LEMMA OthersNamed ==
  ASSUME IInv, \/ UNCHANGED <<pc, name>>
               \/ \A id \in RowIds : pc'[id] \in {"none", "queued"}
  PROVE  WorkersNamed'
BY DEF IInv, WorkersNamed, Nameless, Outside

LEMMA NextIInv == IInv /\ [Next]_vars => IInv'
<1> SUFFICES ASSUME IInv, [Next]_vars PROVE IInv'
  OBVIOUS
<1> USE DEF IInv
<1>1. SharedInv(Pcs) /\ AdapterTypeOK
  BY DEF BaseInv
<1>2. CASE PollStep
  <2>1. \/ UNCHANGED <<pc, name>>
        \/ \A id \in RowIds : pc'[id] \in {"none", "queued"}
    BY <1>2 DEF PollStep, BetweenStep, StartAPoll, StartPoll, ConfigureDone, NoWorkers,
                PollFails, workVars, CleanupStep, FindStep, FindOrphans,
                FindOrphansUnread, FindFails, RemoveOrphan, DeleteDone,
                RestartForOrphan, Reapplied
  <2> QED
    BY <1>2, <2>1, PollKept, OthersNamed
<1>3. ASSUME NEW id \in RowIds, WorkerStep(id)
      PROVE  IInv'
  <2>1. CASE UseCaseStep(id) /\ UNCHANGED adapterVars
    <3>1. SharedInv(Pcs)'
      BY <1>1, <1>3, <2>1, UseCaseStepShared, PcsKnown DEF WorkerStep
    <3>2. AdapterTypeOK'
      BY <1>1, <2>1 DEF adapterVars, AdapterTypeOK, LinkTypeOK, FoundTypeOK
    <3> QED
      BY <1>3, <3>1, <3>2, WorkerStepNamed DEF BaseInv
  <2>2. CASE AdapterStep(id)
    BY <1>3, <2>2, AdapterStepShared, AdapterStepTyped, WorkerStepNamed
       DEF WorkerStep, BaseInv
  <2> QED
    BY <1>3, <2>1, <2>2 DEF WorkerStep, Worker
<1>4. CASE ProcessStep
  <2>1. \/ UNCHANGED <<pc, name>>
        \/ \A id \in RowIds : pc'[id] \in {"none", "queued"}
    BY <1>4 DEF ProcessStep, Signal, Exit, Crash, Gone, NoWorkers, Restart, workVars
  <2> QED
    BY <1>4, <2>1, ProcessKept, OthersNamed
<1>5. CASE EnvironmentStep
  BY <1>5, EnvironmentKept, OthersNamed DEF EnvironmentStep, workVars
<1>6. CASE UNCHANGED vars
  <2>1. BaseInv'
    BY <1>1, <1>6
       DEF vars, nodeVars, workVars, adapterVars, deleteVars, stops, BaseInv, SharedInv,
           SharedTypeOK, NodeTypeOK, StopsTypeOK, WorkersHoldRows, WorkersOnlyConfigure,
           AdapterTypeOK, LinkTypeOK, FoundTypeOK
  <2> QED
    BY <1>6, <2>1, OthersNamed DEF vars, workVars
<1> QED
  BY <1>2, <1>3, <1>4, <1>5, <1>6 DEF Next

LEMMA InitIInv == Init => IInv /\ OrphansUnlisted
<1> SUFFICES ASSUME Init PROVE IInv /\ OrphansUnlisted
  OBVIOUS
<1>1. SharedInv(Pcs) /\ OrphansUnlisted
  BY InitShared DEF Init, Pcs
<1> QED
  BY <1>1
     DEF Init, WorkInit, NoWorkers, LinkInit, NothingFound, IInv, BaseInv, WorkersNamed,
         Nameless, Outside, AdapterTypeOK, LinkTypeOK, FoundTypeOK

\* The state of the agent, the table and the node is type correct
\* (configure_network.go:87-152, rhel_adapter.go:65-200).
THEOREM TypeCorrect == Spec => []TypeOK
<1>1. Init => IInv
  BY InitIInv
<1>2. IInv /\ [Next]_vars => IInv'
  BY NextIInv
<1> QED
  BY <1>1, <1>2, TypesOfInv, PTL DEF Spec

-----------------------------------------------------------------------------
\* A worker runs only while the poll configures, and then there is no list.
LEMMA WorkersUnlisted ==
  ASSUME IInv, NEW id \in RowIds, WorkerStep(id)
  PROVE  phase = "configuring" /\ phase' # "deleting"
<1>1. CASE UseCaseStep(id)
  <2>1. pc[id] # "none" /\ phase' = phase
    BY <1>1 DEF UseCaseStep, Acquire, ReuseName, NextName, CheckNeed, Skip,
                MarkConfigured, MarkFailed
  <2> QED
    BY <2>1 DEF IInv, BaseInv, SharedInv, WorkersOnlyConfigure
<1>2. CASE AdapterStep(id)
  <2>1. pc[id] # "none" /\ phase' = phase
    BY <1>2 DEF AdapterStep, FindDevice, LinkDown, Rename, BringBack, LinkUp, WriteStep,
                OpenFile, FillFile, LookForFile, RestartManager, Validate,
                RollbackRemove, RollbackRestart, Aside
  <2> QED
    BY <2>1 DEF IInv, BaseInv, SharedInv, WorkersOnlyConfigure
<1> QED
  BY <1>1, <1>2 DEF WorkerStep, Worker

\* One step of the argument: the list stays right, and only what is on it goes.
LEMMA CleanupStepSpares ==
  ASSUME ScanMayFail = FALSE, IInv, OrphansUnlisted, [Next]_vars
  PROVE  /\ OrphansUnlisted'
         /\ phase = "deleting" /\ phase' # "down" =>
              \A s \in Slots : file'[s] # file[s] => s \in orphans
<1>1. CASE PollStep
  <2>1. CASE BetweenStep \/ (PollFails /\ UNCHANGED <<adapterVars, deleteVars, stops>>)
    BY <2>1, OthersUnlisted
       DEF BetweenStep, StartAPoll, StartPoll, PollFails, ConfigureDone, workVars, nodeVars,
           deleteVars
  <2>2. CASE FindStep
    <3>1. phase = "cleanup"
      BY <2>2 DEF FindStep, FindOrphans, FindOrphansUnread, FindFails
    <3> QED
      BY <2>2, <3>1, FindStepUnlisted DEF IInv, BaseInv, SharedInv, SharedTypeOK
  <2>3. CASE RemoveOrphan(FALSE)
    BY <2>3, RemoveOrphanUnlisted DEF IInv, BaseInv
  <2>4. CASE RestartForOrphan \/ DeleteDone
    BY <2>4, OthersUnlisted DEF RestartForOrphan, Reapplied, DeleteDone, workVars, nodeVars
  <2> QED
    BY <1>1, <2>1, <2>2, <2>3, <2>4 DEF PollStep, CleanupStep
<1>2. ASSUME NEW id \in RowIds, WorkerStep(id)
      PROVE  phase = "configuring" /\ OrphansUnlisted'
  BY <1>2, WorkersUnlisted, OthersUnlisted
<1>3. CASE ProcessStep
  BY <1>3, OthersUnlisted
     DEF ProcessStep, Signal, Exit, Crash, Gone, Restart, nodeVars, workVars, deleteVars
<1>4. CASE EnvironmentStep
  <2>1. UNCHANGED <<file, workVars, deleteVars>>
    BY <1>4 DEF EnvironmentStep, Environment, Editing, InsertRow, EditRow, DeleteRow,
                Attach, DetachLink, Detach
  <2> QED
    BY <2>1, OthersUnlisted DEF workVars, deleteVars
<1>5. CASE UNCHANGED vars
  BY <1>5, OthersUnlisted DEF vars, nodeVars, workVars, deleteVars
<1> QED
  BY <1>1, <1>2, <1>3, <1>4, <1>5 DEF Next

\* The cleanup removes no file of a MAC that had an active row when it read the
\* table, if every row scans (delete_network.go:322-393).
THEOREM ListedSpared ==
  ASSUME ScanMayFail = FALSE
  PROVE  Spec => CleanupSparesListed
<1> DEFINE Inv == IInv /\ OrphansUnlisted
<1>1. Init => Inv
  BY InitIInv
<1>2. Inv /\ [Next]_vars => Inv'
  BY NextIInv, CleanupStepSpares
<1>3. Inv /\ [Next]_vars =>
        [\A s \in Slots :
           phase = "deleting" /\ phase' # "down"
             /\ file[s] \in Content /\ file'[s] # file[s]
           => file[s].mac \notin listed]_vars
  BY CleanupStepSpares DEF OrphansUnlisted
<1> QED
  BY <1>1, <1>2, <1>3, PTL DEF Spec, CleanupSparesListed

-----------------------------------------------------------------------------
(***************************************************************************)
(* Why a row that is marked configured on a node with ifcfg files is so,    *)
(* although any number of workers name devices, write files and restart     *)
(* NetworkManager at the same time.                                         *)
(*                                                                         *)
(* Nothing reserves a name, but the kernel gives it to one device only, and *)
(* a worker does not write before its own device has it (NamesApart,        *)
(* NamedBeforeWrite).  So two workers that chose the same name never both   *)
(* write its file; the one that lost can only remove it, and the look at    *)
(* the file after the restart notices (FileIsOwn, FileIsLive).              *)
(***************************************************************************)

\* The controller gives no MAC two rows, and a poll reads them at one time.
RowsApart ==
  \A i, j \in RowIds : i # j /\ rows[i] # NoRow /\ rows[j] # NoRow
                        => rows[i].mac # rows[j].mac

SnapsApart ==
  \A i, j \in RowIds : i # j /\ snap[i] # NoRow /\ snap[j] # NoRow
                        => snap[i].mac # snap[j].mac

\* The kernel gives no name twice.
NamesApart == \A m, n \in MACs : dev[m] \in Slots /\ dev[m] = dev[n] => m = n

\* The device a worker is about to rename is still where it found it.
FoundIsThere(id) ==
  pc[id] \in {"down", "rename"} => dev[snap[id].mac] = found[id] /\ found[id] # Absent

HasDevice  == {"up", "write", "fill", "written", "restart", "validate", "hasFile"}
HasWritten == {"written", "restart", "validate", "hasFile"}

NamedBeforeWrite(id) == pc[id] \in HasDevice => dev[snap[id].mac] = name[id]

\* What a worker has written is there, or was removed by another's rollback.
FileIsOwn(id) == pc[id] \in HasWritten => file[name[id]] \in {NoFile, Prescribed(id)}

\* After the restart, a file that is still there is in force.
FileIsLive(id) ==
  pc[id] \in {"validate", "hasFile"} /\ file[name[id]] = Prescribed(id) =>
    live[snap[id].mac] = snap[id].cfg /\ snap[id].mac \notin linkDown

SteadyAt(id) ==
  FoundIsThere(id) /\ NamedBeforeWrite(id) /\ FileIsOwn(id) /\ FileIsLive(id)

Apart == RowsApart /\ SnapsApart /\ NamesApart

\* Devices that come and go may take a name from under a worker.
ValidInv == Apart /\ (plugs = 0 => \A id \in RowIds : SteadyAt(id))

FullInv == IInv /\ ValidInv

-----------------------------------------------------------------------------
\* The types as the proofs below use them.
LEMMA Typed ==
  ASSUME IInv
  PROVE  /\ rows \in [RowIds -> Row \cup {NoRow}]
         /\ file \in [Slots -> Content \cup {NoFile, Truncated}]
         /\ dev \in [MACs -> Slots \cup {Unnamed, Absent}]
         /\ live \in [MACs -> Cfgs \cup {Plain}]
         /\ linkDown \subseteq MACs
         /\ plugs \in Nat
         /\ pc \in [RowIds -> Pcs]
         /\ snap \in [RowIds -> Row \cup {NoRow}]
         /\ name \in [RowIds -> Slots \cup {NoSlot}]
         /\ found \in [RowIds -> Slots \cup {Unnamed, NoSlot}]
BY NodeAssumption
   DEF IInv, BaseInv, SharedInv, SharedTypeOK, NodeTypeOK, AdapterTypeOK, LinkTypeOK,
       FoundTypeOK

LEMMA WorkerRow ==
  ASSUME IInv, NEW id \in RowIds, pc[id] # "none"
  PROVE  snap[id] \in Row /\ snap[id] # NoRow /\ snap[id].mac \in MACs
BY MarkerAssumption DEF IInv, BaseInv, SharedInv, WorkersHoldRows, Row

LEMMA WorkerName ==
  ASSUME IInv, NEW id \in RowIds, pc[id] \in HasDevice
  PROVE  name[id] \in Slots
BY DEF IInv, WorkersNamed, Nameless, Outside, Verdicts, HasDevice

\* Two workers have two devices ...
LEMMA MacsApart ==
  ASSUME FullInv, NEW i \in RowIds, NEW j \in RowIds, i # j,
         pc[i] # "none", pc[j] # "none"
  PROVE  snap[i].mac # snap[j].mac
BY WorkerRow DEF FullInv, ValidInv, Apart, SnapsApart

\* ... and, once they have given them their names, two names.
LEMMA OwnName ==
  ASSUME FullInv, plugs = 0, NEW i \in RowIds, NEW j \in RowIds, i # j,
         pc[i] \in HasDevice, pc[j] \in HasDevice
  PROVE  name[i] # name[j]
<1>1. pc[i] # "none" /\ pc[j] # "none"
  BY DEF HasDevice
<1>2. dev[snap[i].mac] = name[i] /\ dev[snap[j].mac] = name[j]
  BY DEF FullInv, ValidInv, SteadyAt, NamedBeforeWrite
<1>3. name[i] \in Slots /\ snap[i].mac \in MACs /\ snap[j].mac \in MACs
  BY <1>1, WorkerRow, WorkerName DEF FullInv
<1> QED
  BY <1>1, <1>2, <1>3, MacsApart DEF FullInv, ValidInv, Apart, NamesApart

\* The ip commands of a worker act on its own device.
LEMMA HoldersAreOwn ==
  ASSUME FullInv, plugs = 0, NEW id \in RowIds
  PROVE  /\ pc[id] \in {"down", "rename"} => Holders(id, found[id]) = {snap[id].mac}
         /\ pc[id] \in HasDevice => Holders(id, name[id]) = {snap[id].mac}
<1>1. SteadyAt(id) /\ NamesApart /\ IInv
  BY DEF FullInv, ValidInv, Apart
<1>2. CASE pc[id] \in {"down", "rename"}
  <2>1. snap[id].mac \in MACs /\ dev[snap[id].mac] = found[id] /\ found[id] # Absent
    BY <1>1, <1>2, WorkerRow DEF SteadyAt, FoundIsThere
  <2>2. found[id] \in Slots \cup {Unnamed}
    BY <1>1, <2>1, Typed
  <2> QED
    BY <1>1, <1>2, <2>1, <2>2 DEF Holders, NamesApart, HasDevice
<1>3. CASE pc[id] \in HasDevice
  <2>1. snap[id].mac \in MACs /\ dev[snap[id].mac] = name[id] /\ name[id] \in Slots
    BY <1>1, <1>3, WorkerRow, WorkerName DEF SteadyAt, NamedBeforeWrite, HasDevice
  <2>2. name[id] # Unnamed
    BY <2>1, NodeAssumption
  <2> QED
    BY <1>1, <1>3, <2>1, <2>2 DEF Holders, NamesApart, HasDevice
<1> QED
  BY <1>2, <1>3

\* What a step of an adapter leaves alone.
LEMMA AdapterStepAside ==
  ASSUME NEW id \in RowIds, AdapterStep(id)
  PROVE  UNCHANGED Aside /\ (UNCHANGED dev \/ Rename(id))
<1> USE DEF Aside
<1>1. CASE FindDevice(id) \/ LinkDown(id) \/ BringBack(id) \/ LinkUp(id)
  BY <1>1 DEF FindDevice, LinkDown, BringBack, LinkUp
<1>2. CASE Rename(id)
  BY <1>2 DEF Rename
<1>3. CASE WriteStep(id) \/ RestartManager(id) \/ Validate(id)
  BY <1>3 DEF WriteStep, OpenFile, FillFile, RestartManager, Validate
<1>4. CASE LookForFile(id, "written", "restart") \/ LookForFile(id, "hasFile", "mark")
  BY <1>4 DEF LookForFile
<1>5. CASE RollbackRemove(id) \/ RollbackRestart(id)
  BY <1>5 DEF RollbackRemove, RollbackRestart
<1> QED
  BY <1>1, <1>2, <1>3, <1>4, <1>5 DEF AdapterStep

-----------------------------------------------------------------------------
\* Apart is kept by every step.
LEMMA RowsStayApart ==
  ASSUME IInv, RowsApart, [Next]_vars
  PROVE  RowsApart'
<1> USE DEF RowsApart
<1>1. ASSUME NEW id \in RowIds, NEW status, SetStatus(id, status)
      PROVE  RowsApart'
  BY <1>1, Typed, MarkerAssumption DEF SetStatus, Row
<1>2. CASE UNCHANGED rows
  BY <1>2
<1>3. CASE Editing
  <2>1. ASSUME NEW m \in MACs, NEW c \in Cfgs, InsertRow(m, c)
        PROVE  RowsApart'
    <3>1. \A i \in RowIds : rows[i] # NoRow => rows[i].mac # m
      BY <2>1 DEF InsertRow, MacsOf, Active
    <3> QED
      BY <2>1, <3>1, Typed DEF InsertRow
  <2>2. ASSUME NEW id \in RowIds, NEW c \in Cfgs, NEW st, EditRow(id, c, st)
        PROVE  RowsApart'
    <3>1. rows[id] \in Row /\ rows[id] # NoRow
      BY <2>2, Typed DEF EditRow, Active
    <3>2. [rows[id] EXCEPT !.cfg = c, !.status = st].mac = rows[id].mac
      BY <3>1 DEF Row
    <3>3. rows' = [rows EXCEPT ![id] = [rows[id] EXCEPT !.cfg = c, !.status = st]]
      BY <2>2 DEF EditRow
    <3> DEFINE r == [rows[id] EXCEPT !.cfg = c, !.status = st]
    <3>4. rows' = [rows EXCEPT ![id] = r] /\ r.mac = rows[id].mac
      BY <3>2, <3>3
    <3> HIDE DEF r
    <3>5. \A i \in RowIds : rows'[i] # NoRow => rows[i] # NoRow /\ rows'[i].mac = rows[i].mac
      BY <3>1, <3>4, Typed
    <3> QED
      BY <3>5
  <2>3. ASSUME NEW id \in RowIds, DeleteRow(id)
        PROVE  RowsApart'
    BY <2>3, Typed DEF DeleteRow
  <2> QED
    BY <1>3, <2>1, <2>2, <2>3 DEF Editing
<1>4. CASE PollStep \/ ProcessStep
  BY <1>2, <1>4
     DEF PollStep, BetweenStep, StartAPoll, StartPoll, ConfigureDone, PollFails,
         CleanupStep, FindStep, FindOrphans, FindOrphansUnread, FindFails, RemoveOrphan,
         DeleteDone, RestartForOrphan, Reapplied, ProcessStep, Signal, Exit, Crash, Gone,
         Restart, nodeVars
<1>5. ASSUME NEW id \in RowIds, WorkerStep(id)
      PROVE  UNCHANGED rows \/ \E status : SetStatus(id, status)
  <2>1. CASE UseCaseStep(id)
    BY <2>1 DEF UseCaseStep, Acquire, ReuseName, NextName, CheckNeed, Skip,
                MarkConfigured, MarkFailed, nodeVars
  <2>2. CASE AdapterStep(id)
    BY <2>2, AdapterStepAside DEF Aside
  <2> QED
    BY <1>5, <2>1, <2>2 DEF WorkerStep, Worker
<1>6. CASE EnvironmentStep
  BY <1>2, <1>3, <1>6
     DEF EnvironmentStep, Environment, Attach, DetachLink, Detach
<1>7. CASE UNCHANGED vars
  BY <1>2, <1>7 DEF vars, nodeVars
<1> QED
  BY <1>1, <1>2, <1>4, <1>5, <1>6, <1>7 DEF Next

LEMMA SnapsStayApart ==
  ASSUME IInv, RowsApart, SnapsApart, [Next]_vars
  PROVE  SnapsApart'
<1> USE DEF SnapsApart
<1>1. CASE UNCHANGED snap
  BY <1>1
<1>2. CASE \A id \in RowIds : snap'[id] = NoRow
  BY <1>2
<1>3. ASSUME NEW ids \in SUBSET RowIds, StartPoll(ids)
      PROVE  SnapsApart'
  BY <1>3 DEF StartPoll, RowsApart
<1>4. CASE PollStep \/ ProcessStep
  BY <1>1, <1>2, <1>3, <1>4
     DEF PollStep, BetweenStep, StartAPoll, ConfigureDone, NoWorkers, PollFails,
         CleanupStep, FindStep, FindOrphans, FindOrphansUnread, FindFails, RemoveOrphan,
         DeleteDone, RestartForOrphan, Reapplied, ProcessStep, Signal, Exit, Crash, Gone,
         Restart, workVars
<1>5. ASSUME NEW id \in RowIds, WorkerStep(id)
      PROVE  UNCHANGED snap
  BY <1>5, AdapterStepAside
     DEF WorkerStep, Worker, UseCaseStep, Acquire, ReuseName, NextName, CheckNeed, Skip,
         MarkConfigured, MarkFailed, Aside
<1>6. CASE EnvironmentStep \/ UNCHANGED vars
  BY <1>1, <1>6 DEF EnvironmentStep, workVars, vars
<1> QED
  BY <1>1, <1>4, <1>5, <1>6 DEF Next

\* A device is renamed to a name no device has.
LEMMA NamesStayApart ==
  ASSUME IInv, NamesApart, [Next]_vars
  PROVE  NamesApart'
<1> USE DEF NamesApart
<1>1. CASE UNCHANGED dev
  BY <1>1
<1>2. ASSUME NEW id \in RowIds, Rename(id)
      PROVE  NamesApart'
  <2>1. name[id] \in Slots /\ snap[id].mac \in MACs
    BY <1>2, WorkerRow DEF Rename, IInv, WorkersNamed, Nameless, Outside, Verdicts
  <2>2. \A m, n \in Holders(id, found[id]) : m = n
    <3>1. CASE found[id] = Unnamed
      BY <3>1 DEF Holders
    <3>2. CASE found[id] \in Slots
      BY <3>2 DEF Holders
    <3>3. CASE found[id] = NoSlot
      BY <3>3, Typed, NodeAssumption DEF Holders
    <3> QED
      BY <3>1, <3>2, <3>3, Typed
  <2> QED
    BY <1>2, <2>1, <2>2, Typed DEF Rename, Renamable, InUse
<1>3. ASSUME NEW m \in MACs, NEW n \in Slots \cup {Unnamed}, Attach(m, n)
      PROVE  NamesApart'
  BY <1>3, NodeAssumption, Typed DEF Attach, FreeFor
<1>4. ASSUME NEW m \in MACs, Detach(m)
      PROVE  NamesApart'
  BY <1>4, NodeAssumption, Typed DEF Detach
<1>5. CASE PollStep \/ ProcessStep
  BY <1>1, <1>5
     DEF PollStep, BetweenStep, StartAPoll, StartPoll, ConfigureDone, PollFails,
         CleanupStep, FindStep, FindOrphans, FindOrphansUnread, FindFails, RemoveOrphan,
         DeleteDone, RestartForOrphan, ProcessStep, Signal, Exit, Crash, Gone,
         Restart, nodeVars
<1>6. ASSUME NEW id \in RowIds, WorkerStep(id)
      PROVE  UNCHANGED dev \/ Rename(id)
  BY <1>6, AdapterStepAside
     DEF WorkerStep, Worker, UseCaseStep, Acquire, ReuseName, NextName, CheckNeed, Skip,
         MarkConfigured, MarkFailed, nodeVars
<1>7. CASE EnvironmentStep
  BY <1>1, <1>3, <1>4, <1>7
     DEF EnvironmentStep, Environment, Editing, InsertRow, EditRow, DeleteRow, DetachLink
<1>8. CASE UNCHANGED vars
  BY <1>1, <1>8 DEF vars, nodeVars
<1> QED
  BY <1>1, <1>2, <1>5, <1>6, <1>7, <1>8 DEF Next

-----------------------------------------------------------------------------
\* A device that runs with the settings of its file.
InForce(m) == Profiled(m) /\ live[m] = file[dev[m]].cfg /\ m \notin linkDown

\* A step of a worker as the other workers see it: their devices keep names
\* and settings, and their files are left or removed.
OnlyOwn(id) ==
  /\ UNCHANGED snap
  /\ \A i \in RowIds \ {id} :
       /\ pc'[i] = pc[i] /\ name'[i] = name[i] /\ found'[i] = found[i]
       /\ pc[i] \in HasWritten => file'[name[i]] \in {NoFile, file[name[i]]}
  /\ \A m \in MACs :
       m # snap[id].mac =>
         dev'[m] = dev[m] /\ (InForce(m) => live'[m] = live[m] /\ m \notin linkDown')

LEMMA OthersSteady ==
  ASSUME FullInv, plugs = 0, NEW id \in RowIds, pc[id] # "none", OnlyOwn(id),
         NEW i \in RowIds \ {id}
  PROVE  SteadyAt(i)'
<1>1. CASE pc[i] = "none"
  BY <1>1 DEF OnlyOwn, SteadyAt, FoundIsThere, NamedBeforeWrite, FileIsOwn, FileIsLive,
              HasDevice, HasWritten
<1>2. CASE pc[i] # "none"
  <2>1. /\ SteadyAt(i) /\ UNCHANGED snap
        /\ pc'[i] = pc[i] /\ name'[i] = name[i] /\ found'[i] = found[i]
    BY DEF FullInv, ValidInv, OnlyOwn
  <2>2. snap[i].mac \in MACs /\ snap[i].mac # snap[id].mac
    BY <1>2, WorkerRow, MacsApart DEF FullInv
  <2>3. dev'[snap[i].mac] = dev[snap[i].mac]
    BY <2>2 DEF OnlyOwn
  <2>4. FoundIsThere(i)' /\ NamedBeforeWrite(i)'
    BY <2>1, <2>3 DEF SteadyAt, FoundIsThere, NamedBeforeWrite
  <2>5. FileIsOwn(i)'
    BY <2>1 DEF OnlyOwn, SteadyAt, FileIsOwn, Prescribed
  <2>6. FileIsLive(i)'
    <3> SUFFICES ASSUME pc[i] \in {"validate", "hasFile"}, file'[name[i]] = Prescribed(i)
                 PROVE  /\ live'[snap[i].mac] = snap[i].cfg
                        /\ snap[i].mac \notin linkDown'
      BY <2>1 DEF FileIsLive, Prescribed
    <3>1. file[name[i]] = Prescribed(i) /\ Prescribed(i) \in Content
      <4>1. Prescribed(i) \in Content
        BY <1>2, WorkerRow DEF FullInv, Prescribed, Row, Content
      <4> QED
        BY <4>1, MarkerAssumption DEF OnlyOwn, HasWritten
    <3>2. name[i] \in Slots /\ dev[snap[i].mac] = name[i]
      BY <2>1, WorkerName DEF FullInv, SteadyAt, NamedBeforeWrite, HasDevice
    <3>3. live[snap[i].mac] = snap[i].cfg /\ snap[i].mac \notin linkDown
      BY <2>1, <3>1 DEF SteadyAt, FileIsLive
    <3>4. InForce(snap[i].mac)
      BY <3>1, <3>2, <3>3 DEF InForce, Profiled, Wanted, Prescribed
    <3> QED
      BY <2>2, <3>3, <3>4 DEF OnlyOwn
  <2> QED
    BY <2>4, <2>5, <2>6 DEF SteadyAt
<1> QED
  BY <1>1, <1>2

\* A restart of NetworkManager, done or not, changes nothing that is in force,
\* and puts in force what is not.
LEMMA RestartsKeep ==
  ASSUME IInv, NMRestarts \/ NMFails, NEW m \in MACs
  PROVE  /\ InForce(m) => live'[m] = live[m] /\ m \notin linkDown'
         /\ NMRestarts /\ Profiled(m) => live'[m] = file[dev[m]].cfg /\ m \notin linkDown'
BY Typed DEF NMFails, NMRestarts, InForce

LEMMA UseCaseStepSteady ==
  ASSUME FullInv, plugs = 0, NEW id \in RowIds, UseCaseStep(id), UNCHANGED adapterVars
  PROVE  OnlyOwn(id) /\ SteadyAt(id)'
<1>1. /\ UNCHANGED <<snap, file, dev, live, linkDown, found>>
      /\ \A i \in RowIds \ {id} : pc'[i] = pc[i] /\ name'[i] = name[i]
      /\ pc'[id] \notin HasDevice \cup {"down", "rename"}
  <2> USE DEF HasDevice, Goto, adapterVars, nodeVars
  <2>1. CASE Acquire(id) \/ Skip(id) \/ CheckNeed(id)
    BY <2>1, Typed DEF FullInv, Acquire, Skip, CheckNeed
  <2>2. CASE ReuseName(id) \/ NextName(id)
    BY <2>2, Typed DEF FullInv, ReuseName, NextName
  <2>3. CASE MarkConfigured(id) \/ MarkFailed(id)
    BY <2>3, Typed DEF FullInv, MarkConfigured, MarkFailed
  <2> QED
    BY <2>1, <2>2, <2>3 DEF UseCaseStep
<1>2. OnlyOwn(id)
  BY <1>1 DEF OnlyOwn, InForce
<1>3. SteadyAt(id)'
  BY <1>1 DEF SteadyAt, FoundIsThere, NamedBeforeWrite, FileIsOwn, FileIsLive, HasDevice,
              HasWritten
<1> QED
  BY <1>2, <1>3

\* A worker that does not touch devices, files and links between two steps.
LEMMA MovesSteady ==
  ASSUME FullInv, NEW id \in RowIds, NEW next, Goto(id, next), UNCHANGED <<snap, name, dev>>,
         \A i \in RowIds \ {id} : found'[i] = found[i],
         \A s \in Slots : file'[s] \in {NoFile, file[s]},
         \A m \in MACs : InForce(m) => live'[m] = live[m] /\ m \notin linkDown'
  PROVE  /\ OnlyOwn(id)
         /\ next \notin HasDevice \cup {"down", "rename"} => SteadyAt(id)'
<1>1. /\ \A i \in RowIds \ {id} : pc'[i] = pc[i]
      /\ pc'[id] = next
  BY Typed DEF FullInv, Goto
<1>2. \A i \in RowIds : pc[i] \in HasWritten => name[i] \in Slots
  BY WorkerName DEF FullInv, HasDevice, HasWritten
<1>3. OnlyOwn(id)
  BY <1>1, <1>2 DEF OnlyOwn
<1>4. next \notin HasDevice \cup {"down", "rename"} => SteadyAt(id)'
  BY <1>1 DEF SteadyAt, FoundIsThere, NamedBeforeWrite, FileIsOwn, FileIsLive, HasDevice,
              HasWritten
<1> QED
  BY <1>3, <1>4

\* The steps that find, take down, rename and bring up the device.
LEMMA DeviceStepSteady ==
  ASSUME FullInv, plugs = 0, NEW id \in RowIds,
         FindDevice(id) \/ LinkDown(id) \/ Rename(id) \/ BringBack(id) \/ LinkUp(id)
  PROVE  OnlyOwn(id) /\ SteadyAt(id)'
<1> USE DEF Aside
<1>1. /\ SteadyAt(id) /\ IInv
      /\ pc \in [RowIds -> Pcs] /\ found \in [RowIds -> Slots \cup {Unnamed, NoSlot}]
  BY Typed DEF FullInv, ValidInv
<1>2. CASE FindDevice(id)
  <2>1. /\ UNCHANGED <<snap, name, file, dev, live, linkDown>>
        /\ \A i \in RowIds \ {id} : found'[i] = found[i]
        /\ \E next \in {"write", "down", "rollback"} : Goto(id, next)
    BY <1>1, <1>2 DEF FindDevice
  <2>2. OnlyOwn(id)
    BY <2>1, MovesSteady DEF InForce
  <2>3. SteadyAt(id)'
    BY <1>1, <1>2 DEF FindDevice, Goto, SteadyAt, FoundIsThere, NamedBeforeWrite,
                      FileIsOwn, FileIsLive, HasDevice, HasWritten
  <2> QED
    BY <2>2, <2>3
<1>3. CASE LinkDown(id)
  <2>1. Holders(id, found[id]) = {snap[id].mac}
    BY <1>3, HoldersAreOwn DEF LinkDown
  <2>2. /\ UNCHANGED <<snap, name, file, dev>>
        /\ \A i \in RowIds \ {id} : pc'[i] = pc[i] /\ found'[i] = found[i]
        /\ (pc'[id] = "rename" /\ found' = found) \/ pc'[id] = "rollback"
    BY <1>1, <1>3, <2>1 DEF LinkDown, Goto, Forget
  <2>3. \A m \in MACs \ {snap[id].mac} :
          live'[m] = live[m] /\ (m \in linkDown' => m \in linkDown)
    BY <1>3, <2>1 DEF LinkDown
  <2>4. OnlyOwn(id)
    BY <2>2, <2>3 DEF OnlyOwn, InForce
  <2>5. SteadyAt(id)'
    BY <1>1, <1>3, <2>2 DEF LinkDown, SteadyAt, FoundIsThere, NamedBeforeWrite, FileIsOwn,
                            FileIsLive, HasDevice, HasWritten
  <2> QED
    BY <2>4, <2>5
<1>4. CASE Rename(id)
  <2>1. Holders(id, found[id]) = {snap[id].mac} /\ snap[id].mac \in MACs
    BY <1>4, HoldersAreOwn, WorkerRow DEF Rename, FullInv
  <2>2. /\ UNCHANGED <<snap, name, file, live, linkDown>>
        /\ \A i \in RowIds \ {id} : pc'[i] = pc[i] /\ found'[i] = found[i]
        /\ \A m \in MACs \ {snap[id].mac} : dev'[m] = dev[m]
        /\ \/ pc'[id] = "up" /\ dev'[snap[id].mac] = name[id]
           \/ pc'[id] = "bringBack"
    BY <1>1, <1>4, <2>1 DEF Rename, Goto, Forget
  <2>3. OnlyOwn(id)
    BY <2>2 DEF OnlyOwn, InForce
  <2>4. SteadyAt(id)'
    BY <2>2 DEF SteadyAt, FoundIsThere, NamedBeforeWrite, FileIsOwn, FileIsLive,
                HasDevice, HasWritten
  <2> QED
    BY <2>3, <2>4
<1>5. CASE BringBack(id) \/ LinkUp(id)
  <2>1. /\ UNCHANGED <<snap, name, file, dev, live>>
        /\ linkDown' \subseteq linkDown
        /\ \A i \in RowIds \ {id} : found'[i] = found[i]
    BY <1>1, <1>5 DEF BringBack, LinkUp, Forget
  <2>2. \/ Goto(id, "rollback")
        \/ Goto(id, "write") /\ pc[id] = "up"
    BY <1>5 DEF BringBack, LinkUp
  <2>3. \A m \in MACs : InForce(m) => live'[m] = live[m] /\ m \notin linkDown'
    BY <2>1 DEF InForce
  <2>4. OnlyOwn(id) /\ (Goto(id, "rollback") => SteadyAt(id)')
    BY <2>1, <2>2, <2>3, MovesSteady DEF HasDevice
  <2>5. Goto(id, "write") /\ pc[id] = "up" => SteadyAt(id)'
    BY <1>1, <2>1 DEF Goto, SteadyAt, FoundIsThere, NamedBeforeWrite, FileIsOwn, FileIsLive,
                      HasDevice, HasWritten
  <2> QED
    BY <2>2, <2>4, <2>5
<1> QED
  BY <1>2, <1>3, <1>4, <1>5

\* The steps that write the file, look at it and restart NetworkManager.
LEMMA FileStepSteady ==
  ASSUME FullInv, plugs = 0, NEW id \in RowIds,
         \/ WriteStep(id) /\ UNCHANGED adapterVars
         \/ LookForFile(id, "written", "restart") \/ LookForFile(id, "hasFile", "mark")
         \/ RestartManager(id) \/ Validate(id)
         \/ RollbackRemove(id) \/ RollbackRestart(id)
  PROVE  OnlyOwn(id) /\ SteadyAt(id)'
<1> USE DEF Aside, adapterVars
<1>1. /\ SteadyAt(id) /\ IInv
      /\ pc \in [RowIds -> Pcs] /\ file \in [Slots -> Content \cup {NoFile, Truncated}]
  BY Typed DEF FullInv, ValidInv
<1>2. CASE WriteStep(id) /\ UNCHANGED adapterVars
  <2>1. /\ pc[id] \in {"write", "fill"}
        /\ UNCHANGED <<snap, name, dev, live, found, linkDown>>
        /\ \A i \in RowIds \ {id} : pc'[i] = pc[i]
        /\ \A s \in Slots \ {name[id]} : file'[s] = file[s]
        /\ \/ pc'[id] \in {"fill", "rollback"}
           \/ pc'[id] = "written" /\ file'[name[id]] = Prescribed(id)
    <3>1. CASE OpenFile(id, "write")
      <4>1. file' = [file EXCEPT ![name[id]] = Truncated] \/ UNCHANGED file
        BY <3>1 DEF OpenFile
      <4>2. pc' = [pc EXCEPT ![id] = "fill"] \/ pc' = [pc EXCEPT ![id] = "rollback"]
        BY <3>1 DEF OpenFile, Goto
      <4>3. pc[id] = "write" /\ UNCHANGED <<snap, name, dev, live, found, linkDown>>
        BY <1>2, <3>1 DEF OpenFile
      <4> QED
        BY <1>1, <4>1, <4>2, <4>3
    <3>2. CASE FillFile(id, "written")
      <4>1. name[id] \in Slots
        BY <1>1, <3>2, WorkerName DEF FillFile, HasDevice
      <4>2. \/ /\ pc' = [pc EXCEPT ![id] = "written"]
               /\ file' = [file EXCEPT ![name[id]] = Prescribed(id)]
            \/ pc' = [pc EXCEPT ![id] = "rollback"] /\ UNCHANGED file
        BY <3>2 DEF FillFile, Goto
      <4>3. pc[id] = "fill" /\ UNCHANGED <<snap, name, dev, live, found, linkDown>>
        BY <1>2, <3>2 DEF FillFile
      <4> QED
        BY <1>1, <4>1, <4>2, <4>3
    <3> QED
      BY <1>2, <3>1, <3>2 DEF WriteStep
  <2>2. \A i \in RowIds \ {id} : pc[i] \in HasDevice =>
          name[i] # name[id] /\ name[i] \in Slots
    BY <1>1, <2>1, OwnName, WorkerName DEF HasDevice
  <2>3. \A i \in RowIds \ {id} : pc[i] \in HasWritten => file'[name[i]] = file[name[i]]
    BY <2>1, <2>2 DEF HasWritten, HasDevice
  <2>4. OnlyOwn(id)
    BY <2>1, <2>3 DEF OnlyOwn, InForce
  <2>5. SteadyAt(id)'
    BY <1>1, <2>1 DEF SteadyAt, FoundIsThere, NamedBeforeWrite, FileIsOwn, FileIsLive,
                      HasDevice, HasWritten, Prescribed
  <2> QED
    BY <2>4, <2>5
<1>3. ASSUME NEW from, NEW next, LookForFile(id, from, next),
             <<from, next>> \in {<<"written", "restart">>, <<"hasFile", "mark">>}
      PROVE  OnlyOwn(id) /\ SteadyAt(id)'
  <2>1. /\ UNCHANGED <<snap, name, file, dev, live, found, linkDown>>
        /\ pc[id] = from
        /\ \/ Goto(id, next)
           \/ Goto(id, "rollback")
    BY <1>3 DEF LookForFile
  <2>2. OnlyOwn(id)
    BY <2>1, MovesSteady DEF InForce
  <2>3. SteadyAt(id)'
    BY <1>1, <1>3, <2>1 DEF Goto, SteadyAt, FoundIsThere, NamedBeforeWrite, FileIsOwn,
                            FileIsLive, HasDevice, HasWritten, Prescribed
  <2> QED
    BY <2>2, <2>3
<1>4. CASE RestartManager(id)
  <2>1. /\ UNCHANGED <<snap, name, file, dev, found>>
        /\ pc[id] = "restart"
        /\ NMRestarts \/ NMFails
        /\ \/ Goto(id, "validate") /\ NMRestarts
           \/ Goto(id, "rollback")
    BY <1>4 DEF RestartManager
  <2>2. OnlyOwn(id) /\ (Goto(id, "rollback") => SteadyAt(id)')
    BY <1>1, <2>1, RestartsKeep, MovesSteady DEF HasDevice
  <2>3. ASSUME Goto(id, "validate"), NMRestarts
        PROVE  SteadyAt(id)'
    <3>1. snap[id].mac \in MACs /\ name[id] \in Slots /\ dev[snap[id].mac] = name[id]
      BY <1>1, <2>1, WorkerRow, WorkerName DEF SteadyAt, NamedBeforeWrite, HasDevice
    <3>2. Prescribed(id) \in Content
      BY <1>1, <2>1, WorkerRow DEF Prescribed, Row, Content
    <3>3. file[name[id]] = Prescribed(id) =>
            live'[snap[id].mac] = snap[id].cfg /\ snap[id].mac \notin linkDown'
      <4> SUFFICES ASSUME file[name[id]] = Prescribed(id)
                   PROVE  live'[snap[id].mac] = snap[id].cfg /\ snap[id].mac \notin linkDown'
        OBVIOUS
      <4>1. Profiled(snap[id].mac)
        BY <3>1, <3>2 DEF Profiled, Wanted, Prescribed
      <4> QED
        BY <1>1, <2>3, <3>1, <4>1, RestartsKeep DEF Prescribed
    <3> QED
      BY <1>1, <2>1, <2>3, <3>3
         DEF Goto, SteadyAt, FoundIsThere, NamedBeforeWrite, FileIsOwn, FileIsLive,
             HasDevice, HasWritten, Prescribed
  <2> QED
    BY <2>1, <2>2, <2>3
<1>5. CASE Validate(id)
  <2>1. /\ UNCHANGED <<snap, name, file, dev, live, found, linkDown>>
        /\ pc[id] = "validate"
        /\ Goto(id, "hasFile") \/ Goto(id, "rollback")
    BY <1>5 DEF Validate
  <2>2. OnlyOwn(id)
    BY <2>1, MovesSteady DEF InForce
  <2>3. SteadyAt(id)'
    BY <1>1, <2>1 DEF Goto, SteadyAt, FoundIsThere, NamedBeforeWrite, FileIsOwn,
                      FileIsLive, HasDevice, HasWritten, Prescribed
  <2> QED
    BY <2>2, <2>3
<1>6. CASE RollbackRemove(id) \/ RollbackRestart(id)
  <2>1. /\ UNCHANGED <<snap, name, dev, found>>
        /\ \A s \in Slots : file'[s] \in {NoFile, file[s]}
        /\ NMRestarts \/ NMFails \/ UNCHANGED <<live, linkDown>>
        /\ \E next \in {"rollbackRestart", "markFailed"} : Goto(id, next)
    BY <1>1, <1>6 DEF RollbackRemove, RollbackRestart
  <2>2. \A m \in MACs : InForce(m) => live'[m] = live[m] /\ m \notin linkDown'
    BY <1>1, <2>1, RestartsKeep DEF InForce
  <2> QED
    BY <2>1, <2>2, MovesSteady DEF HasDevice
<1> QED
  BY <1>2, <1>3, <1>4, <1>5, <1>6

-----------------------------------------------------------------------------
LEMMA WorkerStepValid ==
  ASSUME FullInv, plugs = 0, NEW id \in RowIds, WorkerStep(id)
  PROVE  \A i \in RowIds : SteadyAt(i)'
<1>1. pc[id] # "none"
  BY AdapterStepStays
     DEF WorkerStep, Worker, UseCaseStep, Acquire, ReuseName, NextName, CheckNeed, Skip,
         MarkConfigured, MarkFailed, AdapterPcs
<1>2. OnlyOwn(id) /\ SteadyAt(id)'
  BY UseCaseStepSteady, DeviceStepSteady, FileStepSteady DEF WorkerStep, Worker, AdapterStep
<1> QED
  BY <1>1, <1>2, OthersSteady

\* Every other step finds no worker, makes none that has got to its adapter,
\* leaves all of it alone or moves a device.
LEMMA OtherStepValid ==
  ASSUME FullInv, plugs = 0, PollStep \/ ProcessStep \/ EnvironmentStep \/ UNCHANGED vars,
         plugs' = 0
  PROVE  \A i \in RowIds : SteadyAt(i)'
<1> USE DEF SteadyAt, FoundIsThere, NamedBeforeWrite, FileIsOwn, FileIsLive, HasDevice,
            HasWritten
<1>1. CASE \A i \in RowIds : pc'[i] \in {"none", "queued"}
  BY <1>1
<1>2. CASE UNCHANGED <<pc, snap, name, found, file, dev, live, linkDown>>
  BY <1>2 DEF FullInv, ValidInv, Prescribed
<1>3. CASE PollStep
  <2>1. CASE CleanupStep
    <3>1. UNCHANGED pc /\ phase # "configuring"
      BY <2>1 DEF CleanupStep, FindStep, FindOrphans, FindOrphansUnread, FindFails,
                  RemoveOrphan, DeleteDone, RestartForOrphan, Reapplied, workVars
    <3> QED
      BY <1>1, <3>1 DEF FullInv, IInv, BaseInv, SharedInv, WorkersOnlyConfigure
  <2>2. CASE StartAPoll \/ ConfigureDone
    BY <1>1, <2>2 DEF StartAPoll, StartPoll, ConfigureDone, NoWorkers
  <2>3. CASE PollFails /\ UNCHANGED adapterVars
    BY <1>2, <2>3 DEF PollFails, workVars, adapterVars
  <2> QED
    BY <1>3, <2>1, <2>2, <2>3 DEF PollStep, BetweenStep
<1>4. CASE ProcessStep
  <2>1. CASE Signal /\ UNCHANGED adapterVars
    BY <1>2, <2>1 DEF Signal, workVars, adapterVars
  <2>2. CASE Restart /\ UNCHANGED adapterVars
    BY <1>2, <2>2 DEF Restart, nodeVars, adapterVars
  <2>3. CASE Exit \/ Crash
    BY <1>1, <2>3 DEF Exit, Crash, Gone, NoWorkers
  <2> QED
    BY <1>4, <2>1, <2>2, <2>3 DEF ProcessStep
<1>5. CASE EnvironmentStep
  <2>1. CASE Editing /\ UNCHANGED linkDown
    BY <1>2, <1>5, <2>1
       DEF EnvironmentStep, Editing, InsertRow, EditRow, DeleteRow, workVars
  <2>2. ~(\E m \in MACs, n \in Slots \cup {Unnamed} : Attach(m, n))
    BY DEF Attach
  <2>3. ~(\E m \in MACs : DetachLink(m))
    BY DEF DetachLink, Detach
  <2> QED
    BY <1>5, <2>1, <2>2, <2>3 DEF EnvironmentStep, Environment
<1>6. CASE UNCHANGED vars
  BY <1>2, <1>6 DEF vars, nodeVars, workVars, adapterVars
<1> QED
  BY <1>3, <1>4, <1>5, <1>6

LEMMA PlugsOnlyGrow ==
  ASSUME IInv, [Next]_vars, plugs' = 0
  PROVE  plugs = 0
<1>1. CASE UNCHANGED plugs
  BY <1>1
<1>2. CASE PollStep \/ ProcessStep
  BY <1>1, <1>2
     DEF PollStep, BetweenStep, StartAPoll, StartPoll, ConfigureDone, PollFails,
         CleanupStep, FindStep, FindOrphans, FindOrphansUnread, FindFails, RemoveOrphan,
         DeleteDone, RestartForOrphan, Reapplied, ProcessStep, Signal, Exit, Crash, Gone,
         Restart, nodeVars
<1>3. ASSUME NEW id \in RowIds, WorkerStep(id)
      PROVE  UNCHANGED plugs
  BY <1>3, AdapterStepAside
     DEF WorkerStep, Worker, UseCaseStep, Acquire, ReuseName, NextName, CheckNeed, Skip,
         MarkConfigured, MarkFailed, nodeVars, Aside
<1>4. CASE EnvironmentStep
  <2>1. CASE Editing
    BY <1>1, <2>1 DEF Editing, InsertRow, EditRow, DeleteRow
  <2>2. ASSUME plugs' = plugs + 1 PROVE FALSE
    BY <2>2, Typed
  <2> QED
    BY <1>4, <2>1, <2>2 DEF EnvironmentStep, Environment, Attach, DetachLink, Detach
<1>5. CASE UNCHANGED vars
  BY <1>5 DEF vars, nodeVars
<1> QED
  BY <1>1, <1>2, <1>3, <1>4, <1>5 DEF Next

LEMMA InitFullInv == Init => FullInv
<1> SUFFICES ASSUME Init PROVE FullInv
  OBVIOUS
<1>1. IInv
  BY InitIInv
<1>2. \A i \in RowIds : pc[i] = "none" /\ snap[i] = NoRow
  BY DEF Init, WorkInit, NoWorkers
<1>3. Apart
  BY <1>2, NodeAssumption
     DEF Init, NodeInit, Apart, RowsApart, SnapsApart, NamesApart
<1>4. \A i \in RowIds : SteadyAt(i)
  BY <1>2 DEF SteadyAt, FoundIsThere, NamedBeforeWrite, FileIsOwn, FileIsLive, HasDevice,
              HasWritten
<1> QED
  BY <1>1, <1>3, <1>4 DEF FullInv, ValidInv

LEMMA NextFullInv == FullInv /\ [Next]_vars => FullInv'
<1> SUFFICES ASSUME FullInv, [Next]_vars PROVE FullInv'
  OBVIOUS
<1>1. IInv' /\ Apart'
  BY NextIInv, RowsStayApart, SnapsStayApart, NamesStayApart DEF FullInv, ValidInv, Apart
<1>2. plugs' = 0 => \A i \in RowIds : SteadyAt(i)'
  BY PlugsOnlyGrow, WorkerStepValid, OtherStepValid DEF Next, FullInv
<1> QED
  BY <1>1, <1>2 DEF FullInv, ValidInv

\* Only the look at the file leads from "hasFile" to "mark".
LEMMA MarkedAfterLook ==
  ASSUME FullInv, [Next]_vars, NEW id \in RowIds, pc[id] = "hasFile", pc'[id] = "mark"
  PROVE  FileExists(id)
<1> USE DEF Pcs
<1>1. pc \in [RowIds -> Pcs]
  BY Typed DEF FullInv
<1>2. ~UNCHANGED pc /\ pc'[id] \notin {"none", "queued"}
  OBVIOUS
<1>3. ~(PollStep \/ ProcessStep \/ EnvironmentStep \/ UNCHANGED vars)
  BY <1>2
     DEF PollStep, BetweenStep, StartAPoll, StartPoll, ConfigureDone, PollFails,
         CleanupStep, FindStep, FindOrphans, FindOrphansUnread, FindFails, RemoveOrphan,
         DeleteDone, RestartForOrphan, Reapplied, ProcessStep, Signal, Exit, Crash, Gone,
         Restart, NoWorkers, EnvironmentStep, vars, workVars
<1>4. PICK i \in RowIds : WorkerStep(i)
  BY <1>3 DEF Next
<1>5. i = id
  <2>1. \A j \in RowIds \ {i} : pc'[j] = pc[j]
    <3>1. CASE UseCaseStep(i)
      <4>1. \E next : Goto(i, next)
        BY <3>1 DEF UseCaseStep, Acquire, ReuseName, NextName, CheckNeed, Skip,
                    MarkConfigured, MarkFailed
      <4> QED
        BY <1>1, <4>1 DEF Goto
    <3>2. CASE AdapterStep(i)
      BY <1>1, <3>2, AdapterStepStays DEF Goto
    <3> QED
      BY <1>4, <3>1, <3>2 DEF WorkerStep, Worker
  <2> QED
    BY <2>1
<1>6. ~UseCaseStep(id)
  BY DEF UseCaseStep, Acquire, ReuseName, NextName, CheckNeed, Skip, MarkConfigured,
         MarkFailed
<1>7. LookForFile(id, "hasFile", "mark")
  BY <1>4, <1>5, <1>6
     DEF WorkerStep, Worker, AdapterStep, FindDevice, LinkDown, Rename, BringBack, LinkUp,
         WriteStep, OpenFile, FillFile, LookForFile, RestartManager, Validate,
         RollbackRemove, RollbackRestart
<1> QED
  BY <1>1, <1>7 DEF LookForFile, Goto

\* A row that is marked configured has its device under the name chosen for it,
\* its link up, its file in place and its settings in force, for any number of
\* workers, rows and names and whatever fails, until a device comes or goes
\* (rhel_adapter.go:86-113,131-139,158-172; configure_network.go:173-186).
THEOREM ValidatedIsTrue == Spec => ValidatedIsReal
<1>1. Init => FullInv
  BY InitFullInv
<1>2. FullInv /\ [Next]_vars => FullInv'
  BY NextFullInv
<1>3. FullInv /\ [Next]_vars =>
        [\A id \in RowIds :
           plugs = 0 /\ pc[id] = "hasFile" /\ pc'[id] = "mark" =>
             ValidatedMeans(id) /\ snap[id].mac \notin linkDown]_vars
  <2> SUFFICES ASSUME FullInv, [Next]_vars, NEW id \in RowIds,
                      plugs = 0, pc[id] = "hasFile", pc'[id] = "mark"
               PROVE  ValidatedMeans(id) /\ snap[id].mac \notin linkDown
    OBVIOUS
  <2>1. SteadyAt(id)
    BY DEF FullInv, ValidInv
  <2>2. file[name[id]] = Prescribed(id)
    BY <2>1, MarkedAfterLook DEF SteadyAt, FileIsOwn, HasWritten, FileExists
  <2> QED
    BY <2>1, <2>2
       DEF SteadyAt, NamedBeforeWrite, FileIsLive, HasDevice, ValidatedMeans
<1> QED
  BY <1>1, <1>2, <1>3, PTL DEF Spec, ValidatedIsReal

-----------------------------------------------------------------------------
\* Why no MAC gets a second file while nothing fails: a file is written only
\* when the device of its MAC has the name, and only a device without a name of
\* the agent's is given one.

FilesNamed == \A s \in Slots : file[s] \in Content => dev[file[s].mac] = s

NamedOnce(id) ==
  /\ pc[id] = "next" => dev[snap[id].mac] \notin Slots
  /\ pc[id] \in {"check", "configure"} /\ dev[snap[id].mac] \in Slots =>
       dev[snap[id].mac] = name[id]
  /\ pc[id] \in {"down", "rename"} => found[id] \notin Slots

SingleInv == faults = 0 /\ plugs = 0 => FilesNamed /\ \A id \in RowIds : NamedOnce(id)

\* The other workers have other devices.
LEMMA OthersNamedOnce ==
  ASSUME FullInv, NEW id \in RowIds, pc[id] # "none", OnlyOwn(id),
         NEW i \in RowIds \ {id}, NamedOnce(i)
  PROVE  NamedOnce(i)'
<1>1. CASE pc[i] = "none"
  BY <1>1 DEF OnlyOwn, NamedOnce
<1>2. CASE pc[i] # "none"
  <2>1. snap[i].mac \in MACs /\ snap[i].mac # snap[id].mac
    BY <1>2, WorkerRow, MacsApart DEF FullInv
  <2> QED
    BY <2>1 DEF OnlyOwn, NamedOnce
<1> QED
  BY <1>1, <1>2

LEMMA UseCaseNamedOnce ==
  ASSUME FullInv, faults' = 0, NEW id \in RowIds, UseCaseStep(id), NamedOnce(id)
  PROVE  NamedOnce(id)' /\ UNCHANGED <<file, dev>>
<1> USE DEF NamedOnce, Goto, nodeVars
<1>1. /\ pc \in [RowIds -> Pcs] /\ name \in [RowIds -> Slots \cup {NoSlot}] /\ faults \in Nat
  BY Typed, NodeAssumption DEF FullInv, IInv, BaseInv, SharedInv, SharedTypeOK, NodeTypeOK
<1>2. CASE Acquire(id) \/ Skip(id) \/ MarkConfigured(id) \/ MarkFailed(id)
  BY <1>1, <1>2 DEF Acquire, Skip, MarkConfigured, MarkFailed
<1>3. CASE ReuseName(id)
  <2>1. ~Faulty
    BY <1>1 DEF Faulty
  <2> QED
    BY <1>1, <1>3, <2>1 DEF ReuseName, Named
<1>4. CASE NextName(id)
  BY <1>1, <1>4 DEF NextName
<1>5. CASE CheckNeed(id)
  BY <1>1, <1>5 DEF CheckNeed
<1> QED
  BY <1>2, <1>3, <1>4, <1>5 DEF UseCaseStep

LEMMA DeviceNamedOnce ==
  ASSUME FullInv, plugs = 0, NEW id \in RowIds, NamedOnce(id), FilesNamed,
         FindDevice(id) \/ LinkDown(id) \/ Rename(id) \/ BringBack(id) \/ LinkUp(id)
  PROVE  NamedOnce(id)' /\ FilesNamed'
<1>1. /\ pc \in [RowIds -> Pcs] /\ found \in [RowIds -> Slots \cup {Unnamed, NoSlot}]
      /\ UNCHANGED <<file, snap, name>>
  BY Typed DEF FullInv, FindDevice, LinkDown, Rename, BringBack, LinkUp, Aside
<1>2. NamedOnce(id)'
  BY <1>1 DEF FindDevice, LinkDown, Rename, BringBack, LinkUp, Goto, NamedOnce, Aside, Forget
<1>3. CASE UNCHANGED dev
  BY <1>1, <1>2, <1>3 DEF FilesNamed
<1>4. CASE Rename(id)
  <2>1. Holders(id, found[id]) = {snap[id].mac} /\ snap[id].mac \in MACs
    BY <1>4, HoldersAreOwn, WorkerRow DEF Rename, FullInv
  <2>2. dev[snap[id].mac] \notin Slots
    BY <1>4, <2>1 DEF Rename, NamedOnce, Holders
  <2>3. \A m \in MACs \ {snap[id].mac} : dev'[m] = dev[m]
    BY <1>4, <2>1 DEF Rename
  <2>4. \A s \in Slots : file[s] \in Content =>
          file[s].mac \in MACs /\ file[s].mac # snap[id].mac
    BY <2>2 DEF FilesNamed, Content
  <2> QED
    BY <1>1, <1>2, <2>3, <2>4 DEF FilesNamed
<1> QED
  BY <1>3, <1>4 DEF FindDevice, LinkDown, BringBack, LinkUp

LEMMA FileNamedOnce ==
  ASSUME FullInv, plugs = 0, NEW id \in RowIds, FilesNamed,
         \/ WriteStep(id) /\ UNCHANGED adapterVars
         \/ LookForFile(id, "written", "restart") \/ LookForFile(id, "hasFile", "mark")
         \/ RestartManager(id) \/ Validate(id)
         \/ RollbackRemove(id) \/ RollbackRestart(id)
  PROVE  NamedOnce(id)' /\ FilesNamed'
<1>1. /\ pc \in [RowIds -> Pcs] /\ file \in [Slots -> Content \cup {NoFile, Truncated}]
      /\ UNCHANGED dev /\ SteadyAt(id)
  BY Typed
     DEF FullInv, ValidInv, WriteStep, OpenFile, FillFile, LookForFile, RestartManager,
         Validate, RollbackRemove, RollbackRestart, Aside
<1>2. pc'[id] \notin {"next", "check", "configure", "down", "rename"}
  BY <1>1 DEF WriteStep, OpenFile, FillFile, LookForFile, RestartManager, Validate,
              RollbackRemove, RollbackRestart, Goto
<1>3. NamedOnce(id)'
  BY <1>2 DEF NamedOnce
<1>4. CASE \A s \in Slots : file'[s] \in Content => file'[s] = file[s]
  BY <1>1, <1>3, <1>4 DEF FilesNamed
<1>5. CASE FillFile(id, "written") /\ file' = [file EXCEPT ![name[id]] = Prescribed(id)]
  <2>1. dev[snap[id].mac] = name[id] /\ name[id] \in Slots
    BY <1>1, <1>5, WorkerName DEF FullInv, FillFile, SteadyAt, NamedBeforeWrite, HasDevice
  <2>2. Prescribed(id).mac = snap[id].mac
    BY DEF Prescribed
  <2> QED
    BY <1>1, <1>3, <1>5, <2>1, <2>2 DEF FilesNamed
<1>6. \/ UNCHANGED file
      \/ file' = [file EXCEPT ![name[id]] = Truncated]
      \/ file' = [file EXCEPT ![name[id]] = NoFile]
      \/ FillFile(id, "written") /\ file' = [file EXCEPT ![name[id]] = Prescribed(id)]
  BY DEF WriteStep, OpenFile, FillFile, LookForFile, RestartManager, Validate,
         RollbackRemove, RollbackRestart, Aside
<1> QED
  BY <1>1, <1>4, <1>5, <1>6, MarkerAssumption

LEMMA FaultsOnlyGrow ==
  ASSUME IInv, [Next]_vars, faults' = 0
  PROVE  faults = 0
<1>1. NodeTypeOK
  BY DEF IInv, BaseInv, SharedInv, SharedTypeOK
<1>2. CASE UNCHANGED faults
  BY <1>2
<1>3. CASE Sound \/ Faulty \/ ContextHolds \/ ContextFails
  BY <1>1, <1>3, FaultsGrow
<1>4. ASSUME NEW id \in RowIds, UseCaseStep(id)
      PROVE  faults = 0
  BY <1>2, <1>3, <1>4
     DEF UseCaseStep, Acquire, ReuseName, NextName, CheckNeed, Skip, MarkConfigured,
         MarkFailed, Sound, nodeVars
<1>5. ASSUME NEW id \in RowIds, AdapterStep(id)
      PROVE  faults = 0
  BY <1>3, <1>5
     DEF AdapterStep, FindDevice, LinkDown, Rename, BringBack, LinkUp, WriteStep, OpenFile,
         FillFile, LookForFile, RestartManager, Validate, RollbackRemove, RollbackRestart
<1>6. CASE PollStep
  BY <1>2, <1>3, <1>6
     DEF PollStep, BetweenStep, StartAPoll, StartPoll, Reads, ConfigureDone, PollFails,
         CleanupStep, FindStep, FindOrphans, FindOrphansUnread, FindFails, RemoveOrphan,
         DeleteDone, RestartForOrphan, nodeVars
<1>7. CASE ProcessStep
  BY <1>2, <1>7 DEF ProcessStep, Signal, Exit, Crash, Gone, Restart, nodeVars
<1>8. CASE EnvironmentStep
  BY <1>2, <1>8
     DEF EnvironmentStep, Environment, Editing, InsertRow, EditRow, DeleteRow, Attach,
         DetachLink, Detach
<1>9. CASE UNCHANGED vars
  BY <1>2, <1>9 DEF vars, nodeVars
<1> QED
  BY <1>4, <1>5, <1>6, <1>7, <1>8, <1>9 DEF Next, WorkerStep, Worker

\* Steps of no worker: a device keeps its name, and files only go.
LEMMA OtherNamedOnce ==
  ASSUME FullInv, plugs = 0, plugs' = 0, FilesNamed, \A i \in RowIds : NamedOnce(i),
         PollStep \/ ProcessStep \/ EnvironmentStep \/ UNCHANGED vars
  PROVE  FilesNamed' /\ \A i \in RowIds : NamedOnce(i)'
<1>1. UNCHANGED dev /\ \A s \in Slots : file'[s] \in Content => file'[s] = file[s]
  <2>1. CASE PollStep /\ UNCHANGED file
    BY <2>1 DEF PollStep, BetweenStep, StartAPoll, StartPoll, ConfigureDone, PollFails,
                CleanupStep, FindStep, FindOrphans, FindOrphansUnread, FindFails,
                RemoveOrphan, DeleteDone, RestartForOrphan, nodeVars
  <2>2. CASE RemoveOrphan(FALSE)
    BY <2>2, Typed, MarkerAssumption DEF FullInv, RemoveOrphan
  <2>3. CASE ProcessStep
    BY <2>3 DEF ProcessStep, Signal, Exit, Crash, Gone, Restart, nodeVars
  <2>4. CASE EnvironmentStep
    <3>1. plugs' # plugs + 1
      BY Typed
    <3> QED
      BY <2>4, <3>1
         DEF EnvironmentStep, Environment, Editing, InsertRow, EditRow, DeleteRow, Attach,
             DetachLink, Detach
  <2>5. CASE UNCHANGED vars
    BY <2>5 DEF vars, nodeVars
  <2>6. PollStep => UNCHANGED file \/ RemoveOrphan(FALSE)
    BY DEF PollStep, BetweenStep, StartAPoll, StartPoll, ConfigureDone, PollFails,
           CleanupStep, FindStep, FindOrphans, FindOrphansUnread, FindFails,
           DeleteDone, RestartForOrphan, Reapplied, nodeVars
  <2> QED
    BY <2>1, <2>2, <2>3, <2>4, <2>5, <2>6
<1>2. FilesNamed'
  BY <1>1 DEF FilesNamed
<1>3. CASE \A i \in RowIds : pc'[i] \in {"none", "queued"}
  BY <1>2, <1>3 DEF NamedOnce
<1>4. CASE UNCHANGED <<pc, snap, name, found>>
  BY <1>1, <1>2, <1>4 DEF NamedOnce
<1>5. CASE StartAPoll \/ ConfigureDone \/ Exit \/ Crash
  <2>1. \A i \in RowIds : pc'[i] \in {"none", "queued"}
    BY <1>5 DEF StartAPoll, StartPoll, ConfigureDone, Exit, Crash, Gone, NoWorkers
  <2> QED
    BY <1>3, <2>1
<1>6. CASE CleanupStep
  BY <1>4, <1>6
     DEF CleanupStep, RestartForOrphan, Reapplied, FindStep, FindOrphans,
         FindOrphansUnread, FindFails, RemoveOrphan, DeleteDone, workVars, adapterVars
<1>7. CASE (PollFails \/ Signal \/ Restart) /\ UNCHANGED adapterVars
  BY <1>4, <1>7 DEF PollFails, Signal, Restart, workVars, adapterVars
<1>8. CASE EnvironmentStep \/ UNCHANGED vars
  BY <1>4, <1>8 DEF EnvironmentStep, vars, workVars, adapterVars
<1> QED
  BY <1>5, <1>6, <1>7, <1>8 DEF PollStep, BetweenStep, ProcessStep

LEMMA NextSingle == FullInv /\ SingleInv /\ [Next]_vars => SingleInv'
<1> SUFFICES ASSUME FullInv, SingleInv, [Next]_vars, faults' = 0, plugs' = 0
             PROVE  FilesNamed' /\ \A i \in RowIds : NamedOnce(i)'
  BY DEF SingleInv
<1>1. faults = 0 /\ plugs = 0 /\ FilesNamed /\ \A i \in RowIds : NamedOnce(i)
  BY FaultsOnlyGrow, PlugsOnlyGrow DEF FullInv, SingleInv
<1>2. ASSUME NEW id \in RowIds, WorkerStep(id)
      PROVE  FilesNamed' /\ \A i \in RowIds : NamedOnce(i)'
  <2>1. pc[id] # "none"
    BY <1>2, AdapterStepStays
       DEF WorkerStep, Worker, UseCaseStep, Acquire, ReuseName, NextName, CheckNeed, Skip,
           MarkConfigured, MarkFailed, AdapterPcs
  <2>2. OnlyOwn(id)
    BY <1>1, <1>2, UseCaseStepSteady, DeviceStepSteady, FileStepSteady
       DEF WorkerStep, Worker, AdapterStep
  <2>3. \A i \in RowIds \ {id} : NamedOnce(i)'
    BY <1>1, <2>1, <2>2, OthersNamedOnce
  <2>4. CASE UseCaseStep(id)
    BY <1>1, <2>3, <2>4, UseCaseNamedOnce DEF FilesNamed
  <2>5. CASE AdapterStep(id)
    BY <1>1, <2>3, <2>5, DeviceNamedOnce, FileNamedOnce DEF AdapterStep
  <2> QED
    BY <1>2, <2>4, <2>5 DEF WorkerStep, Worker
<1> QED
  BY <1>1, <1>2, OtherNamedOnce DEF Next

LEMMA InitSingle == Init => SingleInv
BY MarkerAssumption DEF Init, NodeInit, WorkInit, NoWorkers, SingleInv, FilesNamed, NamedOnce

\* No MAC gets the files of two names until a lookup fails or a device comes or
\* goes, for any number of workers: what fails on a netplan node for two of them
\* is kept here by the kernel, which gives no name twice
\* (rhel_adapter.go:86-128; interface_naming.go:54-72).
THEOREM FilesAreSingle == Spec => []OneFilePerMac
<1>1. Init => FullInv /\ SingleInv
  BY InitFullInv, InitSingle
<1>2. FullInv /\ SingleInv /\ [Next]_vars => FullInv' /\ SingleInv'
  BY NextFullInv, NextSingle
<1>3. SingleInv => OneFilePerMac
  BY DEF SingleInv, FilesNamed, OneFilePerMac, OneFileEach
<1> QED
  BY <1>1, <1>2, <1>3, PTL DEF Spec
=============================================================================
