-------------------------- MODULE NetplanSyncProofs --------------------------
(***************************************************************************)
(* The agent on a netplan node, configuring one row at a time, against what *)
(* it promises the controller: it leaves a served row alone                 *)
(* (ServedUndisturbed), and every step is one that NodeSync allows.         *)
(***************************************************************************)
EXTENDS NetplanAgentProofs

-----------------------------------------------------------------------------
\* Why a poll leaves a served row alone: a row is configured only by a worker that
\* has its snapshot (History), and a worker goes to work on a row only if the row
\* was pending or its file another one than prescribed, and gives up only on a
\* device or a row there is nothing to do for (Need).
MacsApart(table) ==
  \A i, j \in RowIds :
    i # j /\ table[i] # NoRow /\ table[j] # NoRow => table[i].mac # table[j].mac

\* Where a worker has not decided yet, or has not touched its file.
UnmarkedPcs == {"queued", "reuse", "next", "check", "configure"}

History(id) ==
  /\ id >= nextId => rows[id] = NoRow /\ snap[id] = NoRow
  /\ rows[id] # NoRow /\ snap[id] # NoRow => snap[id].mac = rows[id].mac
  /\ faults = 0 /\ phase = "configuring" /\ rows[id] # NoRow /\ snap[id] = NoRow =>
       rows[id].status = "pending"
  /\ faults = 0 /\ phase = "deleting" /\ rows[id] # NoRow /\ rows[id].mac \notin listed =>
       rows[id].status = "pending"
  /\ pc[id] \in UnmarkedPcs /\ rows[id] # NoRow /\ snap[id].status = "pending" =>
       rows[id].status = "pending"

\* No file is for a MAC that Validate refuses.
GoodFiles ==
  /\ \A s \in Slots : file[s] \in Content => file[s].mac \notin BadMACs
  /\ \A id \in RowIds : pc[id] \in {"configure", "fill"} => snap[id].mac \notin BadMACs

HistoryInv ==
  /\ MacsApart(rows) /\ MacsApart(snap) /\ GoodFiles
  /\ \A id \in RowIds : History(id)

Hopeless(id) ==
  \/ rows[id] = NoRow
  \/ snap[id].mac \in BadMACs
  \/ dev[snap[id].mac] = Absent

Need(id) ==
  /\ pc[id] = "configure" /\ snap[id].status # "pending" => file[name[id]] # Prescribed(id)
  /\ pc[id] = "validate" => InUse(name[id]) \/ dev[snap[id].mac] = Absent
  /\ pc[id] \in {"rollback", "rollbackApply"} => dev[snap[id].mac] = Absent
  /\ pc[id] = "markFailed" => Hopeless(id)
  /\ pc[id] \notin {"dropTried", "undo", "undoApply"}

NeedInv == faults = 0 /\ ~cancelled => \A id \in RowIds : Need(id)

-----------------------------------------------------------------------------
\* No step of the system takes a fault back.
LEMMA FaultsStay ==
  ASSUME IInv, Next, faults' = 0
  PROVE  faults = 0
<1>1. NodeTypeOK
  BY DEF IInv, SharedInv, SharedTypeOK
<1>2. ASSUME NEW id \in RowIds, WorkerStep(id) PROVE faults = 0
  <2>1. CASE UseCaseStep(id)
    BY <1>1, <2>1, FaultsGrow
       DEF UseCaseStep, Acquire, ReuseName, NextName, CheckNeed, Skip, MarkConfigured,
           MarkFailed, nodeVars, Sound
  <2>2. CASE AdapterStep(id)
    BY <1>1, <2>2, FaultsGrow
       DEF AdapterStep, OpenFile, FillFile, TryNetplan, DropTried, ApplyNetplan,
           RollbackRemove, RollbackApply, Validate
  <2> QED
    BY <1>2, <2>1, <2>2 DEF WorkerStep, Worker
<1>3. CASE PollStep
  <2>1. CASE StartAPoll \/ PollFails \/ ConfigureDone
    BY <1>1, <2>1, FaultsGrow
       DEF StartAPoll, StartPoll, Reads, PollFails, ConfigureDone, nodeVars
  <2>2. CASE CleanupStep
    BY <1>1, <2>2, FaultsGrow
       DEF CleanupStep, FindStep, FindOrphans, FindOrphansUnread, FindFails, Reads,
           RemoveOrphan, ReapplyNetplan, DeleteDone, nodeVars
  <2> QED
    BY <1>3, <2>1, <2>2 DEF PollStep
<1>4. CASE ProcessStep \/ EnvironmentStep
  BY <1>4 DEF ProcessStep, Signal, Exit, Crash, Gone, Restart, nodeVars, EnvironmentStep,
              Environment, Editing, InsertRow, EditRow, DeleteRow, Attach, Detach
<1> QED
  BY <1>2, <1>3, <1>4 DEF Next, AgentStep

\* Nothing happens to rows and workers, and no file is written.
LEMMA QuietHistory ==
  ASSUME HistoryInv, faults' = 0 => faults = 0, UNCHANGED <<rows, nextId, snap, pc>>,
         \/ UNCHANGED <<phase, listed>>
         \/ phase' \notin {"configuring", "deleting"},
         \A s \in Slots : file'[s] \in Content => file'[s] = file[s]
  PROVE  HistoryInv'
<1>1. MacsApart(rows)' /\ MacsApart(snap)'
  BY DEF HistoryInv, MacsApart
<1>2. GoodFiles'
  BY DEF HistoryInv, GoodFiles
<1>3. \A id \in RowIds : History(id)'
  BY DEF HistoryInv, History
<1> QED
  BY <1>1, <1>2, <1>3 DEF HistoryInv

\* The goroutines end.
LEMMA GoneHistory ==
  ASSUME HistoryInv, NoWorkers(pc', snap', name'), UNCHANGED <<rows, nextId, file>>,
         phase' \notin {"configuring", "deleting"}
  PROVE  HistoryInv'
<1>1. \A id \in RowIds : pc'[id] = "none" /\ snap'[id] = NoRow
  BY DEF NoWorkers
<1>2. MacsApart(rows)' /\ MacsApart(snap)'
  BY <1>1 DEF HistoryInv, MacsApart
<1>3. GoodFiles'
  BY <1>1 DEF HistoryInv, GoodFiles
<1>4. \A id \in RowIds : History(id)'
  BY <1>1 DEF HistoryInv, History, UnmarkedPcs
<1> QED
  BY <1>2, <1>3, <1>4 DEF HistoryInv

\* A poll begins with the rows of the table, but one that does not scan.
LEMMA StartPollHistory ==
  ASSUME NodeTypeOK, HistoryInv, NEW ids \in SUBSET RowIds, StartPoll(ids)
  PROVE  HistoryInv'
<1>1. /\ UNCHANGED <<rows, nextId, file>> /\ phase' = "configuring"
      /\ \A id \in RowIds :
           \/ snap'[id] = rows[id] /\ pc'[id] \in {"queued", "none"}
           \/ snap'[id] = NoRow /\ pc'[id] = "none" /\ faults' # 0
  BY NodeAssumption DEF StartPoll, Reads, Faulty, Active, NodeTypeOK
<1>2. MacsApart(rows)' /\ MacsApart(snap)'
  BY <1>1 DEF HistoryInv, MacsApart
<1>3. GoodFiles'
  BY <1>1 DEF HistoryInv, GoodFiles
<1>4. ASSUME NEW id \in RowIds PROVE History(id)'
  <2>1. id >= nextId => rows[id] = NoRow
    BY DEF HistoryInv, History
  <2>2. CASE snap'[id] = rows[id] /\ pc'[id] \in {"queued", "none"}
    BY <1>1, <2>1, <2>2 DEF History
  <2>3. CASE snap'[id] = NoRow /\ pc'[id] = "none" /\ faults' # 0
    BY <1>1, <2>1, <2>3 DEF History, UnmarkedPcs
  <2> QED
    BY <1>1, <2>2, <2>3
<1> QED
  BY <1>2, <1>3, <1>4 DEF HistoryInv

LEMMA FindStepHistory ==
  ASSUME HistoryInv, faults' = 0 => faults = 0, FindStep
  PROVE  HistoryInv'
<1>1. UNCHANGED <<rows, nextId, file, pc, snap>>
  BY DEF FindStep, FindOrphans, FindOrphansUnread, FindFails
<1>2. CASE FindFails
  BY <1>1, <1>2, QuietHistory DEF FindFails
<1>3. CASE ~FindFails
  <2>1. phase' = "deleting" /\ listed' = MacsOf(Active)
    BY <1>3 DEF FindStep, FindOrphans, FindOrphansUnread
  <2>2. MacsApart(rows)' /\ MacsApart(snap)' /\ GoodFiles'
    BY <1>1 DEF HistoryInv, MacsApart, GoodFiles
  <2>3. \A id \in RowIds : rows[id] # NoRow => rows[id].mac \in listed'
    BY <2>1 DEF MacsOf, Active
  <2>4. \A id \in RowIds : History(id)'
    BY <1>1, <2>1, <2>3 DEF HistoryInv, History
  <2> QED
    BY <2>2, <2>4 DEF HistoryInv
<1> QED
  BY <1>2, <1>3

\* The controller: a new row is pending and has a new id and a MAC of its own, and
\* an edit keeps the MAC and makes no row configured.
LEMMA EditingHistory ==
  ASSUME IInv, HistoryInv, faults' = 0 => faults = 0, Editing,
         UNCHANGED <<workVars, deleteVars>>
  PROVE  HistoryInv'
<1>0. /\ rows \in [RowIds -> Row \cup {NoRow}] /\ nextId \in Nat
  BY NodeAssumption DEF IInv, SharedInv, SharedTypeOK, NodeTypeOK
<1>1. UNCHANGED <<file, snap, pc, phase, listed>>
  BY DEF workVars, deleteVars, Editing, InsertRow, EditRow, DeleteRow
<1>2. MacsApart(snap)' /\ GoodFiles'
  BY <1>1 DEF HistoryInv, MacsApart, GoodFiles
<1>3. ASSUME NEW m \in MACs, NEW c \in Cfgs, InsertRow(m, c) PROVE HistoryInv'
  <2>1. /\ nextId \in RowIds /\ nextId' = nextId + 1
        /\ rows'[nextId] = [mac |-> m, cfg |-> c, status |-> "pending"]
        /\ \A id \in RowIds \ {nextId} : rows'[id] = rows[id]
    BY <1>0, <1>3, NodeAssumption
       DEF InsertRow, IInv, SharedInv, SharedTypeOK, NodeTypeOK, RowIds
  <2>2. \A id \in RowIds : rows[id] # NoRow => rows[id].mac # m
    BY <1>3 DEF InsertRow, MacsOf, Active
  <2>3. rows'[nextId].mac = m /\ rows'[nextId].status = "pending" /\ snap[nextId] = NoRow
    BY <2>1 DEF HistoryInv, History, RowIds
  <2>4. MacsApart(rows)'
    BY <2>1, <2>2, <2>3 DEF HistoryInv, MacsApart
  <2>5. \A id \in RowIds : id >= nextId' => id >= nextId /\ id # nextId
    BY <1>0, <2>1 DEF RowIds
  <2>6. \A id \in RowIds \ {nextId} : History(id)'
    BY <1>1, <2>1, <2>5 DEF HistoryInv, History
  <2>7. ~(nextId >= nextId')
    BY <1>0, <2>1
  <2>8. ASSUME NEW id \in RowIds, id = nextId PROVE History(id)'
    BY <1>1, <2>3, <2>7, <2>8 DEF History
  <2> QED
    BY <1>2, <2>4, <2>6, <2>8 DEF HistoryInv
<1>4. ASSUME NEW id \in RowIds, NEW c \in Cfgs, NEW st \in {"pending", "configured"},
             EditRow(id, c, st)
      PROVE  HistoryInv'
  <2>1. /\ rows[id] \in Row /\ rows'[id] = [[rows[id] EXCEPT !.cfg = c] EXCEPT !.status = st]
        /\ \A j \in RowIds \ {id} : rows'[j] = rows[j]
        /\ st = rows[id].status \/ st = "pending"
        /\ UNCHANGED nextId
    BY <1>0, <1>4 DEF EditRow, Active
  <2>2. /\ rows'[id] \in Row /\ rows'[id].mac = rows[id].mac
        /\ rows[id].status = "pending" => rows'[id].status = "pending"
    BY <2>1 DEF Row
  <2>3. rows'[id] # NoRow /\ rows[id] # NoRow
    BY <2>1, <2>2, MarkerAssumption
  <2>4. MacsApart(rows)'
    <3>1. ASSUME NEW j \in RowIds, rows'[j] # NoRow
          PROVE  rows[j] # NoRow /\ rows'[j].mac = rows[j].mac
      <4>1. CASE j = id
        BY <2>2, <2>3, <4>1
      <4>2. CASE j # id
        BY <2>1, <3>1, <4>2
      <4> QED
        BY <4>1, <4>2
    <3> QED
      BY <3>1 DEF HistoryInv, MacsApart
  <2>5. \A j \in RowIds : History(j)'
    BY <1>1, <2>1, <2>2, <2>3 DEF HistoryInv, History
  <2> QED
    BY <1>2, <2>4, <2>5 DEF HistoryInv
<1>5. ASSUME NEW id \in RowIds, DeleteRow(id) PROVE HistoryInv'
  <2>1. /\ rows'[id] = NoRow /\ UNCHANGED nextId
        /\ \A j \in RowIds \ {id} : rows'[j] = rows[j]
    BY <1>0, <1>5 DEF DeleteRow
  <2>2. MacsApart(rows)'
    BY <2>1 DEF HistoryInv, MacsApart
  <2>3. \A j \in RowIds : History(j)'
    BY <1>1, <2>1 DEF HistoryInv, History
  <2> QED
    BY <1>2, <2>2, <2>3 DEF HistoryInv
<1> QED
  BY <1>3, <1>4, <1>5 DEF Editing

\* What a worker's step does to the rows: it may set the status of its own, and
\* then it does not get back to where it decides.
LEMMA WorkerRows ==
  ASSUME IInv, NEW id \in RowIds, Worker(id)
  PROVE  /\ snap[id] \in Row /\ phase = "configuring"
         /\ UNCHANGED <<nextId, snap, phase, cancelled, edits, plugs>>
         /\ \A j \in RowIds \ {id} : rows'[j] = rows[j] /\ pc'[j] = pc[j]
         /\ rows'[id] = NoRow <=> rows[id] = NoRow
         /\ rows[id] # NoRow => rows'[id].mac = rows[id].mac
         /\ pc'[id] \in UnmarkedPcs => pc[id] \in UnmarkedPcs /\ rows'[id] = rows[id]
<1>1. /\ pc \in [RowIds -> Pcs] /\ rows \in [RowIds -> Row \cup {NoRow}]
      /\ \A j \in RowIds : pc[j] # "none" => snap[j] \in Row /\ phase = "configuring"
  BY DEF IInv, SharedInv, SharedTypeOK, NodeTypeOK, WorkersHoldRows, WorkersOnlyConfigure
<1>2. ASSUME NEW st \in {"pending", "configured"}, SetStatus(id, st)
      PROVE  /\ \A j \in RowIds \ {id} : rows'[j] = rows[j]
             /\ rows'[id] = NoRow <=> rows[id] = NoRow
             /\ rows[id] # NoRow => rows'[id].mac = rows[id].mac
  <2>1. \A j \in RowIds \ {id} : rows'[j] = rows[j]
    BY <1>1, <1>2 DEF SetStatus
  <2>2. CASE rows[id] = NoRow
    BY <1>1, <1>2, <2>1, <2>2 DEF SetStatus
  <2>3. CASE rows[id] # NoRow
    <3>1. rows[id] \in Row /\ rows'[id] = [rows[id] EXCEPT !.status = st]
      BY <1>1, <1>2, <2>3 DEF SetStatus
    <3>2. rows'[id] \in Row /\ rows'[id].mac = rows[id].mac
      BY <3>1 DEF Row
    <3> QED
      BY <2>1, <2>3, <3>2, MarkerAssumption
  <2> QED
    BY <2>2, <2>3
<1>3. CASE MarkConfigured(id) \/ MarkFailed(id)
  <2>1. /\ UNCHANGED rows \/ \E st \in {"pending", "configured"} : SetStatus(id, st)
        /\ pc[id] \in {"mark", "markFailed"}
        /\ UNCHANGED <<nextId, snap, phase, cancelled, edits, plugs>>
        /\ pc'[id] \in {"processed", "failed", "markFailed"}
        /\ \A j \in RowIds \ {id} : pc'[j] = pc[j]
    BY <1>1, <1>3 DEF MarkConfigured, MarkFailed, Goto
  <2>2. pc'[id] \notin UnmarkedPcs
    BY <2>1 DEF UnmarkedPcs
  <2>3. pc[id] # "none"
    BY <2>1
  <2> QED
    BY <1>1, <1>2, <2>1, <2>2, <2>3
<1>4. CASE Acquire(id) \/ ReuseName(id) \/ NextName(id) \/ CheckNeed(id) \/ Skip(id)
  <2>1. /\ pc[id] \in {"queued", "reuse", "next", "check"}
        /\ UNCHANGED <<rows, nextId, snap, phase, cancelled, edits, plugs>>
        /\ \A j \in RowIds \ {id} : pc'[j] = pc[j]
    BY <1>1, <1>4
       DEF Acquire, ReuseName, NextName, CheckNeed, Skip, Goto, nodeVars
  <2> QED
    BY <1>1, <2>1 DEF UnmarkedPcs
<1>5. CASE AdapterStep(id)
  <2>1. /\ pc[id] # "none"
        /\ UNCHANGED <<rows, nextId, snap, phase, cancelled, edits, plugs>>
        /\ \A j \in RowIds \ {id} : pc'[j] = pc[j]
        /\ pc'[id] \in AdapterPcs \cup {"fill", "rollback", "validate", "markFailed", "mark"}
    BY <1>1, <1>5
       DEF AdapterStep, OpenFile, FillFile, TryNetplan, DropTried, ApplyNetplan,
           RollbackRemove, RollbackApply, Validate, Aside, Goto, AdapterPcs
  <2> QED
    BY <1>1, <2>1 DEF UnmarkedPcs, AdapterPcs
<1> QED
  BY <1>3, <1>4, <1>5 DEF Worker, UseCaseStep

\* Only a file for a MAC that Validate accepts is written.
LEMMA WorkerGoodFiles ==
  ASSUME IInv, GoodFiles, NEW id \in RowIds, Worker(id)
  PROVE  GoodFiles'
<1>1. /\ pc \in [RowIds -> Pcs] /\ file \in [Slots -> Content \cup {NoFile, Truncated}]
      /\ name \in [RowIds -> Slots \cup {NoSlot}]
  BY DEF IInv, SharedInv, SharedTypeOK, NodeTypeOK
<1>2. UNCHANGED snap /\ \A j \in RowIds \ {id} : pc'[j] = pc[j]
  BY WorkerRows
<1>3. pc'[id] \in {"configure", "fill"} => snap[id].mac \notin BadMACs
  BY <1>1
     DEF GoodFiles, Worker, UseCaseStep, Acquire, ReuseName, NextName, CheckNeed, Skip,
         MarkConfigured, MarkFailed, AdapterStep, OpenFile, FillFile, TryNetplan,
         DropTried, ApplyNetplan, RollbackRemove, RollbackApply, Validate, Goto
<1>4. \A s \in Slots : file'[s] \in Content =>
        file'[s] = file[s] \/ (pc[id] = "fill" /\ file'[s] = Prescribed(id))
  <2>1. \/ pc[id] = "fill" /\ file' = [file EXCEPT ![name[id]] = Prescribed(id)]
        \/ file' = [file EXCEPT ![name[id]] = Truncated]
        \/ file' = [file EXCEPT ![name[id]] = NoFile]
        \/ UNCHANGED file
    BY DEF Worker, UseCaseStep, Acquire, ReuseName, NextName, CheckNeed, Skip,
           MarkConfigured, MarkFailed, AdapterStep, OpenFile, FillFile, TryNetplan,
           DropTried, ApplyNetplan, RollbackRemove, RollbackApply, Validate, nodeVars
  <2>2. \A s \in Slots :
          \/ pc[id] = "fill" /\ file'[s] = Prescribed(id)
          \/ file'[s] \in {file[s], Truncated, NoFile}
    BY <1>1, <2>1
  <2>3. NoFile \notin Content /\ Truncated \notin Content
    BY MarkerAssumption
  <2> QED
    BY <2>2, <2>3
<1> QED
  BY <1>2, <1>3, <1>4 DEF GoodFiles, Prescribed

LEMMA WorkerHistory ==
  ASSUME IInv, HistoryInv, faults' = 0 => faults = 0, NEW id \in RowIds, WorkerStep(id)
  PROVE  HistoryInv'
<1>1. Worker(id) /\ UNCHANGED listed
  BY DEF WorkerStep, deleteVars
<1>2. GoodFiles'
  BY <1>1, WorkerGoodFiles DEF HistoryInv
<1>3. /\ snap[id] \in Row /\ phase = "configuring"
      /\ UNCHANGED <<nextId, snap, phase>>
      /\ \A j \in RowIds \ {id} : rows'[j] = rows[j] /\ pc'[j] = pc[j]
      /\ rows'[id] = NoRow <=> rows[id] = NoRow
      /\ rows[id] # NoRow => rows'[id].mac = rows[id].mac
      /\ pc'[id] \in UnmarkedPcs => pc[id] \in UnmarkedPcs /\ rows'[id] = rows[id]
  BY <1>1, WorkerRows
<1>4. MacsApart(rows)' /\ MacsApart(snap)'
  <2>1. \A j \in RowIds : rows'[j] # NoRow => rows[j] # NoRow /\ rows'[j].mac = rows[j].mac
    BY <1>3
  <2> QED
    BY <1>3, <2>1 DEF HistoryInv, MacsApart
<1>5. History(id)'
  BY <1>3, MarkerAssumption DEF HistoryInv, History
<1>6. \A j \in RowIds \ {id} : History(j)'
  BY <1>1, <1>3 DEF HistoryInv, History
<1> QED
  BY <1>2, <1>4, <1>5, <1>6 DEF HistoryInv

LEMMA NextHistory ==
  ASSUME MaxPlugs = 0, IInv, HistoryInv, [Next]_vars
  PROVE  HistoryInv'
<1>0. faults' = 0 => faults = 0
  BY FaultsStay DEF vars, nodeVars
<1>1. NodeTypeOK /\ file \in [Slots -> Content \cup {NoFile, Truncated}]
  BY DEF IInv, SharedInv, SharedTypeOK, NodeTypeOK
<1>2. CASE (StartAPoll \/ PollFails \/ ConfigureDone) /\ UNCHANGED <<deleteVars, stops>>
  <2>1. CASE ConfigureDone
    BY <2>1, GoneHistory DEF ConfigureDone, nodeVars
  <2>2. CASE PollFails
    BY <1>2, <2>2, <1>0, QuietHistory DEF PollFails, workVars, deleteVars
  <2> QED
    BY <1>1, <1>2, <2>1, <2>2, StartPollHistory DEF StartAPoll
<1>3. CASE CleanupStep
  <2>1. CASE RemoveOrphan(TRUE)
    BY <1>1, <2>1, <1>0, QuietHistory, MarkerAssumption DEF RemoveOrphan, workVars
  <2>2. CASE ReapplyNetplan \/ DeleteDone
    BY <2>2, <1>0, QuietHistory DEF ReapplyNetplan, Reapplied, DeleteDone, workVars, nodeVars
  <2> QED
    BY <1>3, <2>1, <2>2, <1>0, FindStepHistory DEF CleanupStep
<1>4. CASE ProcessStep
  <2>1. CASE Exit \/ Crash
    BY <2>1, GoneHistory DEF Exit, Crash, Gone
  <2>2. CASE Signal \/ Restart
    BY <2>2, <1>0, QuietHistory DEF Signal, Restart, workVars, deleteVars, nodeVars
  <2> QED
    BY <1>4, <2>1, <2>2 DEF ProcessStep
<1>5. CASE EnvironmentStep
  <2>1. Editing
    BY <1>1, <1>5 DEF EnvironmentStep, Environment, Attach, Detach, NodeTypeOK
  <2> QED
    BY <1>5, <2>1, <1>0, EditingHistory DEF EnvironmentStep
<1>6. CASE UNCHANGED vars
  BY <1>6, <1>0, QuietHistory DEF vars, nodeVars, workVars, deleteVars
<1> QED
  BY <1>0, <1>2, <1>3, <1>4, <1>5, <1>6, WorkerHistory DEF Next, AgentStep, PollStep

LEMMA InitHistory == Init => HistoryInv
<1> SUFFICES ASSUME Init PROVE HistoryInv
  OBVIOUS
<1>1. MacsApart(rows) /\ \A id \in RowIds : pc[id] = "none" /\ snap[id] = NoRow
  BY DEF Init, NodeInit, WorkInit, NoWorkers, MacsApart
<1>2. GoodFiles
  BY <1>1, MarkerAssumption DEF Init, NodeInit, GoodFiles
<1>3. nextId \in Nat /\ phase = "idle"
  BY NodeAssumption DEF Init, NodeInit, WorkInit
<1>4. \A id \in RowIds : id >= nextId => rows[id] = NoRow
  BY <1>3 DEF Init, NodeInit, RowIds
<1> QED
  BY <1>1, <1>2, <1>3, <1>4 DEF HistoryInv, MacsApart, History, UnmarkedPcs

-----------------------------------------------------------------------------
LEMMA NothingFails ==
  ASSUME NodeTypeOK, faults' = 0, ~cancelled
  PROVE  ~Faulty /\ ~ContextFails /\ (ContextHolds \/ Sound => faults = 0)
BY NodeAssumption DEF NodeTypeOK, Faulty, ContextFails, ContextHolds, Sound

\* While one worker moves the others wait for the semaphore or have ended.
LEMMA OthersOutside ==
  ASSUME IInv, SeqInv, SeqInv', NEW id \in RowIds, Worker(id)
  PROVE  \A j \in RowIds \ {id} : pc'[j] \in Outside
<1>1. pc \in [RowIds -> Pcs] /\ \A j \in RowIds \ {id} : pc'[j] = pc[j]
  BY WorkerRows DEF IInv, SharedInv, SharedTypeOK
<1>2. CASE Acquire(id)
  <2>1. pc'[id] = "reuse"
    BY <1>1, <1>2 DEF Acquire, Goto
  <2> QED
    BY <2>1 DEF SeqInv, OneRuns, Running, Outside, Verdicts
<1>3. CASE ~Acquire(id)
  <2>1. pc[id] \notin Outside
    BY <1>3 DEF Worker, UseCaseStep, ReuseName, NextName, CheckNeed, Skip, MarkConfigured,
                MarkFailed, AdapterStep, OpenFile, FillFile, TryNetplan, DropTried,
                ApplyNetplan, RollbackRemove, RollbackApply, Validate, Outside, Verdicts
  <2> QED
    BY <1>1, <2>1 DEF SeqInv, OneRuns, Running
<1> QED
  BY <1>2, <1>3

LEMMA OutsideNeedsNothing ==
  ASSUME NEW id \in RowIds, pc[id] \in Outside
  PROVE  Need(id)
BY DEF Need, Outside, Verdicts

\* Netplan brings no device.
LEMMA NetplanKeepsAbsent ==
  ASSUME NetplanApplies \/ NetplanFails \/ UNCHANGED dev, NEW m \in MACs, dev[m] = Absent
  PROVE  dev'[m] = Absent
BY DEF NetplanApplies, NetplanFails, Renames

\* After an apply the device has the name, or another one has it, or there is none.
LEMMA AppliedInUse ==
  ASSUME NodeTypeOK, NamesApart, FilesPlaced, NetplanApplies,
         NEW m \in MACs, NEW s \in Slots, Placed(m, s),
         file[s] \in Content, file[s].mac = m
  PROVE  InUse(s)' \/ dev'[m] = Absent
<1>1. Placed(m, s)'
  BY StaysPlaced
<1>2. CASE dev'[m] \in Slots
  BY <1>1, <1>2 DEF Placed, InUse
<1>3. CASE dev'[m] \notin Slots /\ dev[m] # Absent
  <2>1. dev'[m] \notin Wanted(file, m) /\ s \in Wanted(file, m)
    BY <1>3 DEF Wanted
  <2> QED
    BY <1>3, <2>1 DEF NetplanApplies, Renames, InUse
<1>4. CASE dev[m] = Absent
  BY <1>4 DEF NetplanApplies, Renames
<1> QED
  BY <1>2, <1>3, <1>4

LEMMA WorkerNeed ==
  ASSUME MaxWorkers = 1, IInv, SeqInv, NamesApart, PlacedInv,
         NEW id \in RowIds, Worker(id), faults' = 0, ~cancelled, faults = 0 => Need(id)
  PROVE  faults = 0 /\ Need(id)'
<1>1. /\ NodeTypeOK /\ pc \in [RowIds -> Pcs] /\ pc[id] # "none"
      /\ snap[id] \in Row /\ snap[id].mac \in MACs /\ UNCHANGED snap
      /\ rows'[id] = NoRow <=> rows[id] = NoRow
      /\ ~Faulty /\ ~ContextFails /\ Own(id)
  BY NothingFails, WorkerSteps, WorkerRows, RunnerHolds
     DEF IInv, SharedInv, SharedTypeOK
<1>2. faults = 0
  BY <1>1, FaultsGrow
     DEF Worker, UseCaseStep, Acquire, ReuseName, NextName, CheckNeed, Skip,
         MarkConfigured, MarkFailed, AdapterStep, OpenFile, FillFile, TryNetplan,
         DropTried, ApplyNetplan, RollbackRemove, RollbackApply, Validate, nodeVars, Sound
<1>3. Need(id)
  BY <1>2
<1>4. CASE Acquire(id) \/ ReuseName(id) \/ NextName(id) \/ Skip(id) \/ MarkFailed(id)
  <2>1. pc'[id] \in {"reuse", "check", "next", "failed", "skipped"}
    BY <1>1, <1>4 DEF Acquire, ReuseName, NextName, Skip, MarkFailed, Goto
  <2> QED
    BY <1>2, <2>1 DEF Need
<1>5. CASE CheckNeed(id)
  <2>1. NeedsProcessing(id) /\ UNCHANGED <<file, name, rows>>
    BY <1>1, <1>5 DEF CheckNeed
  <2>2. pc'[id] = IF snap[id].mac \in BadMACs THEN "markFailed" ELSE "configure"
    BY <1>1, <1>5 DEF CheckNeed, Goto
  <2> QED
    BY <1>1, <1>2, <2>1, <2>2 DEF NeedsProcessing, Need, Hopeless, Prescribed
<1>6. CASE MarkConfigured(id)
  <2>1. \/ pc'[id] = "processed"
        \/ pc'[id] = "markFailed" /\ rows[id] = NoRow
    BY <1>1, <1>6 DEF MarkConfigured, Goto
  <2> QED
    BY <1>1, <1>2, <2>1 DEF Need, Hopeless
<1>7. CASE OpenFile(id, "configure") \/ FillFile(id, "try") \/ TryNetplan(id)
  <2>1. pc'[id] \in {"fill", "try", "apply"}
    BY <1>1, <1>7 DEF OpenFile, FillFile, TryNetplan, Goto
  <2> QED
    BY <1>2, <2>1 DEF Need
<1>8. CASE DropTried(id)
  BY <1>3, <1>8 DEF DropTried, Need
<1>9. CASE ApplyNetplan(id)
  <2>1. pc[id] = "apply" /\ pc'[id] = "validate" /\ NetplanApplies
        /\ UNCHANGED <<file, name>>
    BY <1>1, <1>9 DEF ApplyNetplan, Goto, Aside
  <2>2. name[id] \in Slots /\ file[name[id]] = Prescribed(id)
    BY <1>1, <2>1 DEF Own, NameHeld, FileOwn, NamedPcs, WrittenPcs
  <2>3. Prescribed(id) \in Content /\ Prescribed(id).mac = snap[id].mac
    BY <1>1, RunnerHolds
  <2>4. FilesPlaced /\ Placed(snap[id].mac, name[id])
    BY <1>2, <2>1 DEF PlacedInv, NamePlaced, NamedPcs, WrittenPcs
  <2>5. InUse(name[id])' \/ dev'[snap[id].mac] = Absent
    <3>1. \A s \in Slots : s = name[id] => InUse(s)' \/ dev'[snap[id].mac] = Absent
      BY <1>1, <2>1, <2>2, <2>3, <2>4, AppliedInUse
    <3> QED
      BY <2>1, <2>2, <3>1 DEF InUse
  <2> QED
    BY <1>1, <1>2, <2>1, <2>5 DEF Need
<1>10. CASE RollbackRemove(id)
  <2>1. pc[id] = "rollback" /\ pc'[id] = "rollbackApply" /\ UNCHANGED <<rows, dev>>
    BY <1>1, <1>3, <1>10 DEF RollbackRemove, Goto, Aside, Need
  <2> QED
    BY <1>1, <1>2, <1>3, <2>1 DEF Need, Hopeless
<1>11. CASE RollbackApply(id)
  <2>1. pc[id] = "rollbackApply" /\ pc'[id] = "markFailed" /\ NetplanApplies
        /\ UNCHANGED rows
    BY <1>1, <1>3, <1>11 DEF RollbackApply, Goto, Aside, Need
  <2>2. dev'[snap[id].mac] = Absent
    BY <1>1, <1>3, <2>1, NetplanKeepsAbsent DEF Need
  <2> QED
    BY <1>1, <1>2, <2>1, <2>2 DEF Need, Hopeless
<1>12. CASE Validate(id)
  <2>1. /\ pc[id] = "validate" /\ UNCHANGED <<rows, dev, name>>
        /\ \/ pc'[id] = "mark"
           \/ pc'[id] = "rollback" /\ ~InUse(name[id])
    BY <1>1, <1>12 DEF Validate, DeviceExists, Goto, Aside
  <2> QED
    BY <1>1, <1>2, <1>3, <2>1 DEF Need, Hopeless
<1> QED
  BY <1>4, <1>5, <1>6, <1>7, <1>8, <1>9, <1>10, <1>11, <1>12
     DEF Worker, UseCaseStep, AdapterStep

LEMMA NextNeed ==
  ASSUME MaxWorkers = 1, MaxPlugs = 0, IInv, SeqInv, NamesApart, PlacedInv, HistoryInv,
         NeedInv, [Next]_vars
  PROVE  NeedInv'
<1>1. /\ NodeTypeOK /\ pc \in [RowIds -> Pcs]
      /\ \A id \in RowIds : pc[id] # "none" => snap[id] \in Row /\ phase = "configuring"
  BY DEF IInv, SharedInv, SharedTypeOK, WorkersHoldRows, WorkersOnlyConfigure
<1>2. ASSUME NEW id \in RowIds, WorkerStep(id) PROVE NeedInv'
  <2> SUFFICES ASSUME faults' = 0, ~cancelled' PROVE \A j \in RowIds : Need(j)'
    BY DEF NeedInv
  <2>1. Worker(id) /\ UNCHANGED cancelled
    BY <1>2, WorkerRows DEF WorkerStep
  <2>2. Need(id)'
    BY <2>1, WorkerNeed DEF NeedInv
  <2>3. SeqInv'
    BY <2>1, WorkerSeq
  <2>4. \A j \in RowIds \ {id} : Need(j)'
    <3>1. \A j \in RowIds \ {id} : pc'[j] \in Outside
      BY <2>1, <2>3, OthersOutside
    <3> QED
      BY <3>1 DEF Need, Outside, Verdicts
  <2> QED
    BY <2>2, <2>4
<1>3. CASE PollStep \/ Exit \/ Crash \/ Restart
  <2>1. \A id \in RowIds : pc'[id] \in Outside
    <3>1. CASE StartAPoll \/ ConfigureDone \/ Exit \/ Crash
      BY <3>1 DEF StartAPoll, StartPoll, ConfigureDone, Exit, Crash, Gone, NoWorkers,
                  Outside
    <3>2. CASE PollFails \/ CleanupStep \/ Restart
      <4>1. phase # "configuring" /\ UNCHANGED pc
        BY <3>2 DEF PollFails, CleanupStep, FindStep, FindOrphans, FindOrphansUnread,
                    FindFails, RemoveOrphan, ReapplyNetplan, Reapplied, DeleteDone,
                    Restart, workVars, nodeVars
      <4> QED
        BY <1>1, <4>1 DEF Outside
    <3> QED
      BY <1>3, <3>1, <3>2 DEF PollStep
  <2> QED
    BY <2>1 DEF NeedInv, Need, Outside, Verdicts
<1>4. CASE Signal
  BY <1>4 DEF Signal, NeedInv
<1>5. CASE EnvironmentStep
  <2>1. Editing /\ UNCHANGED <<file, dev, pc, snap, name, faults, cancelled>>
    <3>1. Editing /\ UNCHANGED workVars
      BY <1>1, <1>5 DEF EnvironmentStep, Environment, Attach, Detach, NodeTypeOK
    <3>2. UNCHANGED <<file, dev, faults, cancelled>>
      BY <3>1 DEF Editing, InsertRow, EditRow, DeleteRow
    <3> QED
      BY <3>1, <3>2 DEF workVars
  <2>2. ASSUME NEW id \in RowIds, pc[id] # "none", rows[id] = NoRow PROVE rows'[id] = NoRow
    <3>1. id # nextId
      <4>1. snap[id] # NoRow
        BY <1>1, <2>2, MarkerAssumption
      <4>2. nextId \in Nat
        BY <1>1, NodeAssumption DEF NodeTypeOK
      <4> QED
        BY <4>1, <4>2 DEF HistoryInv, History
    <3>2. CASE \E m \in MACs, c \in Cfgs : InsertRow(m, c)
      BY <1>1, <2>2, <3>1, <3>2 DEF InsertRow, NodeTypeOK
    <3>3. CASE \E j \in RowIds, c \in Cfgs, st \in {"pending", "configured"} :
                 EditRow(j, c, st)
      BY <1>1, <2>2, <3>3 DEF EditRow, Active, NodeTypeOK
    <3>4. CASE \E j \in RowIds : DeleteRow(j)
      BY <1>1, <2>2, <3>4 DEF DeleteRow, NodeTypeOK
    <3> QED
      BY <2>1, <3>2, <3>3, <3>4 DEF Editing
  <2> QED
    BY <2>1, <2>2 DEF NeedInv, Need, Hopeless, InUse, Prescribed
<1>6. CASE UNCHANGED vars
  BY <1>6 DEF vars, nodeVars, workVars, NeedInv, Need, Hopeless, InUse, Prescribed
<1> QED
  BY <1>2, <1>3, <1>4, <1>5, <1>6 DEF Next, AgentStep, ProcessStep

LEMMA InitNeed == Init => NeedInv
<1> SUFFICES ASSUME Init PROVE NeedInv
  OBVIOUS
<1>1. \A id \in RowIds : pc[id] = "none"
  BY DEF Init, WorkInit, NoWorkers
<1> QED
  BY <1>1 DEF NeedInv, Need

-----------------------------------------------------------------------------
\* Netplan leaves a device alone that has the name and the settings of its file.
LEMMA NetplanKeepsServed ==
  ASSUME NetplanApplies \/ NetplanFails, NEW m \in MACs, NEW s \in Slots, NEW c,
         dev[m] = s, file[s] \in Content, file[s].mac = m, file[s].cfg = c, live[m] = c
  PROVE  dev'[m] = s /\ live'[m] = c
<1>1. s \in Wanted(file, m)
  BY DEF Wanted
<1>2. CASE NetplanApplies
  <2>1. dev'[m] = s
    BY <1>1, <1>2 DEF NetplanApplies, Renames
  <2> QED
    BY <1>1, <1>2, <2>1 DEF NetplanApplies, Settings
<1>3. CASE UNCHANGED <<dev, live>>
  BY <1>3
<1> QED
  BY <1>2, <1>3 DEF NetplanFails

\* A worker that touches the file of a served row is the row's own.
LEMMA OwnWorkerOnly ==
  ASSUME IInv, SeqInv, HistoryInv, faults = 0, NEW id \in Active, NEW j \in RowIds,
         pc[j] \in NamedPcs, dev[rows[id].mac] = name[j], rows[id].status = "configured"
  PROVE  j = id
<1>1. pc[j] # "none" /\ snap[j] \in Row /\ phase = "configuring" /\ NobodyElse(j)
  BY RunnerHolds DEF NamedPcs, WrittenPcs, ClearedPcs, Own, NameHeld
<1>2. id \in RowIds /\ rows[id] # NoRow /\ rows[id] \in Row /\ rows[id].mac \in MACs
  BY DEF Active, IInv, SharedInv, SharedTypeOK, NodeTypeOK, Row
<1>3. snap[j].mac = rows[id].mac
  BY <1>1, <1>2 DEF NobodyElse
<1>4. snap[id] # NoRow /\ snap[j] # NoRow
  BY <1>1, <1>2, MarkerAssumption DEF HistoryInv, History
<1>5. snap[id].mac = rows[id].mac
  BY <1>2, <1>4 DEF HistoryInv, History
<1> QED
  BY <1>2, <1>3, <1>4, <1>5 DEF HistoryInv, MacsApart

\* The files: the worker of a served row has nothing to do, unless it holds an
\* older version of the row, and the cleanup spares it.
LEMMA ServedFileKept ==
  ASSUME MaxWorkers = 1, MaxPlugs = 0,
         IInv, SeqInv, HistoryInv, NeedInv, OrphansUnlisted,
         Next, NEW id \in Active, NEW s \in Slots,
         dev[rows[id].mac] = s, file[s] = [mac |-> rows[id].mac, cfg |-> rows[id].cfg],
         rows[id].status = "configured",
         SnapshotCurrent(id), ~cancelled, faults' = 0, faults = 0
  PROVE  file'[s] = file[s]
<1>1. /\ NodeTypeOK /\ file \in [Slots -> Content \cup {NoFile, Truncated}]
      /\ id \in RowIds /\ rows[id] # NoRow /\ rows[id] \in Row
      /\ rows[id].mac \in MACs /\ file[s] \in Content /\ file[s].mac = rows[id].mac
  BY DEF Active, IInv, SharedInv, SharedTypeOK, NodeTypeOK, Row, Content
<1>2. ~Faulty /\ ~ContextFails
  BY <1>1, NothingFails
<1>3. SUFFICES ASSUME file'[s] # file[s] PROVE FALSE
  OBVIOUS
<1>4. ASSUME NEW j \in RowIds, WorkerStep(j) PROVE FALSE
  <2>1. Worker(j) /\ pc[j] \in NamedPcs /\ name[j] = s
    BY <1>3, <1>4, WorkerSteps DEF WorkerStep
  <2>2. j = id
    BY <2>1, OwnWorkerOnly
  <2>3. Need(id) /\ snap[id] \in Row
    BY <2>1, <2>2, WorkerRows DEF NeedInv
  <2>4. snap[id] # NoRow /\ snap[id].mac = rows[id].mac /\ snap[id].cfg = rows[id].cfg
    BY <1>1, <2>3, MarkerAssumption DEF HistoryInv, History, SnapshotCurrent
  <2>5. Prescribed(id) = file[s]
    BY <2>4 DEF Prescribed
  <2>6. ~Hopeless(id)
    <3>1. rows[id].mac \notin BadMACs
      BY <1>1 DEF HistoryInv, GoodFiles
    <3>2. dev[rows[id].mac] # Absent
      BY NodeAssumption
    <3> QED
      BY <1>1, <2>4, <3>1, <3>2 DEF Hopeless
  <2>7. CASE pc[id] = "configure"
    <3>1. snap[id].status # "pending"
      BY <1>1, <2>7 DEF HistoryInv, History, UnmarkedPcs
    <3> QED
      BY <2>1, <2>2, <2>3, <2>5, <2>7, <3>1 DEF Need
  <2>8. CASE pc[id] = "fill"
    <3>1. file' = [file EXCEPT ![s] = Prescribed(id)] \/ UNCHANGED file
      BY <2>1, <2>2, <2>8
         DEF Worker, UseCaseStep, Acquire, ReuseName, NextName, CheckNeed, Skip,
             MarkConfigured, MarkFailed, AdapterStep, OpenFile, FillFile, TryNetplan,
             DropTried, ApplyNetplan, RollbackRemove, RollbackApply, Validate, nodeVars
    <3> QED
      BY <1>1, <1>3, <2>5, <3>1
  <2>9. CASE pc[id] \in {"dropTried", "undo", "rollback"}
    BY <1>1, <2>3, <2>4, <2>9, NodeAssumption DEF Need
  <2>10. CASE pc[id] \notin {"configure", "fill", "dropTried", "undo", "rollback"}
    <3>1. UNCHANGED file
      BY <2>1, <2>2, <2>10
         DEF Worker, UseCaseStep, Acquire, ReuseName, NextName, CheckNeed, Skip,
             MarkConfigured, MarkFailed, AdapterStep, OpenFile, FillFile, TryNetplan,
             DropTried, ApplyNetplan, RollbackRemove, RollbackApply, Validate, nodeVars
    <3> QED
      BY <1>3, <3>1
  <2> QED
    BY <2>7, <2>8, <2>9, <2>10
<1>5. CASE PollStep
  <2>1. RemoveOrphan(TRUE)
    BY <1>3, <1>5 DEF PollStep, StartAPoll, StartPoll, PollFails, ConfigureDone,
                      CleanupStep, FindStep, FindOrphans, FindOrphansUnread, FindFails,
                      ReapplyNetplan, Reapplied, DeleteDone, nodeVars
  <2>2. phase = "deleting" /\ phase' = "deleting"
    BY <2>1 DEF RemoveOrphan, workVars
  <2>3. s \in orphans
    BY <1>3, <1>5, <2>2, CleanupStepSpares
  <2>4. rows[id].mac \notin listed
    BY <1>1, <2>2, <2>3 DEF OrphansUnlisted
  <2> QED
    BY <1>1, <2>2, <2>4 DEF HistoryInv, History
<1>6. CASE ProcessStep \/ EnvironmentStep
  <2>1. UNCHANGED file
    BY <1>6 DEF ProcessStep, Signal, Exit, Crash, Gone, Restart, nodeVars,
                EnvironmentStep, Environment, Editing, InsertRow, EditRow, DeleteRow,
                Attach, Detach
  <2> QED
    BY <1>3, <2>1
<1> QED
  BY <1>4, <1>5, <1>6 DEF Next, AgentStep

\* The device: only netplan touches it, while no device comes or goes.
LEMMA ServedDeviceKept ==
  ASSUME MaxPlugs = 0, IInv, Next, NEW m \in MACs, NEW s \in Slots, NEW c,
         dev[m] = s, file[s] \in Content, file[s].mac = m, file[s].cfg = c, live[m] = c
  PROVE  dev'[m] = s /\ live'[m] = c
<1>1. ~(plugs < MaxPlugs)
  BY DEF IInv, SharedInv, SharedTypeOK, NodeTypeOK
<1>2. NetplanApplies \/ NetplanFails \/ UNCHANGED <<dev, live>>
  <2>1. ASSUME NEW id \in RowIds, WorkerStep(id)
        PROVE  NetplanApplies \/ NetplanFails \/ UNCHANGED <<dev, live>>
    BY <2>1 DEF WorkerStep, Worker, UseCaseStep, Acquire, ReuseName, NextName, CheckNeed,
                Skip, MarkConfigured, MarkFailed, AdapterStep, OpenFile, FillFile,
                TryNetplan, DropTried, ApplyNetplan, RollbackRemove, RollbackApply,
                Validate, nodeVars
  <2>2. CASE PollStep
    BY <2>2 DEF PollStep, StartAPoll, StartPoll, PollFails, ConfigureDone, CleanupStep,
                FindStep, FindOrphans, FindOrphansUnread, FindFails, RemoveOrphan,
                ReapplyNetplan, DeleteDone, nodeVars
  <2>3. CASE ProcessStep
    BY <2>3 DEF ProcessStep, Signal, Exit, Crash, Gone, Restart, nodeVars
  <2>4. CASE EnvironmentStep
    BY <1>1, <2>4 DEF EnvironmentStep, Environment, Editing, InsertRow, EditRow,
                      DeleteRow, Attach, Detach
  <2> QED
    BY <2>1, <2>2, <2>3, <2>4 DEF Next, AgentStep
<1> QED
  BY <1>2, NetplanKeepsServed

\* The row: only its own worker sets its status, and that worker has not failed.
LEMMA ServedRowKept ==
  ASSUME IInv, HistoryInv, NeedInv, Next, NEW id \in Active,
         file[dev[rows[id].mac]] \in Content, dev[rows[id].mac] \in Slots,
         file[dev[rows[id].mac]].mac = rows[id].mac,
         rows[id].status = "configured", ~cancelled, faults = 0, UNCHANGED edits
  PROVE  rows'[id] = rows[id]
<1>1. /\ NodeTypeOK /\ rows \in [RowIds -> Row \cup {NoRow}]
      /\ id \in RowIds /\ rows[id] # NoRow /\ rows[id] \in Row
  BY DEF Active, IInv, SharedInv, SharedTypeOK, NodeTypeOK
<1>2. ASSUME NEW j \in RowIds, WorkerStep(j) PROVE rows'[id] = rows[id]
  <2>1. Worker(j)
    BY <1>2 DEF WorkerStep
  <2>2. CASE j # id
    BY <1>1, <2>1, <2>2, WorkerRows
  <2>3. CASE j = id /\ MarkFailed(id)
    <3>1. pc[id] = "markFailed" /\ Need(id) /\ snap[id] \in Row
      BY <1>1, <2>1, <2>3, WorkerRows DEF MarkFailed, NeedInv
    <3>2. snap[id].mac = rows[id].mac
      BY <1>1, <3>1, MarkerAssumption DEF HistoryInv, History
    <3>3. ~Hopeless(id)
      BY <1>1, <3>2, NodeAssumption DEF HistoryInv, GoodFiles, Hopeless
    <3> QED
      BY <3>1, <3>3 DEF Need
  <2>4. CASE j = id /\ MarkConfigured(id)
    <3>1. UNCHANGED rows \/ SetStatus(id, "configured")
      BY <2>4 DEF MarkConfigured
    <3>2. [rows[id] EXCEPT !.status = "configured"] = rows[id]
      BY <1>1 DEF Row
    <3> QED
      BY <1>1, <3>1, <3>2 DEF SetStatus
  <2>5. CASE ~MarkFailed(j) /\ ~MarkConfigured(j)
    BY <2>1, <2>5
       DEF Worker, UseCaseStep, Acquire, ReuseName, NextName, CheckNeed, Skip,
           AdapterStep, OpenFile, FillFile, TryNetplan, DropTried, ApplyNetplan,
           RollbackRemove, RollbackApply, Validate, Aside, nodeVars
  <2> QED
    BY <2>2, <2>3, <2>4, <2>5
<1>3. CASE PollStep
  BY <1>3 DEF PollStep, StartAPoll, StartPoll, PollFails, ConfigureDone, CleanupStep,
              FindStep, FindOrphans, FindOrphansUnread, FindFails, RemoveOrphan,
              ReapplyNetplan, Reapplied, DeleteDone, nodeVars
<1>4. CASE ProcessStep
  BY <1>4 DEF ProcessStep, Signal, Exit, Crash, Gone, Restart, nodeVars
<1>5. CASE EnvironmentStep
  <2>1. edits \in Nat /\ edits' = edits
    BY <1>1, NodeAssumption DEF NodeTypeOK
  <2>2. edits' # edits + 1
    BY <2>1
  <2>3. ~Editing
    BY <2>2 DEF Editing, InsertRow, EditRow, DeleteRow
  <2> QED
    BY <1>5, <2>3 DEF EnvironmentStep, Environment, Attach, Detach
<1> QED
  BY <1>2, <1>3, <1>4, <1>5 DEF Next, AgentStep

\* One worker, and no device comes or goes: until something fails the agent leaves
\* a served row alone, whatever the controller, signals and crashes did before
\* (configure_network.go:554-569, delete_network.go:171-226).
THEOREM ServedKept ==
  ASSUME MaxWorkers = 1, MaxPlugs = 0
  PROVE  Spec => ServedUndisturbed
<1> DEFINE Inv == /\ IInv /\ SeqInv /\ NamesApart /\ PlacedInv
                  /\ HistoryInv /\ NeedInv /\ (faults = 0 => OrphansUnlisted)
<1>1. Init => Inv
  BY InitIInv, InitSeq, InitPlaced, InitHistory, InitNeed
<1>2. Inv /\ [Next]_vars => Inv'
  <2>1. Inv /\ [Next]_vars => (faults' = 0 => OrphansUnlisted')
    BY FaultsStay, CleanupStepSpares DEF vars, nodeVars
  <2> QED
    BY <2>1, NextIInv, NextSeq, NextPlaced, NextHistory, NextNeed
<1>3. Inv /\ [Next]_vars =>
        [\A id \in Active :
           RowServed(id) /\ SnapshotCurrent(id) /\ ~cancelled
             /\ faults' = 0 /\ UNCHANGED <<edits, plugs>>
           => RowServed(id)']_vars
  <2> SUFFICES ASSUME Inv, Next, NEW id \in Active, RowServed(id), SnapshotCurrent(id),
                      ~cancelled, faults' = 0, UNCHANGED edits
               PROVE  RowServed(id)'
    BY DEF vars
  <2>1. PICK s \in Slots : /\ dev[rows[id].mac] = s
                           /\ file[s] = [mac |-> rows[id].mac, cfg |-> rows[id].cfg]
                           /\ live[rows[id].mac] = rows[id].cfg
                           /\ rows[id].status = "configured"
    BY DEF RowServed
  <2>2. /\ rows[id].mac \in MACs /\ file[s] \in Content
        /\ file[s].mac = rows[id].mac /\ file[s].cfg = rows[id].cfg
    BY <2>1 DEF Active, IInv, SharedInv, SharedTypeOK, NodeTypeOK, Row, Content
  <2>3. faults = 0
    BY FaultsStay
  <2>4. rows'[id] = rows[id]
    BY <2>1, <2>2, <2>3, ServedRowKept
  <2>5. file'[s] = file[s]
    BY <2>1, <2>3, ServedFileKept
  <2>6. dev'[rows[id].mac] = s /\ live'[rows[id].mac] = rows[id].cfg
    BY <2>1, <2>2, ServedDeviceKept
  <2> QED
    BY <2>1, <2>4, <2>5, <2>6 DEF RowServed
<1> QED
  BY <1>1, <1>2, <1>3, PTL DEF Spec, ServedUndisturbed

-----------------------------------------------------------------------------
\* What the abstract node is, and the two facts its steps need besides: the
\* snapshot is gone when the workers are, and what Validate has seen is still so
\* when the row is marked.
Runs   == [m \in MACs |-> InForce(m)]
Spared == IF phase = "deleting" THEN listed ELSE MACs
Calm   == faults = 0 /\ ~cancelled

NoSnaps == phase # "configuring" => \A id \in RowIds : snap[id] = NoRow

MarksReal == \A id \in RowIds : pc[id] = "mark" => ValidatedMeans(id)

\* An interface is in force with the settings of its own file.
LEMMA InForceMeans ==
  ASSUME NodeTypeOK, NEW m \in MACs
  PROVE  /\ InForce(m) \in Cfgs \cup {Plain}
         /\ InForce(m) # Plain =>
              /\ dev[m] \in Slots /\ live[m] = InForce(m)
              /\ file[dev[m]] = [mac |-> m, cfg |-> InForce(m)]
              /\ file[dev[m]] \in Content /\ file[dev[m]].mac = m
         /\ \A s \in Slots :
              dev[m] = s /\ file[s] = [mac |-> m, cfg |-> live[m]] => InForce(m) = live[m]
BY DEF InForce, NodeTypeOK, Content

\* Netplan brings interfaces into force and disturbs none that is.
LEMMA NetplanBringsUp ==
  ASSUME NodeTypeOK, NodeTypeOK', NetplanApplies \/ NetplanFails, UNCHANGED file
  PROVE  /\ \A m \in MACs : InForce(m) # Plain => InForce(m)' = InForce(m)
         /\ Runs' \in [MACs -> Cfgs \cup {Plain}]
<1>1. ASSUME NEW m \in MACs PROVE InForce(m)' \in Cfgs \cup {Plain}
  BY DEF InForce, NodeTypeOK
<1>2. ASSUME NEW m \in MACs, InForce(m) # Plain PROVE InForce(m)' = InForce(m)
  <2>1. /\ dev[m] \in Slots /\ live[m] = InForce(m)
        /\ file[dev[m]] = [mac |-> m, cfg |-> InForce(m)]
        /\ file[dev[m]] \in Content
    BY <1>2, InForceMeans
  <2>2. \A s \in Slots : dev[m] = s => dev'[m] = s /\ live'[m] = InForce(m)
    BY <2>1, NetplanKeepsServed
  <2> QED
    BY <2>1, <2>2 DEF InForce
<1> QED
  BY <1>1, <1>2 DEF Runs

\* A file that is written or removed concerns the interface of its name.
LEMMA FileConcerns ==
  ASSUME NodeTypeOK, UNCHANGED <<dev, live>>, NEW s \in Slots, NEW x,
         file' = [file EXCEPT ![s] = x]
  PROVE  \A m \in MACs : /\ dev[m] # s => InForce(m)' = InForce(m)
                         /\ InForce(m)' \in {live[m], Plain}
BY DEF InForce, NodeTypeOK

\* An operation keeps the calm or ends it.
LEMMA CalmEnds ==
  ASSUME NodeTypeOK, Sound \/ Faulty \/ ContextHolds \/ ContextFails,
         UNCHANGED cancelled
  PROVE  Calm' \in {Calm, FALSE}
<1>1. faults' = 0 => faults = 0
  BY FaultsGrow
<1>2. Calm' => Calm
  BY <1>1 DEF Calm
<1>3. Calm \in BOOLEAN /\ Calm' \in BOOLEAN
  BY DEF Calm
<1> QED
  BY <1>2, <1>3

\* A step that shows from outside at most as a failure.
LEMMA StepUnseen ==
  ASSUME UNCHANGED <<rows, snap, Spared, Runs>>, Calm' \in {Calm, FALSE}
  PROVE  [Sync!Next]_(Sync!vars)
<1>1. CASE Calm' = Calm
  BY <1>1 DEF Sync!vars, Spared, Runs, Calm
<1>2. CASE Calm' = FALSE
  BY <1>2 DEF Sync!Next, Sync!Fail, Spared, Runs, Calm
<1> QED
  BY <1>1, <1>2

\* Interfaces come into force.
LEMMA StepUp ==
  ASSUME UNCHANGED <<rows, snap, Spared>>, Calm' \in {Calm, FALSE},
         \A m \in MACs : InForce(m) # Plain => InForce(m)' = InForce(m),
         Runs' \in [MACs -> Cfgs \cup {Plain}]
  PROVE  [Sync!Next]_(Sync!vars)
<1>1. CASE Runs' = Runs
  BY <1>1, StepUnseen
<1>2. CASE Runs' # Runs
  BY <1>2 DEF Sync!Next, Sync!BringUp, Sync!MayFail, Spared, Runs, Calm
<1> QED
  BY <1>1, <1>2

\* One goes out of force.
LEMMA StepDown ==
  ASSUME UNCHANGED <<rows, snap, Spared, Calm>>, NEW m \in MACs,
         \A n \in MACs : n # m => InForce(n)' = InForce(n), InForce(m)' = Plain,
         m \notin Spared \/ \E id \in RowIds : Sync!Due(id, m) \/ Sync!Tried(id, m)
  PROVE  [Sync!Next]_(Sync!vars)
<1>1. Runs' = [Runs EXCEPT ![m] = Plain]
  BY DEF Runs
<1>2. Sync!TakeDown(m)
  BY <1>1 DEF Sync!TakeDown, Spared, Runs, Calm
<1> QED
  BY <1>2 DEF Sync!Next

\* The end of the workers or of the cleanup.
LEMMA StepEnds ==
  ASSUME UNCHANGED <<rows, Runs>>, \A id \in RowIds : snap'[id] = NoRow,
         snap' \in [RowIds -> Row \cup {NoRow}], phase' # "deleting", Calm' \in BOOLEAN
  PROVE  [Sync!Next]_(Sync!vars)
<1>1. snap' = Sync!Nothing /\ Spared' = MACs
  BY DEF Sync!Nothing, Spared
<1>2. Sync!Finish
  BY <1>1 DEF Sync!Finish, Spared, Runs, Calm
<1> QED
  BY <1>2 DEF Sync!Next

-----------------------------------------------------------------------------
LEMMA NextNoSnaps ==
  ASSUME IInv, NoSnaps, [Next]_vars
  PROVE  NoSnaps'
<1>1. ASSUME NEW id \in RowIds, WorkerStep(id) PROVE NoSnaps'
  BY <1>1, WorkerRows DEF WorkerStep, NoSnaps
<1>2. CASE PollStep
  BY <1>2 DEF PollStep, StartAPoll, StartPoll, PollFails, ConfigureDone, CleanupStep,
              FindStep, FindOrphans, FindOrphansUnread, FindFails, RemoveOrphan,
              ReapplyNetplan, Reapplied, DeleteDone, NoWorkers, workVars, NoSnaps
<1>3. CASE ProcessStep
  BY <1>3 DEF ProcessStep, Signal, Exit, Crash, Gone, Restart, NoWorkers, workVars,
              NoSnaps
<1>4. CASE EnvironmentStep \/ UNCHANGED vars
  BY <1>4 DEF EnvironmentStep, vars, workVars, NoSnaps
<1> QED
  BY <1>1, <1>2, <1>3, <1>4 DEF Next, AgentStep

\* Between the look and the mark nobody else moves, and no file or device does.
LEMMA NextMarksReal ==
  ASSUME MaxPlugs = 0, IInv, SeqInv, SeqInv', MarksReal, [Next]_vars
  PROVE  MarksReal'
<1>1. pc \in [RowIds -> Pcs] /\ ~(plugs < MaxPlugs)
  BY DEF IInv, SharedInv, SharedTypeOK, NodeTypeOK
<1>2. ASSUME NEW j \in RowIds, WorkerStep(j), NEW id \in RowIds, pc'[id] = "mark"
      PROVE  ValidatedMeans(id)'
  <2>1. Worker(j)
    BY <1>2 DEF WorkerStep
  <2>2. id = j
    BY <1>2, <2>1, OthersOutside DEF Outside, Verdicts
  <2>3. Validate(id)
    BY <1>1, <1>2, <2>1, <2>2
       DEF Worker, UseCaseStep, Acquire, ReuseName, NextName, CheckNeed, Skip,
           MarkConfigured, MarkFailed, AdapterStep, OpenFile, FillFile, TryNetplan,
           DropTried, ApplyNetplan, RollbackRemove, RollbackApply, Goto
  <2>4. pc[id] = "validate" /\ InUse(name[id]) /\ UNCHANGED <<file, dev, live, snap, name>>
    BY <1>1, <1>2, <2>3 DEF Validate, DeviceExists, Goto, Aside
  <2>5. ValidatedMeans(id)
    BY <2>4, ValidateSees
  <2> QED
    BY <2>4, <2>5 DEF ValidatedMeans, Prescribed
<1>3. CASE PollStep
  <2>1. CASE StartAPoll \/ ConfigureDone
    <3>1. \A id \in RowIds : pc'[id] \in {"none", "queued"}
      BY <2>1 DEF StartAPoll, StartPoll, ConfigureDone, NoWorkers
    <3> QED
      BY <3>1 DEF MarksReal
  <2>2. CASE PollFails
    BY <2>2 DEF PollFails, workVars, MarksReal, ValidatedMeans, Prescribed
  <2>3. CASE CleanupStep
    <3>1. phase # "configuring" /\ UNCHANGED pc
      BY <2>3 DEF CleanupStep, FindStep, FindOrphans, FindOrphansUnread, FindFails,
                  RemoveOrphan, ReapplyNetplan, Reapplied, DeleteDone, workVars
    <3>2. \A id \in RowIds : pc[id] = "none"
      BY <3>1 DEF IInv, SharedInv, WorkersOnlyConfigure
    <3> QED
      BY <3>1, <3>2 DEF MarksReal
  <2> QED
    BY <1>3, <2>1, <2>2, <2>3 DEF PollStep
<1>4. CASE ProcessStep
  <2>1. CASE Exit \/ Crash
    BY <2>1 DEF Exit, Crash, Gone, NoWorkers, MarksReal
  <2>2. CASE Signal \/ Restart
    BY <2>2 DEF Signal, Restart, workVars, nodeVars, MarksReal, ValidatedMeans,
                Prescribed
  <2> QED
    BY <1>4, <2>1, <2>2 DEF ProcessStep
<1>5. CASE EnvironmentStep
  <2>1. UNCHANGED <<file, dev, live, pc, snap, name>>
    BY <1>1, <1>5 DEF EnvironmentStep, workVars, Environment, Editing, InsertRow, EditRow,
                      DeleteRow, Attach, Detach
  <2> QED
    BY <2>1 DEF MarksReal, ValidatedMeans, Prescribed
<1>6. CASE UNCHANGED vars
  BY <1>6 DEF vars, nodeVars, workVars, MarksReal, ValidatedMeans, Prescribed
<1> QED
  BY <1>2, <1>3, <1>4, <1>5, <1>6 DEF Next, AgentStep, MarksReal

-----------------------------------------------------------------------------
\* A worker that writes or removes a file has a reason to, or something failed.
LEMMA FileStepReason ==
  ASSUME IInv, SeqInv, NeedInv, NEW id \in RowIds, NEW m \in MACs, m = snap[id].mac,
         \/ OpenFile(id, "configure") \/ FillFile(id, "try") \/ DropTried(id)
         \/ RollbackRemove(id),
         InForce(m) # Plain, InForce(m)' # InForce(m)
  PROVE  Sync!Due(id, m) \/ Sync!Tried(id, m)
<1>1. /\ NodeTypeOK /\ pc[id] # "none" /\ snap[id] \in Row
      /\ snap[id] # NoRow /\ UNCHANGED <<dev, live, snap, name>>
      /\ Prescribed(id) = [mac |-> m, cfg |-> snap[id].cfg]
  <2>1. pc[id] # "none" /\ UNCHANGED <<dev, live, snap, name>>
    BY DEF OpenFile, FillFile, DropTried, RollbackRemove, Aside
  <2> QED
    BY <2>1, RunnerHolds, MarkerAssumption DEF Prescribed
<1>2. /\ dev[m] \in Slots /\ live[m] = InForce(m)
      /\ file[dev[m]] = [mac |-> m, cfg |-> InForce(m)]
  BY <1>1, InForceMeans
<1>3. dev[m] = name[id]
  <2>1. pc[id] \in NamedPcs
    BY DEF OpenFile, FillFile, DropTried, RollbackRemove, NamedPcs, WrittenPcs
  <2>2. name[id] \in Slots
    BY <2>1 DEF SeqInv, Own, NameHeld
  <2>3. \A x : file' = [file EXCEPT ![name[id]] = x] => dev[m] = name[id]
    BY <1>1, <2>2, FileConcerns
  <2>4. ~UNCHANGED file
    BY <1>1 DEF InForce
  <2> QED
    BY <2>3, <2>4 DEF OpenFile, FillFile, DropTried, RollbackRemove
<1>4. CASE ~Calm
  BY <1>1, <1>4 DEF Sync!Tried, Calm
<1>5. CASE Calm
  <2>1. Need(id)
    BY <1>5 DEF NeedInv, Calm
  <2>2. SUFFICES snap[id].status = "pending" \/ snap[id].cfg # InForce(m)
    BY <1>1 DEF Sync!Due
  <2>3. CASE OpenFile(id, "configure")
    BY <1>1, <1>2, <1>3, <2>1, <2>3 DEF OpenFile, Need
  <2>4. CASE FillFile(id, "try")
    <3>1. file' = [file EXCEPT ![name[id]] = Prescribed(id)]
      BY <1>1, <2>4 DEF FillFile, InForce
    <3>2. file'[dev[m]] = [mac |-> m, cfg |-> snap[id].cfg]
      BY <1>1, <1>2, <1>3, <3>1 DEF NodeTypeOK
    <3>3. snap[id].cfg = InForce(m) => file'[dev'[m]] = [mac |-> m, cfg |-> live'[m]]
      BY <1>1, <1>2, <3>2
    <3>4. snap[id].cfg = InForce(m) => InForce(m)' = InForce(m)
      BY <1>1, <1>2, <3>3 DEF InForce
    <3> QED
      BY <3>4
  <2>5. CASE DropTried(id) \/ RollbackRemove(id)
    BY <1>2, <2>1, <2>5, NodeAssumption DEF DropTried, RollbackRemove, Need
  <2> QED
    BY <2>3, <2>4, <2>5
<1> QED
  BY <1>4, <1>5

LEMMA FileStepSync ==
  ASSUME IInv, SeqInv, NeedInv, NEW id \in RowIds,
         \/ OpenFile(id, "configure") \/ FillFile(id, "try") \/ DropTried(id)
         \/ RollbackRemove(id)
  PROVE  [Sync!Next]_(Sync!vars)
<1>1. /\ NodeTypeOK /\ snap[id].mac \in MACs /\ phase = "configuring"
      /\ UNCHANGED <<rows, snap, phase, dev, live, cancelled>>
      /\ name[id] \in Slots /\ NobodyElse(id)
  <2>1. /\ pc[id] # "none" /\ pc[id] \in NamedPcs
        /\ UNCHANGED <<rows, snap, phase, dev, live, cancelled>>
    BY DEF OpenFile, FillFile, DropTried, RollbackRemove, Aside, NamedPcs, WrittenPcs
  <2> QED
    BY <2>1, RunnerHolds DEF Own, NameHeld
<1>2. Calm' \in {Calm, FALSE}
  BY <1>1, CalmEnds DEF OpenFile, FillFile, DropTried, RollbackRemove
<1>3. CASE UNCHANGED file
  <2>1. UNCHANGED <<Spared, Runs>>
    BY <1>1, <1>3 DEF Spared, Runs, InForce
  <2> QED
    BY <1>1, <1>2, <2>1, StepUnseen
<1>4. CASE ~UNCHANGED file
  <2> SUFFICES ASSUME NEW m \in MACs, m = snap[id].mac
               PROVE  [Sync!Next]_(Sync!vars)
    BY <1>1
  <2>1. Sound /\ \E x : file' = [file EXCEPT ![name[id]] = x]
    BY <1>4 DEF OpenFile, FillFile, DropTried, RollbackRemove
  <2>2. \A n \in MACs : /\ n # m => InForce(n)' = InForce(n)
                        /\ InForce(n)' \in {live[n], Plain}
    BY <1>1, <2>1, FileConcerns DEF NobodyElse
  <2>3. UNCHANGED <<Spared, Calm>>
    BY <1>1, <2>1 DEF Spared, Calm, Sound
  <2>4. CASE InForce(m)' = InForce(m)
    <3>1. UNCHANGED Runs
      BY <2>2, <2>4 DEF Runs
    <3> QED
      BY <1>1, <1>2, <2>3, <3>1, StepUnseen
  <2>5. CASE InForce(m) = Plain
    <3>1. \A n \in MACs : live[n] \in Cfgs \cup {Plain}
      BY <1>1 DEF NodeTypeOK
    <3>2. \A n \in MACs : InForce(n)' \in Cfgs \cup {Plain}
      BY <2>2, <3>1
    <3>3. Runs' \in [MACs -> Cfgs \cup {Plain}]
      BY <3>2 DEF Runs
    <3> QED
      BY <1>1, <1>2, <2>2, <2>3, <2>5, <3>3, StepUp
  <2>6. CASE InForce(m) # Plain /\ InForce(m)' # InForce(m)
    <3>1. InForce(m)' = Plain
      <4>1. live[m] = InForce(m)
        BY <1>1, <2>6, InForceMeans
      <4> QED
        BY <2>2, <2>6, <4>1
    <3>2. Sync!Due(id, m) \/ Sync!Tried(id, m)
      BY <2>6, FileStepReason
    <3> QED
      BY <1>1, <2>2, <2>3, <3>1, <3>2, StepDown
  <2> QED
    BY <2>4, <2>5, <2>6
<1> QED
  BY <1>3, <1>4

\* A worker reports what is so.
LEMMA MarkSync ==
  ASSUME IInv, SeqInv, HistoryInv, NeedInv, MarksReal, NEW id \in RowIds,
         MarkConfigured(id) \/ MarkFailed(id)
  PROVE  [Sync!Next]_(Sync!vars)
<1>1. /\ NodeTypeOK /\ rows \in [RowIds -> Row \cup {NoRow}]
      /\ snap[id] \in Row /\ snap[id] # NoRow /\ name[id] \in Slots \cup {NoSlot}
      /\ phase = "configuring"
      /\ UNCHANGED <<snap, phase, file, dev, live, cancelled>>
  <2>1. pc[id] # "none" /\ UNCHANGED <<snap, phase, file, dev, live, cancelled>>
    BY DEF MarkConfigured, MarkFailed
  <2> QED
    BY <2>1, RunnerHolds, MarkerAssumption DEF NodeTypeOK
<1>2. Calm' \in {Calm, FALSE}
  BY <1>1, CalmEnds DEF MarkConfigured, MarkFailed
<1>3. UNCHANGED <<Spared, Runs>>
  BY <1>1 DEF Spared, Runs, InForce
<1>4. CASE UNCHANGED rows
  BY <1>1, <1>2, <1>3, <1>4, StepUnseen
<1>5. ASSUME NEW st, SetStatus(id, st), ~UNCHANGED rows
      PROVE  Sync!Record(id, st)
  <2>1. rows[id] # NoRow
    BY <1>1, <1>5 DEF SetStatus
  <2>2. rows' = [rows EXCEPT ![id].status = st]
    BY <1>1, <1>5, <2>1 DEF SetStatus
  <2> QED
    BY <1>1, <1>2, <1>3, <2>1, <2>2 DEF Sync!Record, Sync!MayFail, Spared, Runs, Calm
<1>6. CASE MarkConfigured(id) /\ ~UNCHANGED rows
  <2>1. Sync!Record(id, "configured")
    BY <1>5, <1>6 DEF MarkConfigured
  <2>2. ValidatedMeans(id) /\ snap[id].mac \in MACs
    BY <1>1, <1>6 DEF MarkConfigured, MarksReal, Row
  <2>3. InForce(snap[id].mac) = snap[id].cfg
    <3>1. name[id] \in Slots
      BY <1>1, <2>2, NodeAssumption DEF ValidatedMeans, NodeTypeOK
    <3> QED
      BY <2>2, <3>1 DEF ValidatedMeans, InForce, Prescribed
  <2>4. Sync!ReportConfigured(id)
    BY <2>1, <2>2, <2>3 DEF Sync!ReportConfigured
  <2> QED
    BY <2>4 DEF Sync!Next
<1>7. CASE MarkFailed(id) /\ ~UNCHANGED rows
  <2>1. Sync!Record(id, "pending")
    BY <1>5, <1>7 DEF MarkFailed
  <2>2. snap[id].mac \in MACs /\ snap[id].cfg \in Cfgs
    BY <1>1 DEF Row
  <2>3. ASSUME Calm PROVE InForce(snap[id].mac) # snap[id].cfg
    <3>1. rows[id] # NoRow
      BY <2>1 DEF Sync!Record
    <3>2. snap[id].mac \in BadMACs \/ dev[snap[id].mac] = Absent
      BY <1>7, <2>3, <3>1 DEF MarkFailed, NeedInv, Need, Hopeless, Calm
    <3>3. InForce(snap[id].mac) = Plain
      <4> SUFFICES ASSUME InForce(snap[id].mac) # Plain PROVE FALSE
        OBVIOUS
      <4>1. /\ dev[snap[id].mac] \in Slots
            /\ file[dev[snap[id].mac]] \in Content
            /\ file[dev[snap[id].mac]].mac = snap[id].mac
        BY <1>1, <2>2, InForceMeans
      <4> QED
        BY <3>2, <4>1, NodeAssumption DEF HistoryInv, GoodFiles
    <3> QED
      BY <2>2, <3>3, NodeAssumption
  <2>4. Sync!ReportFailed(id)
    BY <2>1, <2>2, <2>3 DEF Sync!ReportFailed, Calm
  <2> QED
    BY <2>4 DEF Sync!Next
<1> QED
  BY <1>4, <1>6, <1>7

LEMMA WorkerSync ==
  ASSUME IInv, IInv', SeqInv, HistoryInv, NeedInv, MarksReal, NEW id \in RowIds, Worker(id)
  PROVE  [Sync!Next]_(Sync!vars)
<1>1. NodeTypeOK /\ NodeTypeOK'
  BY DEF IInv, SharedInv, SharedTypeOK
<1>2. CASE \/ Acquire(id) \/ ReuseName(id) \/ NextName(id) \/ CheckNeed(id) \/ Skip(id)
           \/ Validate(id)
  <2>1. UNCHANGED <<rows, snap, phase, file, dev, live, cancelled>>
    BY <1>2 DEF Acquire, ReuseName, NextName, CheckNeed, Skip, Validate, Aside, nodeVars
  <2>2. Calm' \in {Calm, FALSE}
    BY <1>1, <1>2, <2>1, CalmEnds
       DEF Acquire, ReuseName, NextName, CheckNeed, Skip, Validate, nodeVars, Sound
  <2>3. UNCHANGED <<Spared, Runs>>
    BY <2>1, WorkerRows DEF Spared, Runs, InForce
  <2> QED
    BY <2>1, <2>2, <2>3, StepUnseen
<1>3. CASE TryNetplan(id) \/ ApplyNetplan(id) \/ RollbackApply(id)
  <2>1. /\ UNCHANGED <<rows, snap, phase, file, cancelled>>
        /\ NetplanApplies \/ NetplanFails
    BY <1>3 DEF TryNetplan, ApplyNetplan, RollbackApply, Aside
  <2>2. Calm' \in {Calm, FALSE}
    BY <1>1, <1>3, <2>1, CalmEnds DEF TryNetplan, ApplyNetplan, RollbackApply
  <2>3. UNCHANGED Spared
    BY <2>1, WorkerRows DEF Spared
  <2> QED
    BY <1>1, <2>1, <2>2, <2>3, NetplanBringsUp, StepUp
<1> QED
  BY <1>2, <1>3, FileStepSync, MarkSync DEF Worker, UseCaseStep, AdapterStep

\* The cleanup removes the files of MACs that it did not see in the table.
LEMMA CleanupSync ==
  ASSUME ScanMayFail = FALSE, IInv, IInv', OrphansUnlisted, NoSnaps, CleanupStep
  PROVE  [Sync!Next]_(Sync!vars)
<1>1. /\ NodeTypeOK /\ NodeTypeOK' /\ snap \in [RowIds -> Row \cup {NoRow}]
      /\ file \in [Slots -> Content \cup {NoFile, Truncated}]
  BY DEF IInv, SharedInv, SharedTypeOK, NodeTypeOK
<1>2. /\ UNCHANGED <<rows, snap, cancelled>> /\ phase # "configuring"
      /\ \A id \in RowIds : snap[id] = NoRow
  BY DEF CleanupStep, FindStep, FindOrphans, FindOrphansUnread, FindFails, RemoveOrphan,
         ReapplyNetplan, Reapplied, DeleteDone, workVars, nodeVars, NoSnaps
<1>3. Calm' \in {Calm, FALSE}
  BY <1>1, <1>2, CalmEnds
     DEF CleanupStep, FindStep, FindOrphans, FindOrphansUnread, FindFails, Reads,
         RemoveOrphan, ReapplyNetplan, DeleteDone, nodeVars, Sound
<1>4. CASE FindStep /\ phase' = "deleting"
  <2>1. /\ phase = "cleanup" /\ listed' = MacsOf(Active) /\ UNCHANGED <<file, dev, live>>
    BY <1>4 DEF FindStep, FindOrphans, FindOrphansUnread, FindFails
  <2>2. snap = Sync!Nothing
    BY <1>1, <1>2 DEF Sync!Nothing
  <2>3. Spared' = Sync!ListedMacs
    BY <1>4, <2>1 DEF Spared, Sync!ListedMacs, MacsOf, Active
  <2>4. UNCHANGED Runs
    BY <2>1 DEF Runs, InForce
  <2>5. Sync!ReadListed
    BY <1>2, <1>3, <2>2, <2>3, <2>4
       DEF Sync!ReadListed, Sync!MayFail, Spared, Runs, Calm
  <2> QED
    BY <2>5 DEF Sync!Next
<1>5. CASE FindStep /\ phase' # "deleting"
  <2>1. phase = "cleanup" /\ UNCHANGED <<file, dev, live>>
    BY <1>5 DEF FindStep, FindOrphans, FindOrphansUnread, FindFails
  <2>2. UNCHANGED <<Spared, Runs>>
    BY <1>5, <2>1 DEF Spared, Runs, InForce
  <2> QED
    BY <1>2, <1>3, <2>2, StepUnseen
<1>6. CASE RemoveOrphan(TRUE)
  <2>1. /\ phase = "deleting" /\ NextOrphan \in orphans /\ NextOrphan \in Slots
        /\ UNCHANGED <<phase, listed, dev, live>>
    BY <1>6, LeastSlot
       DEF RemoveOrphan, NextOrphan, workVars, IInv, SharedInv, SharedTypeOK
  <2>2. UNCHANGED Spared
    BY <2>1 DEF Spared
  <2>3. CASE UNCHANGED file
    <3>1. UNCHANGED Runs
      BY <2>1, <2>3 DEF Runs, InForce
    <3> QED
      BY <1>2, <1>3, <2>2, <3>1, StepUnseen
  <2>4. CASE ~UNCHANGED file
    <3>1. Sound /\ file' = [file EXCEPT ![NextOrphan] = NoFile]
      BY <1>6, <2>4 DEF RemoveOrphan
    <3>2. UNCHANGED Calm
      BY <1>2, <3>1 DEF Calm, Sound
    <3>3. \A m \in MACs : dev[m] # NextOrphan => InForce(m)' = InForce(m)
      BY <1>1, <2>1, <3>1, FileConcerns
    <3>4. \A m \in MACs : dev[m] = NextOrphan => InForce(m)' = Plain
      BY <1>1, <2>1, <3>1, MarkerAssumption DEF InForce, NodeTypeOK, Content
    <3>5. CASE \E m \in MACs : dev[m] = NextOrphan /\ InForce(m) # Plain
      <4>1. PICK m \in MACs : dev[m] = NextOrphan /\ InForce(m) # Plain
        BY <3>5
      <4>2. file[NextOrphan] \in Content /\ file[NextOrphan].mac = m
        BY <1>1, <4>1, InForceMeans
      <4>3. m \notin Spared
        BY <2>1, <4>2 DEF OrphansUnlisted, Spared
      <4>4. ASSUME NEW n \in MACs, n # m, dev[n] = NextOrphan PROVE InForce(n) = Plain
        BY <1>1, <4>2, <4>4, InForceMeans
      <4>5. \A n \in MACs : n # m => InForce(n)' = InForce(n)
        BY <3>3, <3>4, <4>4
      <4> QED
        BY <1>2, <2>2, <3>2, <3>4, <4>1, <4>3, <4>5, StepDown
    <3>6. CASE \A m \in MACs : dev[m] = NextOrphan => InForce(m) = Plain
      <4>1. UNCHANGED Runs
        BY <3>3, <3>4, <3>6 DEF Runs
      <4> QED
        BY <1>2, <1>3, <2>2, <4>1, StepUnseen
    <3> QED
      BY <3>5, <3>6
  <2> QED
    BY <2>3, <2>4
<1>7. CASE ReapplyNetplan
  <2>1. UNCHANGED <<phase, listed, file>> /\ (NetplanApplies \/ NetplanFails)
    BY <1>7 DEF ReapplyNetplan, Reapplied, workVars
  <2>2. UNCHANGED Spared
    BY <2>1 DEF Spared
  <2> QED
    BY <1>1, <1>2, <1>3, <2>1, <2>2, NetplanBringsUp, StepUp
<1>8. CASE DeleteDone
  <2>1. phase' = "idle" /\ UNCHANGED <<file, dev, live>>
    BY <1>8 DEF DeleteDone, nodeVars
  <2>2. UNCHANGED Runs /\ Calm' \in BOOLEAN
    BY <2>1 DEF Runs, InForce, Calm
  <2> QED
    BY <1>1, <1>2, <2>1, <2>2, StepEnds
<1> QED
  BY <1>4, <1>5, <1>6, <1>7, <1>8 DEF CleanupStep

LEMMA PollSync ==
  ASSUME ScanMayFail = FALSE, IInv, IInv', OrphansUnlisted, NoSnaps, PollStep
  PROVE  [Sync!Next]_(Sync!vars)
<1>1. /\ NodeTypeOK /\ rows \in [RowIds -> Row \cup {NoRow}]
      /\ snap \in [RowIds -> Row \cup {NoRow}] /\ snap' \in [RowIds -> Row \cup {NoRow}]
  BY DEF IInv, SharedInv, SharedTypeOK, NodeTypeOK
<1>2. CASE StartAPoll
  <2>1. /\ phase = "idle" /\ phase' = "configuring"
        /\ UNCHANGED <<rows, file, dev, live, faults, cancelled>>
        /\ snap' = [id \in RowIds |-> IF id \in Active THEN rows[id] ELSE NoRow]
    BY <1>2 DEF StartAPoll, StartPoll, Reads, ContextHolds, Sound
  <2>2. snap' = rows
    BY <1>1, <2>1 DEF Active
  <2>3. snap = Sync!Nothing
    BY <1>1, <2>1 DEF NoSnaps, Sync!Nothing
  <2>4. UNCHANGED <<Spared, Runs, Calm>>
    BY <2>1 DEF Spared, Runs, InForce, Calm
  <2>5. Sync!ReadRows
    BY <2>1, <2>2, <2>3, <2>4 DEF Sync!ReadRows, Spared, Runs, Calm
  <2> QED
    BY <2>5 DEF Sync!Next
<1>3. CASE PollFails
  <2>1. UNCHANGED <<rows, snap, Spared, Runs, cancelled>>
    BY <1>3 DEF PollFails, workVars, Spared, Runs, InForce
  <2> QED
    BY <1>1, <1>3, <2>1, CalmEnds, StepUnseen DEF PollFails
<1>4. CASE ConfigureDone
  <2>1. /\ phase' = "cleanup" /\ UNCHANGED <<rows, Runs>> /\ Calm' \in BOOLEAN
        /\ \A id \in RowIds : snap'[id] = NoRow
    BY <1>4 DEF ConfigureDone, NoWorkers, nodeVars, Runs, InForce, Calm
  <2> QED
    BY <1>1, <2>1, StepEnds
<1> QED
  BY <1>2, <1>3, <1>4, CleanupSync DEF PollStep

LEMMA ProcessSync ==
  ASSUME IInv, IInv', ProcessStep
  PROVE  [Sync!Next]_(Sync!vars)
<1>1. UNCHANGED <<rows, Runs>> /\ Calm' \in BOOLEAN
  BY DEF ProcessStep, Signal, Exit, Crash, Gone, Restart, nodeVars, Runs, InForce, Calm
<1>2. CASE Signal
  <2>1. UNCHANGED <<snap, Spared>> /\ Calm' = FALSE
    BY <1>2 DEF Signal, workVars, deleteVars, Spared, Calm
  <2> QED
    BY <1>1, <2>1, StepUnseen
<1>3. CASE Exit \/ Crash
  <2>1. phase' = "down" /\ \A id \in RowIds : snap'[id] = NoRow
    BY <1>3 DEF Exit, Crash, Gone, NoWorkers
  <2>2. snap' \in [RowIds -> Row \cup {NoRow}]
    BY DEF IInv, SharedInv, SharedTypeOK
  <2> QED
    BY <1>1, <2>1, <2>2, StepEnds
<1>4. CASE Restart
  <2>1. UNCHANGED <<snap, Spared, Calm>>
    BY <1>4 DEF Restart, nodeVars, deleteVars, Spared, Calm
  <2> QED
    BY <1>1, <2>1, StepUnseen
<1> QED
  BY <1>2, <1>3, <1>4 DEF ProcessStep

LEMMA EditSync ==
  ASSUME MaxPlugs = 0, IInv, HistoryInv, EnvironmentStep
  PROVE  [Sync!Next]_(Sync!vars)
<1>1. NodeTypeOK /\ rows \in [RowIds -> Row \cup {NoRow}] /\ ~(plugs < MaxPlugs)
  BY DEF IInv, SharedInv, SharedTypeOK, NodeTypeOK
<1>2. Editing
  BY <1>1 DEF EnvironmentStep, Environment, Attach, Detach
<1>3. UNCHANGED <<snap, Spared, Runs, Calm>>
  <2>1. UNCHANGED <<file, dev, live, cancelled, faults>>
    BY <1>2 DEF Editing, InsertRow, EditRow, DeleteRow
  <2>2. UNCHANGED <<snap, phase, listed>>
    BY DEF EnvironmentStep, workVars, deleteVars
  <2> QED
    BY <2>1, <2>2 DEF Spared, Runs, InForce, Calm
<1>4. ASSUME NEW id \in RowIds, NEW r \in Row \cup {NoRow},
             rows' = [rows EXCEPT ![id] = r],
             r # NoRow /\ rows[id] = NoRow => r.status = "pending",
             r # NoRow /\ rows[id] # NoRow =>
               /\ r.mac = rows[id].mac /\ r.cfg # rows[id].cfg
               /\ r.status \in {"pending", rows[id].status}
      PROVE  [Sync!Next]_(Sync!vars)
  <2>1. Sync!Edit(id, r)
    BY <1>3, <1>4 DEF Sync!Edit, Spared, Runs, Calm
  <2> QED
    BY <2>1 DEF Sync!Next
<1>5. ASSUME NEW m \in MACs, NEW c \in Cfgs, InsertRow(m, c)
      PROVE  [Sync!Next]_(Sync!vars)
  <2> DEFINE r == [mac |-> m, cfg |-> c, status |-> "pending"]
  <2>1. r \in Row /\ r.status = "pending" /\ rows' = [rows EXCEPT ![nextId] = r]
    BY <1>5 DEF InsertRow, Row
  <2>2. nextId \in RowIds
    BY <1>1, <1>5, NodeAssumption DEF InsertRow, NodeTypeOK, RowIds
  <2>3. rows[nextId] = NoRow
    <3>1. nextId \in Nat
      BY <2>2 DEF RowIds
    <3> QED
      BY <2>2, <3>1 DEF HistoryInv, History
  <2> QED
    BY <1>4, <2>1, <2>2, <2>3
<1>6. ASSUME NEW id \in RowIds, NEW c \in Cfgs, NEW st \in {"pending", "configured"},
             EditRow(id, c, st)
      PROVE  [Sync!Next]_(Sync!vars)
  <2> DEFINE r == [rows[id] EXCEPT !.cfg = c, !.status = st]
  <2>1. rows[id] # NoRow /\ rows[id] \in Row
    BY <1>1, <1>6 DEF EditRow, Active
  <2>2. /\ r \in Row /\ r.mac = rows[id].mac /\ r.cfg = c /\ r.status = st
    BY <2>1 DEF Row
  <2>3. rows' = [rows EXCEPT ![id] = r]
    BY <1>1, <1>6 DEF EditRow
  <2> QED
    BY <1>4, <1>6, <2>1, <2>2, <2>3 DEF EditRow
<1>7. ASSUME NEW id \in RowIds, DeleteRow(id) PROVE [Sync!Next]_(Sync!vars)
  BY <1>4, <1>7 DEF DeleteRow
<1> QED
  BY <1>2, <1>5, <1>6, <1>7 DEF Editing

LEMMA InitSync == Init => Sync!Init /\ NoSnaps /\ MarksReal
<1> SUFFICES ASSUME Init PROVE Sync!Init /\ NoSnaps /\ MarksReal
  OBVIOUS
<1>1. /\ snap = [id \in RowIds |-> NoRow] /\ phase = "idle"
      /\ \A id \in RowIds : pc[id] = "none"
  BY DEF Init, WorkInit, NoWorkers
<1>2. rows \in [RowIds -> {r \in Row : r.status = "pending"} \cup {NoRow}]
  BY DEF Init, NodeInit, Row
<1>3. Runs = [m \in MACs |-> Plain]
  BY DEF Init, NodeInit, Runs, InForce
<1>4. Sync!Init
  BY <1>1, <1>2, <1>3
     DEF Sync!Init, Sync!Nothing, Init, NodeInit, Runs
<1> QED
  BY <1>1, <1>4 DEF NoSnaps, MarksReal

\* One worker, no device comes or goes and every row scans: what the agent does to
\* a node is what NodeSync promises, step by step, whatever the controller,
\* faults, signals and crashes do (configure_network.go:155-247,
\* delete_network.go:54-114).
THEOREM SyncImplemented ==
  ASSUME MaxWorkers = 1, MaxPlugs = 0, ScanMayFail = FALSE
  PROVE  Spec => ImplementsNodeSync
<1> DEFINE Inv == /\ IInv /\ SeqInv /\ NamesApart /\ PlacedInv /\ HistoryInv
                  /\ NeedInv /\ OrphansUnlisted /\ NoSnaps /\ MarksReal
<1>1. Init => Inv /\ Sync!Init
  BY InitIInv, InitSeq, InitPlaced, InitHistory, InitNeed, InitSync
<1>2. Inv /\ [Next]_vars => Inv'
  <2>1. Inv /\ [Next]_vars => /\ IInv' /\ SeqInv' /\ NamesApart' /\ PlacedInv'
                              /\ HistoryInv' /\ NeedInv' /\ OrphansUnlisted'
    BY NextIInv, NextSeq, NextPlaced, NextHistory, NextNeed, CleanupStepSpares
  <2> QED
    BY <2>1, NextNoSnaps, NextMarksReal
<1>3. Inv /\ Inv' /\ [Next]_vars => [Sync!Next]_(Sync!vars)
  <2> SUFFICES ASSUME Inv, Inv', [Next]_vars PROVE [Sync!Next]_(Sync!vars)
    OBVIOUS
  <2>1. ASSUME NEW id \in RowIds, WorkerStep(id) PROVE [Sync!Next]_(Sync!vars)
    BY <2>1, WorkerSync DEF WorkerStep
  <2>2. CASE UNCHANGED vars
    BY <2>2 DEF vars, nodeVars, workVars, deleteVars, Sync!vars, InForce
  <2> QED
    BY <2>1, <2>2, PollSync, ProcessSync, EditSync DEF Next, AgentStep
<1> QED
  BY <1>1, <1>2, <1>3, PTL DEF Spec, ImplementsNodeSync, Sync!Spec
=============================================================================
