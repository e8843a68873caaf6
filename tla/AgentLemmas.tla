----------------------------- MODULE AgentLemmas -----------------------------
(***************************************************************************)
(* Lemmas about the steps both kinds of node share: the use cases and the   *)
(* process.  The steps of an adapter come later (NetplanAgentProofs,        *)
(* RHELAgentProofs); here P stands for the states their workers pass        *)
(* through.                                                                 *)
(*                                                                         *)
(* Two parts of the invariant carry the argument.  A worker holds the row   *)
(* it was started for, so what it writes is a file; and workers exist only  *)
(* while the poll configures, so in the cleanup nobody else touches a file. *)
(***************************************************************************)
EXTENDS AgentProcess, TLAPS

CommonPcs == {"none"} \cup UseCasePcs \cup Verdicts

SharedTypeOK(P) ==
  /\ NodeTypeOK
  /\ phase \in Phases
  /\ pc \in [RowIds -> P]
  /\ snap \in [RowIds -> Row \cup {NoRow}]
  /\ name \in [RowIds -> Slots \cup {NoSlot}]
  /\ orphans \in SUBSET Slots
  /\ reapply \in BOOLEAN
  /\ listed \in SUBSET MACs
  /\ StopsTypeOK

WorkersHoldRows == \A id \in RowIds : pc[id] # "none" => snap[id] \in Row

WorkersOnlyConfigure ==
  phase # "configuring" => \A id \in RowIds : pc[id] = "none"

SharedInv(P) == SharedTypeOK(P) /\ WorkersHoldRows /\ WorkersOnlyConfigure

\* What the cleanup works off names no MAC that had a row.
OrphansUnlisted ==
  phase = "deleting" =>
    \A s \in orphans : file[s] \in Content => file[s].mac \notin listed

-----------------------------------------------------------------------------
\* The count of faults never goes down.
LEMMA FaultsGrow ==
  ASSUME NodeTypeOK, Sound \/ Faulty \/ ContextHolds \/ ContextFails
  PROVE  faults' = 0 => faults = 0
BY NodeAssumption
   DEF NodeTypeOK, Sound, Faulty, ContextHolds, ContextFails

\* The least element of a set of slots, which NextName and the cleanup choose.
LEMMA LeastExists ==
  ASSUME NEW S \in SUBSET Slots, S # {}
  PROVE  \E s \in S : \A t \in S : s <= t
<1> SUFFICES ASSUME \A s \in S : \E t \in S : ~(s <= t) PROVE FALSE
  OBVIOUS
<1>1. S \subseteq 0 .. 9
  BY NodeAssumption DEF Slots
<1>2. {0, 1, 2} \cap S = {}
  BY <1>1
<1>3. {3, 4, 5} \cap S = {}
  BY <1>1, <1>2
<1>4. {6, 7, 8, 9} \cap S = {}
  BY <1>1, <1>2, <1>3
<1>5. \A s \in S : s \in {0, 1, 2} \/ s \in {3, 4, 5} \/ s \in {6, 7, 8, 9}
  BY <1>1
<1> QED
  BY <1>2, <1>3, <1>4, <1>5

LEMMA LeastSlot ==
  ASSUME NEW S \in SUBSET Slots, S # {}
  PROVE  (CHOOSE s \in S : \A t \in S : s <= t) \in S
BY LeastExists

\* The bound on faults is kept by every way an operation ends.
LEMMA FaultsBounded ==
  ASSUME NodeTypeOK, Sound \/ Faulty \/ ContextHolds \/ ContextFails
  PROVE  faults' \in 0 .. MaxFaults
BY NodeAssumption
   DEF NodeTypeOK, Sound, Faulty, ContextHolds, ContextFails

\* A step of a worker changes its own place, its name and what it shares.
LEMMA WorkerMoves ==
  ASSUME NEW P, SharedInv(P), NEW id \in RowIds, pc[id] # "none",
         NEW next \in P, next # "none", Goto(id, next),
         rows' \in [RowIds -> Row \cup {NoRow}],
         file' \in [Slots -> Content \cup {NoFile, Truncated}],
         dev' \in [MACs -> Slots \cup {Unnamed, Absent}],
         live' \in [MACs -> Cfgs \cup {Plain}],
         faults' \in 0 .. MaxFaults,
         name' \in [RowIds -> Slots \cup {NoSlot}],
         UNCHANGED <<nextId, cancelled, edits, plugs, phase, snap, deleteVars, stops>>
  PROVE  SharedInv(P)'
<1> USE DEF SharedInv, Goto, deleteVars, stops
<1>1. phase = "configuring" /\ snap[id] \in Row
  BY DEF WorkersOnlyConfigure, WorkersHoldRows
<1>2. SharedTypeOK(P)'
  BY DEF SharedTypeOK, NodeTypeOK, StopsTypeOK
<1>3. WorkersHoldRows'
  BY <1>1 DEF WorkersHoldRows, SharedTypeOK
<1>4. WorkersOnlyConfigure'
  BY <1>1 DEF WorkersOnlyConfigure
<1> QED
  BY <1>2, <1>3, <1>4

-----------------------------------------------------------------------------
LEMMA InitShared ==
  ASSUME NEW P, "none" \in P, NodeInit, WorkInit, DeleteInit, StopsInit
  PROVE  SharedInv(P) /\ OrphansUnlisted
<1>1. rows \in [RowIds -> Row \cup {NoRow}]
  BY DEF NodeInit, Row
<1>2. /\ file \in [Slots -> Content \cup {NoFile, Truncated}]
      /\ dev \in [MACs -> Slots \cup {Unnamed, Absent}]
      /\ live \in [MACs -> Cfgs \cup {Plain}]
  BY DEF NodeInit
<1>b. cancelled \in BOOLEAN /\ reapply \in BOOLEAN
  BY DEF NodeInit, DeleteInit
<1>3. /\ nextId \in 1 .. MaxRows + 1
      /\ edits \in 0 .. MaxEdits /\ plugs \in 0 .. MaxPlugs /\ faults \in 0 .. MaxFaults
  BY NodeAssumption DEF NodeInit
<1>4. /\ pc \in [RowIds -> P]
      /\ snap \in [RowIds -> Row \cup {NoRow}]
      /\ name \in [RowIds -> Slots \cup {NoSlot}]
  BY DEF WorkInit, NoWorkers
<1>5. /\ phase \in Phases
      /\ orphans \in SUBSET Slots /\ listed \in SUBSET MACs
      /\ StopsTypeOK
  BY StopsAssumption DEF WorkInit, Phases, DeleteInit, StopsInit, StopsTypeOK
<1>6. SharedTypeOK(P)
  BY <1>1, <1>2, <1>b, <1>3, <1>4, <1>5 DEF SharedTypeOK, NodeTypeOK
<1> QED
  BY <1>6 DEF SharedInv, WorkersHoldRows, WorkersOnlyConfigure, OrphansUnlisted,
              WorkInit, NoWorkers

\* The steps of the use case a worker takes.
LEMMA UseCaseStepShared ==
  ASSUME NEW P, CommonPcs \subseteq P, SharedInv(P), NEW id \in RowIds,
         UseCaseStep(id), UNCHANGED <<deleteVars, stops>>
  PROVE  SharedInv(P)'
<1> USE DEF CommonPcs, UseCasePcs, Verdicts
<1>1. SharedTypeOK(P) /\ NodeTypeOK
  BY DEF SharedInv, SharedTypeOK
<1>2. CASE Acquire(id)
  BY <1>1, <1>2, WorkerMoves DEF Acquire, nodeVars, SharedTypeOK, NodeTypeOK
<1>3. CASE ReuseName(id)
  <2>1. faults' \in 0 .. MaxFaults
    BY <1>1, <1>3, FaultsBounded DEF ReuseName
  <2>2. name' \in [RowIds -> Slots \cup {NoSlot}]
    BY <1>1, <1>3 DEF ReuseName, Named, SharedTypeOK
  <2> QED
    BY <1>1, <1>3, <2>1, <2>2, WorkerMoves DEF ReuseName, SharedTypeOK, NodeTypeOK
<1>4. CASE NextName(id)
  <2> DEFINE free == {s \in Slots : ~InUse(s)}
  <2>1. free # {} => (CHOOSE s \in free : \A t \in free : s <= t) \in free
    BY LeastSlot
  <2>2. name' \in [RowIds -> Slots \cup {NoSlot}]
    BY <1>1, <1>4, <2>1 DEF NextName, SharedTypeOK
  <2> QED
    BY <1>1, <1>4, <2>2, WorkerMoves DEF NextName, nodeVars, SharedTypeOK, NodeTypeOK
<1>5. CASE CheckNeed(id)
  <2>1. faults' \in 0 .. MaxFaults
    BY <1>1, <1>5, FaultsBounded DEF CheckNeed
  <2> QED
    BY <1>1, <1>5, <2>1, WorkerMoves DEF CheckNeed, SharedTypeOK, NodeTypeOK
<1>6. CASE Skip(id)
  BY <1>1, <1>6, WorkerMoves DEF Skip, nodeVars, SharedTypeOK, NodeTypeOK
<1>7. \A status \in {"pending", "configured"} :
        SetStatus(id, status) => rows' \in [RowIds -> Row \cup {NoRow}]
  BY <1>1 DEF SetStatus, NodeTypeOK, Row
<1>8. CASE MarkConfigured(id)
  <2>1. faults' \in 0 .. MaxFaults
    BY <1>1, <1>8, FaultsBounded DEF MarkConfigured
  <2>2. rows' \in [RowIds -> Row \cup {NoRow}]
    BY <1>1, <1>7, <1>8 DEF MarkConfigured, NodeTypeOK
  <2> QED
    BY <1>1, <1>8, <2>1, <2>2, WorkerMoves DEF MarkConfigured, SharedTypeOK, NodeTypeOK
<1>9. CASE MarkFailed(id)
  <2>1. faults' \in 0 .. MaxFaults
    BY <1>1, <1>9, FaultsBounded DEF MarkFailed
  <2>2. rows' \in [RowIds -> Row \cup {NoRow}]
    BY <1>1, <1>7, <1>9 DEF MarkFailed, NodeTypeOK
  <2> QED
    BY <1>1, <1>9, <2>1, <2>2, WorkerMoves DEF MarkFailed, SharedTypeOK, NodeTypeOK
<1> QED
  BY <1>2, <1>3, <1>4, <1>5, <1>6, <1>8, <1>9 DEF UseCaseStep

\* WriteFile, on behalf of an adapter.
LEMMA OpenFileShared ==
  ASSUME NEW P, {"fill", "rollback"} \subseteq P, SharedInv(P), NEW id \in RowIds,
         NEW from, from # "none", OpenFile(id, from), UNCHANGED <<deleteVars, stops>>
  PROVE  SharedInv(P)'
<1>1. SharedTypeOK(P) /\ NodeTypeOK
  BY DEF SharedInv, SharedTypeOK
<1>2. faults' \in 0 .. MaxFaults
  BY <1>1, FaultsBounded DEF OpenFile
<1>3. file' \in [Slots -> Content \cup {NoFile, Truncated}]
  BY <1>1 DEF OpenFile, NodeTypeOK
<1> QED
  BY <1>1, <1>2, <1>3, WorkerMoves DEF OpenFile, Aside, SharedTypeOK, NodeTypeOK

LEMMA FillFileShared ==
  ASSUME NEW P, "rollback" \in P, SharedInv(P), NEW id \in RowIds,
         NEW next \in P, next # "none", FillFile(id, next),
         UNCHANGED <<deleteVars, stops>>
  PROVE  SharedInv(P)'
<1>1. SharedTypeOK(P) /\ NodeTypeOK
  BY DEF SharedInv, SharedTypeOK
<1>2. faults' \in 0 .. MaxFaults
  BY <1>1, FaultsBounded DEF FillFile
<1>3. Prescribed(id) \in Content
  BY DEF FillFile, SharedInv, WorkersHoldRows, Prescribed, Row, Content
<1>4. file' \in [Slots -> Content \cup {NoFile, Truncated}]
  BY <1>1, <1>3 DEF FillFile, NodeTypeOK
<1> QED
  BY <1>1, <1>2, <1>4, WorkerMoves DEF FillFile, Aside, SharedTypeOK, NodeTypeOK

-----------------------------------------------------------------------------
\* No worker is left behind: what follows a poll starts with none.
LEMMA NoWorkersMeans ==
  ASSUME NEW P, "none" \in P, NoWorkers(pc', snap', name')
  PROVE  /\ pc' \in [RowIds -> P]
         /\ snap' \in [RowIds -> Row \cup {NoRow}]
         /\ name' \in [RowIds -> Slots \cup {NoSlot}]
         /\ \A id \in RowIds : pc'[id] = "none"
BY DEF NoWorkers

LEMMA StartPollShared ==
  ASSUME NEW P, CommonPcs \subseteq P, SharedInv(P), NEW ids \in SUBSET RowIds,
         StartPoll(ids), UNCHANGED <<deleteVars, stops>>
  PROVE  SharedInv(P)'
<1>1. SharedTypeOK(P) /\ NodeTypeOK
  BY DEF SharedInv, SharedTypeOK
<1>2. faults' \in 0 .. MaxFaults
  BY <1>1, FaultsBounded DEF StartPoll, Reads
<1>3. \A id \in ids : rows[id] \in Row
  BY <1>1 DEF StartPoll, Reads, Active, NodeTypeOK
<1>4. /\ pc' \in [RowIds -> P]
      /\ snap' \in [RowIds -> Row \cup {NoRow}]
      /\ name' \in [RowIds -> Slots \cup {NoSlot}]
  BY <1>3 DEF StartPoll, CommonPcs, UseCasePcs
<1>5. NodeTypeOK'
  BY <1>1, <1>2 DEF StartPoll, NodeTypeOK
<1>6. SharedTypeOK(P)'
  BY <1>1, <1>4, <1>5
     DEF StartPoll, SharedTypeOK, Phases, deleteVars, stops, StopsTypeOK
<1>7. WorkersHoldRows'
  BY <1>3 DEF StartPoll, WorkersHoldRows
<1> QED
  BY <1>6, <1>7 DEF SharedInv, StartPoll, WorkersOnlyConfigure

LEMMA PollFailsShared ==
  ASSUME NEW P, SharedInv(P), PollFails, UNCHANGED <<deleteVars, stops>>
  PROVE  SharedInv(P)'
<1>1. faults' \in 0 .. MaxFaults
  BY FaultsBounded DEF PollFails, SharedInv, SharedTypeOK
<1> QED
  BY <1>1
     DEF PollFails, SharedInv, SharedTypeOK, NodeTypeOK, workVars, deleteVars, stops,
         StopsTypeOK, WorkersHoldRows, WorkersOnlyConfigure

LEMMA ConfigureDoneShared ==
  ASSUME NEW P, "none" \in P, SharedInv(P), ConfigureDone,
         UNCHANGED <<deleteVars, stops>>
  PROVE  SharedInv(P)'
<1>1. /\ pc' \in [RowIds -> P]
      /\ snap' \in [RowIds -> Row \cup {NoRow}]
      /\ name' \in [RowIds -> Slots \cup {NoSlot}]
      /\ \A id \in RowIds : pc'[id] = "none"
  BY NoWorkersMeans DEF ConfigureDone
<1> QED
  BY <1>1
     DEF ConfigureDone, Phases, SharedInv, SharedTypeOK, NodeTypeOK, nodeVars,
         deleteVars, stops, StopsTypeOK, WorkersHoldRows, WorkersOnlyConfigure

-----------------------------------------------------------------------------
\* The cleanup.  Its steps leave the workers alone, and there are none.
LEMMA CleanupMoves ==
  ASSUME NEW P, SharedInv(P), phase # "configuring", phase' \in Phases,
         phase' # "configuring",
         file' \in [Slots -> Content \cup {NoFile, Truncated}],
         dev' \in [MACs -> Slots \cup {Unnamed, Absent}],
         live' \in [MACs -> Cfgs \cup {Plain}],
         faults' \in 0 .. MaxFaults,
         orphans' \in SUBSET Slots, reapply' \in BOOLEAN, listed' \in SUBSET MACs,
         UNCHANGED <<rows, nextId, cancelled, edits, plugs, pc, snap, name, stops>>
  PROVE  SharedInv(P)'
BY DEF SharedInv, SharedTypeOK, NodeTypeOK, stops, StopsTypeOK, WorkersHoldRows,
       WorkersOnlyConfigure

LEMMA FindStepShared ==
  ASSUME NEW P, SharedInv(P), FindStep, UNCHANGED stops
  PROVE  SharedInv(P)'
<1>1. SharedTypeOK(P) /\ NodeTypeOK
  BY DEF SharedInv, SharedTypeOK
<1>2. MacsOf(Active) \subseteq MACs
  BY <1>1 DEF MacsOf, Active, NodeTypeOK, Row
<1>3. \A known : Orphaned(known) \subseteq Slots
  BY DEF Orphaned
<1>4. ASSUME NEW ids \in SUBSET RowIds, FindOrphans(ids)
      PROVE  SharedInv(P)'
  <2>1. faults' \in 0 .. MaxFaults
    BY <1>1, <1>4, FaultsBounded DEF FindOrphans, Reads
  <2> QED
    BY <1>1, <1>2, <1>3, <1>4, <2>1, CleanupMoves
       DEF FindOrphans, SharedTypeOK, NodeTypeOK, Phases
<1>5. ASSUME NEW s \in Slots, FindOrphansUnread(s)
      PROVE  SharedInv(P)'
  <2>1. faults' \in 0 .. MaxFaults
    BY <1>1, <1>5, FaultsBounded DEF FindOrphansUnread
  <2> QED
    BY <1>1, <1>2, <1>3, <1>5, <2>1, CleanupMoves
       DEF FindOrphansUnread, SharedTypeOK, NodeTypeOK, Phases
<1>6. CASE FindFails
  <2>1. faults' \in 0 .. MaxFaults
    BY <1>1, <1>6, FaultsBounded DEF FindFails
  <2> QED
    BY <1>1, <1>6, <2>1, CleanupMoves
       DEF FindFails, deleteVars, SharedTypeOK, NodeTypeOK, Phases
<1> QED
  BY <1>4, <1>5, <1>6 DEF FindStep

LEMMA RemoveOrphanShared ==
  ASSUME NEW P, SharedInv(P), NEW b \in BOOLEAN, RemoveOrphan(b), UNCHANGED stops
  PROVE  SharedInv(P)'
<1>1. SharedTypeOK(P) /\ NodeTypeOK
  BY DEF SharedInv, SharedTypeOK
<1>2. faults' \in 0 .. MaxFaults
  BY <1>1, FaultsBounded DEF RemoveOrphan
<1>3. file' \in [Slots -> Content \cup {NoFile, Truncated}]
  BY <1>1 DEF RemoveOrphan, NodeTypeOK
<1>4. reapply' \in BOOLEAN
  BY DEF RemoveOrphan
<1>5. orphans' \in SUBSET Slots /\ listed' \in SUBSET MACs
  BY <1>1 DEF RemoveOrphan, SharedTypeOK
<1> QED
  BY <1>1, <1>2, <1>3, <1>4, <1>5, CleanupMoves
     DEF RemoveOrphan, workVars, SharedTypeOK, NodeTypeOK, Phases

\* The second half of an adapter's Rollback, whatever it does to the devices.
LEMMA ReappliedShared ==
  ASSUME NEW P, SharedInv(P), Reapplied, UNCHANGED stops,
         dev' \in [MACs -> Slots \cup {Unnamed, Absent}],
         live' \in [MACs -> Cfgs \cup {Plain}],
         faults' \in 0 .. MaxFaults
  PROVE  SharedInv(P)'
<1>1. SharedTypeOK(P) /\ NodeTypeOK
  BY DEF SharedInv, SharedTypeOK
<1>2. reapply' \in BOOLEAN
  BY DEF Reapplied
<1> QED
  BY <1>1, <1>2, CleanupMoves DEF Reapplied, workVars, SharedTypeOK, NodeTypeOK, Phases

LEMMA DeleteDoneShared ==
  ASSUME NEW P, SharedInv(P), DeleteDone, UNCHANGED stops
  PROVE  SharedInv(P)'
BY CleanupMoves DEF DeleteDone, nodeVars, SharedInv, SharedTypeOK, NodeTypeOK, Phases

-----------------------------------------------------------------------------
LEMMA SignalShared ==
  ASSUME NEW P, SharedInv(P), Signal
  PROVE  SharedInv(P)'
<1>1. signals' \in 0 .. MaxSignals
  BY StopsAssumption DEF Signal, SharedInv, SharedTypeOK, StopsTypeOK
<1>2. cancelled' \in BOOLEAN
  BY DEF Signal
<1> QED
  BY <1>1, <1>2
     DEF Signal, workVars, deleteVars, SharedInv, SharedTypeOK, NodeTypeOK, StopsTypeOK,
         WorkersHoldRows, WorkersOnlyConfigure

LEMMA GoneShared ==
  ASSUME NEW P, "none" \in P, SharedInv(P), Gone, StopsTypeOK'
  PROVE  SharedInv(P)'
<1>1. /\ pc' \in [RowIds -> P]
      /\ snap' \in [RowIds -> Row \cup {NoRow}]
      /\ name' \in [RowIds -> Slots \cup {NoSlot}]
      /\ \A id \in RowIds : pc'[id] = "none"
  BY NoWorkersMeans DEF Gone
<1>2. cancelled' \in BOOLEAN /\ reapply' \in BOOLEAN
  BY DEF Gone
<1> QED
  BY <1>1, <1>2
     DEF Gone, Phases, SharedInv, SharedTypeOK, NodeTypeOK, WorkersHoldRows,
         WorkersOnlyConfigure

LEMMA ProcessShared ==
  ASSUME NEW P, "none" \in P, SharedInv(P), Signal \/ Exit \/ Crash \/ Restart
  PROVE  SharedInv(P)'
<1>1. StopsTypeOK
  BY DEF SharedInv, SharedTypeOK
<1>2. CASE Signal
  BY <1>2, SignalShared
<1>3. CASE Exit
  BY <1>1, <1>3, GoneShared DEF Exit, stops, StopsTypeOK
<1>4. CASE Crash
  <2>1. StopsTypeOK'
    BY <1>1, <1>4, StopsAssumption DEF Crash, StopsTypeOK
  <2> QED
    BY <1>4, <2>1, GoneShared DEF Crash
<1>5. CASE Restart
  BY <1>5
     DEF Restart, nodeVars, deleteVars, stops, Phases, SharedInv, SharedTypeOK,
         NodeTypeOK, StopsTypeOK, WorkersHoldRows, WorkersOnlyConfigure
<1> QED
  BY <1>2, <1>3, <1>4, <1>5

\* What the surroundings do changes nothing the use cases hold.
LEMMA OutsideMoves ==
  ASSUME NEW P, SharedInv(P), NodeTypeOK', UNCHANGED <<workVars, deleteVars, stops>>
  PROVE  SharedInv(P)'
BY DEF workVars, deleteVars, stops, SharedInv, SharedTypeOK, StopsTypeOK,
       WorkersHoldRows, WorkersOnlyConfigure

LEMMA EditingTyped ==
  ASSUME NodeTypeOK, Editing
  PROVE  NodeTypeOK'
<1>1. ASSUME NEW m \in MACs, NEW c \in Cfgs, InsertRow(m, c)
      PROVE  NodeTypeOK'
  <2>1. [mac |-> m, cfg |-> c, status |-> "pending"] \in Row
    BY DEF Row
  <2>2. nextId' \in 1 .. MaxRows + 1 /\ edits' \in 0 .. MaxEdits
    BY <1>1, NodeAssumption DEF InsertRow, NodeTypeOK
  <2> QED
    BY <1>1, <2>1, <2>2 DEF InsertRow, NodeTypeOK
<1>2. ASSUME NEW id \in RowIds, NEW c \in Cfgs, NEW st \in {"pending", "configured"},
             EditRow(id, c, st)
      PROVE  NodeTypeOK'
  <2>1. rows[id] \in Row
    BY <1>2 DEF EditRow, Active, NodeTypeOK
  <2>2. [rows[id] EXCEPT !.cfg = c, !.status = st] \in Row
    BY <2>1 DEF Row
  <2>3. edits' \in 0 .. MaxEdits
    BY <1>2, NodeAssumption DEF EditRow, NodeTypeOK
  <2>4. rows' \in [RowIds -> Row \cup {NoRow}]
    BY <1>2, <2>2 DEF EditRow, NodeTypeOK
  <2> QED
    BY <1>2, <2>3, <2>4 DEF EditRow, NodeTypeOK
<1>3. ASSUME NEW id \in RowIds, DeleteRow(id)
      PROVE  NodeTypeOK'
  <2>1. edits' \in 0 .. MaxEdits
    BY <1>3, NodeAssumption DEF DeleteRow, NodeTypeOK
  <2> QED
    BY <1>3, <2>1 DEF DeleteRow, NodeTypeOK
<1> QED
  BY <1>1, <1>2, <1>3 DEF Editing

LEMMA DetachTyped ==
  ASSUME NodeTypeOK, NEW m \in MACs, Detach(m)
  PROVE  NodeTypeOK'
<1>1. plugs' \in 0 .. MaxPlugs
  BY NodeAssumption DEF Detach, NodeTypeOK
<1> QED
  BY <1>1 DEF Detach, NodeTypeOK

-----------------------------------------------------------------------------
\* If every row scanned, the list of orphans is made of MACs without a row, and
\* nobody changes a file on it before the cleanup does.
LEMMA FindStepUnlisted ==
  ASSUME NodeTypeOK, ScanMayFail = FALSE \/ faults' = 0, FindStep
  PROVE  OrphansUnlisted'
<1>1. ASSUME NEW ids \in SUBSET RowIds, FindOrphans(ids)
      PROVE  OrphansUnlisted'
  <2>1. ids = Active
    BY <1>1, NodeAssumption DEF FindOrphans, Reads, Faulty, NodeTypeOK
  <2> QED
    BY <1>1, <2>1 DEF FindOrphans, Orphaned, OrphansUnlisted
<1>2. ASSUME NEW s \in Slots, FindOrphansUnread(s)
      PROVE  OrphansUnlisted'
  BY <1>2 DEF FindOrphansUnread, Orphaned, OrphansUnlisted
<1>3. CASE FindFails
  BY <1>3 DEF FindFails, OrphansUnlisted
<1> QED
  BY <1>1, <1>2, <1>3 DEF FindStep

\* It takes away a file, and only one of the list.
LEMMA RemoveOrphanUnlisted ==
  ASSUME NEW P, SharedInv(P), OrphansUnlisted, NEW b \in BOOLEAN, RemoveOrphan(b)
  PROVE  /\ OrphansUnlisted'
         /\ \A s \in Slots : file'[s] # file[s] => s \in orphans
<1>1. NextOrphan \in orphans
  BY LeastSlot DEF RemoveOrphan, NextOrphan, SharedInv, SharedTypeOK
<1>2. file \in [Slots -> Content \cup {NoFile, Truncated}] /\ orphans \subseteq Slots
  BY DEF SharedInv, SharedTypeOK, NodeTypeOK
<1>3. \A s \in Slots : file'[s] # file[s] => s = NextOrphan
  BY <1>1, <1>2 DEF RemoveOrphan
<1>4. \A s \in Slots : file'[s] = file[s] \/ file'[s] = NoFile
  BY <1>2 DEF RemoveOrphan
<1>5. NoFile \notin Content
  BY MarkerAssumption
<1>6. OrphansUnlisted'
  BY <1>2, <1>4, <1>5 DEF RemoveOrphan, workVars, OrphansUnlisted
<1> QED
  BY <1>1, <1>3, <1>6

\* Every other step either leaves the list and the files alone or ends it.
LEMMA OthersUnlisted ==
  ASSUME OrphansUnlisted,
         \/ phase' # "deleting"
         \/ UNCHANGED <<phase, orphans, listed, file>>
  PROVE  OrphansUnlisted'
BY DEF OrphansUnlisted
=============================================================================
