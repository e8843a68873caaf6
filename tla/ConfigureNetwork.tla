--------------------------- MODULE ConfigureNetwork ---------------------------
(***************************************************************************)
(* ConfigureNetworkUseCase: one poll reads the rows of the node and starts  *)
(* a worker for each; at most MaxWorkers hold a slot of the semaphore       *)
(* (WorkerPool has the machinery).  A worker names its interface, decides   *)
(* whether the row needs work, has the adapter configure and validate it,   *)
(* and records the outcome in the table.  The states "configure",           *)
(* "validate" and "rollback" are the calls into the adapter                 *)
(* (NetplanAdapter or RHELAdapter).                                         *)
(***************************************************************************)
EXTENDS NodeState

CONSTANT MaxWorkers   \* maxConcurrentTasks, raised to 1 when not positive

ASSUME ConfigureAssumption == MaxWorkers \in Nat \ {0}

VARIABLES
  phase,   \* what the poll loop does
  pc,      \* the worker of each row, or how its row ended
  snap,    \* the row as this poll read it
  name     \* the interface name the worker has chosen

workVars == <<phase, pc, snap, name>>

Phases   == {"idle", "configuring", "cleanup", "deleting", "down"}
Verdicts == {"processed", "failed", "skipped"}
UseCasePcs == {"queued", "reuse", "next", "check", "configure", "fill",
               "validate", "rollback", "mark", "markFailed"}

\* A worker that has not got a slot of the semaphore yet, or has ended.
Outside == {"none", "queued"} \cup Verdicts
Running == {id \in RowIds : pc[id] \notin Outside}

\* The file Configure would write for the row.
Prescribed(id) == [mac |-> snap[id].mac, cfg |-> snap[id].cfg]

\* No worker exists: their locals are gone.
NoWorkers(p, r, n) ==
  /\ p = [id \in RowIds |-> "none"]
  /\ r = [id \in RowIds |-> NoRow]
  /\ n = [id \in RowIds |-> NoSlot]

WorkInit ==
  /\ phase = "idle"
  /\ NoWorkers(pc, snap, name)

Goto(id, next) == pc' = [pc EXCEPT ![id] = next]

-----------------------------------------------------------------------------
\* The poll begins: GetAllNodeInterfaces, then one goroutine for each row.
StartPoll(ids) ==
  /\ phase = "idle"
  /\ Reads(ids)
  /\ phase' = "configuring"
  /\ snap' = [id \in RowIds |-> IF id \in ids THEN rows[id] ELSE NoRow]
  /\ pc' = [id \in RowIds |-> IF id \in ids THEN "queued" ELSE "none"]
  /\ name' = [id \in RowIds |-> NoSlot]
  /\ UNCHANGED <<rows, nextId, file, dev, live, cancelled, edits, plugs>>

\* The host name or the query fails: Execute returns the error, and the
\* cleanup of this poll is skipped.
PollFails ==
  /\ phase = "idle"
  /\ ContextFails
  /\ UNCHANGED <<rows, nextId, file, dev, live, cancelled, edits, plugs, workVars>>

CanAcquire == Cardinality(Running) < MaxWorkers

Acquire(id) ==
  /\ pc[id] = "queued"
  /\ CanAcquire
  /\ Goto(id, "reuse")
  /\ UNCHANGED <<nodeVars, phase, snap, name>>

\* A device is found by any name it has, not only by multinic<n>.
NamedAnyhow(m) == dev[m] # Absent

\* No slot is ever recognised: an exact comparison of MACs in other letters.
NamedNever(m) == FALSE

Named(m) == dev[m] \in Slots

\* GenerateNextNameForMAC, first half: the slot whose device has this MAC.
\* The lookup has a context of its own; when it fails, its error is dropped
\* and the slot is taken for another's.
ReuseName(id) ==
  /\ pc[id] = "reuse"
  /\ \/ /\ Named(snap[id].mac)
        /\ Sound
        /\ name' = [name EXCEPT ![id] = dev[snap[id].mac]]
        /\ Goto(id, "check")
     \/ /\ IF Named(snap[id].mac) THEN Faulty ELSE Sound
        /\ Goto(id, "next")
        /\ UNCHANGED name
  /\ UNCHANGED <<rows, nextId, file, dev, live, cancelled, edits, plugs, phase, snap>>

\* The name is occupied by a file rather than by a device.
InUseIfFiled(s) == file[s] # NoFile

\* Only the devices of the table's rows occupy a name.
InUseByRow(s) == \E id \in Active : dev[rows[id].mac] = s

\* isInterfaceInUse: any device of that name, and only a device.
InUse(s) == \E m \in MACs : dev[m] = s

\* GenerateNextName: the first name no device has.  Nothing reserves it.
NextName(id) ==
  /\ pc[id] = "next"
  /\ LET free == {s \in Slots : ~InUse(s)}
     IN  IF free = {}
         THEN Goto(id, "failed") /\ UNCHANGED name
         ELSE /\ name' = [name EXCEPT ![id] =
                            CHOOSE s \in free : \A t \in free : s <= t]
              /\ Goto(id, "check")
  /\ UNCHANGED <<nodeVars, phase, snap>>

\* Drift is noticed only when the file is missing or unreadable.
NeedsIgnoringDrift(id) ==
  \/ file[name[id]] \notin Content
  \/ snap[id].status = "pending"

\* Every poll configures every row again.
NeedsAlways(id) == TRUE

\* checkNetplanNeedProcessing and checkRHELNeedProcessing: the file is missing,
\* drifted (it cannot be read or parsed, has another MAC or other values), or the
\* row is not configured yet.
NeedsProcessing(id) ==
  \/ file[name[id]] # Prescribed(id)
  \/ snap[id].status = "pending"

\* The check, and the first step of processInterface: iface.Validate.  A read
\* that fails counts as drift.
CheckNeed(id) ==
  /\ pc[id] = "check"
  /\ \/ NeedsProcessing(id) /\ Sound
     \/ ~NeedsProcessing(id) /\ Faulty
  /\ Goto(id, IF snap[id].mac \in BadMACs THEN "markFailed" ELSE "configure")
  /\ UNCHANGED <<rows, nextId, file, dev, live, cancelled, edits, plugs, phase, snap,
                 name>>

Skip(id) ==
  /\ pc[id] = "check"
  /\ ~NeedsProcessing(id)
  /\ Goto(id, "skipped")
  /\ UNCHANGED <<nodeVars, phase, snap, name>>

-----------------------------------------------------------------------------
\* What no step of an adapter changes.
Aside == <<rows, nextId, cancelled, edits, plugs, phase, snap, name>>

\* Both adapters write with WriteFile, which opens the file and empties it ...
OpenFile(id, from) ==
  /\ pc[id] = from
  /\ \/ /\ Sound
        /\ file' = [file EXCEPT ![name[id]] = Truncated]
        /\ Goto(id, "fill")
     \/ /\ Faulty
        /\ Goto(id, "rollback")
        /\ UNCHANGED file
  /\ UNCHANGED <<Aside, dev, live>>

\* ... and writes it.  An error leaves it empty.
FillFile(id, next) ==
  /\ pc[id] = "fill"
  /\ \/ /\ Sound
        /\ file' = [file EXCEPT ![name[id]] = Prescribed(id)]
        /\ Goto(id, next)
     \/ /\ Faulty
        /\ Goto(id, "rollback")
        /\ UNCHANGED file
  /\ UNCHANGED <<Aside, dev, live>>

-----------------------------------------------------------------------------
\* UpdateInterfaceStatus touches the row by id, on whatever node it is; what
\* becomes of a row that has left this node is not recorded here.
SetStatus(id, status) ==
  rows' = [rows EXCEPT ![id] = IF @ = NoRow THEN NoRow
                               ELSE [@ EXCEPT !.status = status]]

\* The outcome "configured".  If it cannot be recorded, or its answer is lost,
\* the row fails.  A row that has left this node was deleted, and is NotFound,
\* or was moved, and is found all the same.
MarkConfigured(id) ==
  /\ pc[id] = "mark"
  /\ \/ /\ ContextHolds
        /\ SetStatus(id, "configured")
        /\ \/ Goto(id, "processed")
           \/ rows[id] = NoRow /\ Goto(id, "markFailed")
     \/ /\ ContextFails
        /\ Goto(id, "markFailed")
        /\ UNCHANGED rows \/ SetStatus(id, "configured")
  /\ UNCHANGED <<nextId, file, dev, live, cancelled, edits, plugs, phase, snap, name>>

\* handleProcessingError: the row goes back to pending if the update works,
\* and the worker has failed either way.
MarkFailed(id) ==
  /\ pc[id] = "markFailed"
  /\ \/ ContextHolds /\ SetStatus(id, "pending")
     \/ ContextFails /\ (UNCHANGED rows \/ SetStatus(id, "pending"))
  /\ Goto(id, "failed")
  /\ UNCHANGED <<nextId, file, dev, live, cancelled, edits, plugs, phase, snap, name>>

AllEnded == \A id \in RowIds : pc[id] \in Verdicts \cup {"none"}

\* wg.Wait returns and so does Execute.
ConfigureDone ==
  /\ phase = "configuring"
  /\ AllEnded
  /\ phase' = "cleanup"
  /\ NoWorkers(pc', snap', name')
  /\ UNCHANGED nodeVars

UseCaseStep(id) ==
  \/ Acquire(id)
  \/ ReuseName(id)
  \/ NextName(id)
  \/ CheckNeed(id)
  \/ Skip(id)
  \/ MarkConfigured(id)
  \/ MarkFailed(id)

-----------------------------------------------------------------------------
\* What Validate stands for: the device of the row carries the name, the file
\* of that name is the row's, and the device runs with it.
ValidatedMeans(id) ==
  /\ dev[snap[id].mac] = name[id]
  /\ file[name[id]] = Prescribed(id)
  /\ live[snap[id].mac] = snap[id].cfg

\* The file of an interface that is up under its name, and another row's than
\* the one the worker is for.
InService(s, id) ==
  /\ file[s] \in Content
  /\ dev[file[s].mac] = s
  /\ snap[id] # NoRow
  /\ file[s].mac # snap[id].mac

\* No MAC has the files of two names.
OneFileEach ==
  \A s, t \in Slots : s # t /\ file[s] \in Content /\ file[t] \in Content
                       => file[s].mac # file[t].mac

\* What the worker knows of the row is still so.
SnapshotCurrent(id) == snap[id] = NoRow \/ snap[id].cfg = rows[id].cfg
=============================================================================
