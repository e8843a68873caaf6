------------------------------- MODULE NodeSync -------------------------------
(***************************************************************************)
(* What the agent promises the controller of a node: a table of rows on one *)
(* side, on the other the configuration each interface is in force with.    *)
(* Names, files, commands and workers are left out; how they achieve it is  *)
(* in NetplanAgent, which is shown to implement this module when one worker *)
(* runs at a time.                                                          *)
(*                                                                         *)
(* The agent takes an interface out of service only for a reason that it    *)
(* has read from the table, or after something has failed; it reports a row *)
(* configured only while the interface is in force as it read the row; and  *)
(* it takes such a report back only when it is not.                         *)
(***************************************************************************)
CONSTANTS
  MACs, Cfgs, RowIds, Row, NoRow,
  Out           \* an interface that is not in force; no element of Cfgs

VARIABLES
  rows,      \* the table
  seen,      \* the rows of the poll, as it has read them
  spared,    \* the MACs whose interfaces the cleanup must leave alone
  runs,      \* the configuration each interface is in force with
  calm       \* nothing has failed, and the context is not cancelled

vars == <<rows, seen, spared, runs, calm>>

Nothing == [id \in RowIds |-> NoRow]

ListedMacs == {rows[id].mac : id \in {i \in RowIds : rows[i] # NoRow}}

Init ==
  /\ rows \in [RowIds -> {r \in Row : r.status = "pending"} \cup {NoRow}]
  /\ seen = Nothing
  /\ spared = MACs
  /\ runs = [m \in MACs |-> Out]
  /\ calm = TRUE

\* Any operation of the agent may be the one that fails.
MayFail == calm' \in {calm, FALSE}

-----------------------------------------------------------------------------
\* The controller gives a row another configuration, and may leave its status;
\* it inserts rows, which are pending, and deletes them.
Edit(id, r) ==
  /\ r # NoRow /\ rows[id] = NoRow => r.status = "pending"
  /\ r # NoRow /\ rows[id] # NoRow =>
       /\ r.mac = rows[id].mac /\ r.cfg # rows[id].cfg
       /\ r.status \in {"pending", rows[id].status}
  /\ rows' = [rows EXCEPT ![id] = r]
  /\ UNCHANGED <<seen, spared, runs, calm>>

\* A poll reads the rows, and once more for its cleanup.
ReadRows ==
  /\ seen = Nothing
  /\ seen' = rows
  /\ UNCHANGED <<rows, spared, runs, calm>>

ReadListed ==
  /\ seen = Nothing
  /\ spared' = ListedMacs
  /\ MayFail
  /\ UNCHANGED <<rows, seen, runs>>

\* Its end, or that of the process.
Finish ==
  /\ seen' = Nothing
  /\ spared' = MACs
  /\ calm' \in BOOLEAN
  /\ UNCHANGED <<rows, runs>>

Fail ==
  /\ calm' = FALSE
  /\ UNCHANGED <<rows, seen, spared, runs>>

-----------------------------------------------------------------------------
\* What is applied concerns all files: interfaces come into force together,
\* and none that is in force changes.
BringUp ==
  /\ runs' # runs
  /\ \A m \in MACs : runs[m] # Out => runs'[m] = runs[m]
  /\ runs' \in [MACs -> Cfgs \cup {Out}]
  /\ MayFail
  /\ UNCHANGED <<rows, seen, spared>>

\* The row as it was read is not what is in force, or not known to be.
Due(id, m) ==
  /\ seen[id] # NoRow /\ seen[id].mac = m
  /\ seen[id].status = "pending" \/ seen[id].cfg # runs[m]

Tried(id, m) == seen[id] # NoRow /\ seen[id].mac = m /\ ~calm

TakeDown(m) ==
  /\ m \notin spared \/ \E id \in RowIds : Due(id, m) \/ Tried(id, m)
  /\ runs' = [runs EXCEPT ![m] = Out]
  /\ UNCHANGED <<rows, seen, spared, calm>>

\* The outcome goes into the row as it is by then.
Record(id, status) ==
  /\ seen[id] # NoRow /\ rows[id] # NoRow
  /\ rows' = [rows EXCEPT ![id].status = status]
  /\ MayFail
  /\ UNCHANGED <<seen, spared, runs>>

ReportConfigured(id) ==
  Record(id, "configured") /\ runs[seen[id].mac] = seen[id].cfg

ReportFailed(id) ==
  Record(id, "pending") /\ (calm => runs[seen[id].mac] # seen[id].cfg)

Next ==
  \/ \E id \in RowIds, r \in Row \cup {NoRow} : Edit(id, r)
  \/ ReadRows \/ ReadListed \/ Finish \/ Fail
  \/ BringUp
  \/ \E m \in MACs : TakeDown(m)
  \/ \E id \in RowIds : ReportConfigured(id) \/ ReportFailed(id)

Spec == Init /\ [][Next]_vars
=============================================================================
