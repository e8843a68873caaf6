------------------------------ MODULE NodeState ------------------------------
(***************************************************************************)
(* What the agent reads and changes on a node: the rows of table            *)
(* multi_interface for this node, the configuration file of each name       *)
(* (9<n>-multinic<n>.yaml of /etc/netplan, or ifcfg-multinic<n>), and the   *)
(* name and the settings of each network device.  It also holds what the    *)
(* surroundings of either kind of node do: the controller that edits the    *)
(* table, devices that disappear, and the ways an operation can fail.       *)
(* Netplan and NetworkManager have modules of their own.                    *)
(***************************************************************************)
EXTENDS Naturals, FiniteSets

CONSTANTS
  MACs,         \* MAC addresses of the node's devices
  BadMACs,      \* those NetworkInterface.Validate refuses
  Cfgs,         \* what a row prescribes: address, CIDR and MTU as one value
  NumSlots,     \* names multinic0 .. multinic<NumSlots-1>; 10 in the code
  MaxRows,      \* bound: rows ever inserted
  MaxEdits,     \* bound: edits of the table while the agent runs
  MaxPlugs,     \* bound: devices attached or detached while the agent runs
  MaxFaults,    \* bound: operations that fail for no reason of the agent's
  ScanMayFail,  \* may a row of a query fail to scan?
  InitAbsent,   \* devices that are absent at first
  NoRow, NoFile, Truncated, Unnamed, Absent, NoSlot, Plain

Slots  == 0 .. NumSlots - 1
RowIds == 1 .. MaxRows

ASSUME NodeAssumption ==
  /\ IsFiniteSet(MACs)
  /\ BadMACs \subseteq MACs
  /\ InitAbsent \subseteq MACs
  /\ NumSlots \in 1 .. 10
  /\ MaxRows \in Nat
  /\ MaxEdits \in Nat
  /\ MaxPlugs \in Nat
  /\ MaxFaults \in Nat
  /\ ScanMayFail \in BOOLEAN
  /\ {Unnamed, Absent, NoSlot} \cap Slots = {}
  /\ Unnamed # Absent /\ NoSlot \notin {Unnamed, Absent}
  /\ Plain \notin Cfgs

\* StatusFailed is stored as netplan_success = 0 and read back as pending.
Row     == [mac : MACs, cfg : Cfgs, status : {"pending", "configured"}]
Content == [mac : MACs, cfg : Cfgs]

ASSUME MarkerAssumption ==
  /\ NoRow \notin Row
  /\ {NoFile, Truncated} \cap Content = {}
  /\ NoFile # Truncated

VARIABLES
  rows,       \* the table, by id
  nextId,     \* AUTO_INCREMENT
  file,       \* the file of each slot; Truncated: empty
  dev,        \* the name of each device: a slot, Unnamed, or Absent
  live,       \* the settings each device runs with; Plain: none of a row's
  cancelled,  \* has the context of the agent been cancelled?
  edits, plugs, faults   \* how much of each bound is used

nodeVars == <<rows, nextId, file, dev, live, cancelled, edits, plugs, faults>>

Active == {id \in RowIds : rows[id] # NoRow}
MacsOf(ids) == {rows[id].mac : id \in ids}

NodeTypeOK ==
  /\ rows \in [RowIds -> Row \cup {NoRow}]
  /\ nextId \in 1 .. MaxRows + 1
  /\ file \in [Slots -> Content \cup {NoFile, Truncated}]
  /\ dev \in [MACs -> Slots \cup {Unnamed, Absent}]
  /\ live \in [MACs -> Cfgs \cup {Plain}]
  /\ cancelled \in BOOLEAN
  /\ edits \in 0 .. MaxEdits
  /\ plugs \in 0 .. MaxPlugs
  /\ faults \in 0 .. MaxFaults

\* The agent starts on a node it has not configured yet, with some rows in
\* the table.
NodeInit ==
  /\ nextId \in 1 .. MaxRows + 1
  /\ rows \in [RowIds -> [mac : MACs, cfg : Cfgs, status : {"pending"}]
                           \cup {NoRow}]
  /\ \A id \in RowIds : rows[id] # NoRow <=> id < nextId
  /\ \A i, j \in RowIds :
       i # j /\ rows[i] # NoRow /\ rows[j] # NoRow => rows[i].mac # rows[j].mac
  /\ file = [s \in Slots |-> NoFile]
  /\ dev = [m \in MACs |-> IF m \in InitAbsent THEN Absent ELSE Unnamed]
  /\ live = [m \in MACs |-> Plain]
  /\ cancelled = FALSE
  /\ edits = 0
  /\ plugs = 0
  /\ faults = 0

-----------------------------------------------------------------------------
\* Faults.  A command and a query carry the context, and fail when it is
\* cancelled; a file operation fails by itself only.
Faulty   == faults < MaxFaults /\ faults' = faults + 1
Sound    == UNCHANGED faults
ContextFails == IF cancelled THEN UNCHANGED faults ELSE Faulty
ContextHolds == ~cancelled /\ Sound

\* GetAllNodeInterfaces: a row that cannot be scanned is logged and left out.
Reads(ids) ==
  \/ ContextHolds /\ ids = Active
  \/ /\ ScanMayFail
     /\ ~cancelled
     /\ Faulty
     /\ \E id \in Active : ids = Active \ {id}

-----------------------------------------------------------------------------
\* The slots whose file is for a MAC, and those of them no device has.
Wanted(files, m) == {s \in Slots : files[s] \in Content /\ files[s].mac = m}

FreeFor(m) == {s \in Wanted(file, m) : \A n \in MACs : dev[n] # s}

-----------------------------------------------------------------------------
\* The controller.  An edit may or may not reset netplan_success.
InsertRow(m, c) ==
  /\ edits < MaxEdits
  /\ nextId <= MaxRows
  /\ m \notin MacsOf(Active)
  /\ rows' = [rows EXCEPT ![nextId] = [mac |-> m, cfg |-> c, status |-> "pending"]]
  /\ nextId' = nextId + 1
  /\ edits' = edits + 1
  /\ UNCHANGED <<file, dev, live, cancelled, plugs, faults>>

EditRow(id, c, status) ==
  /\ edits < MaxEdits
  /\ id \in Active
  /\ rows[id].cfg # c
  /\ status \in {rows[id].status, "pending"}
  /\ rows' = [rows EXCEPT ![id].cfg = c, ![id].status = status]
  /\ edits' = edits + 1
  /\ UNCHANGED <<nextId, file, dev, live, cancelled, plugs, faults>>

\* The row is deleted or moved to another node: no query of this node returns
\* it any more.
DeleteRow(id) ==
  /\ edits < MaxEdits
  /\ id \in Active
  /\ rows' = [rows EXCEPT ![id] = NoRow]
  /\ edits' = edits + 1
  /\ UNCHANGED <<nextId, file, dev, live, cancelled, plugs, faults>>

Detach(m) ==
  /\ plugs < MaxPlugs
  /\ dev[m] # Absent
  /\ dev' = [dev EXCEPT ![m] = Absent]
  /\ live' = [live EXCEPT ![m] = Plain]
  /\ plugs' = plugs + 1
  /\ UNCHANGED <<rows, nextId, file, cancelled, edits, faults>>

Editing ==
  \/ \E m \in MACs, c \in Cfgs : InsertRow(m, c)
  \/ \E id \in RowIds, c \in Cfgs, st \in {"pending", "configured"} :
       EditRow(id, c, st)
  \/ \E id \in RowIds : DeleteRow(id)

-----------------------------------------------------------------------------
\* The node is what the table says: every device of an active row has a
\* multinic name and runs with the row's configuration, the file and the table
\* say so too, and no other MAC has a file.
RowServed(id) ==
  \E s \in Slots : /\ dev[rows[id].mac] = s
                   /\ file[s] = [mac |-> rows[id].mac, cfg |-> rows[id].cfg]
                   /\ live[rows[id].mac] = rows[id].cfg
                   /\ rows[id].status = "configured"

Converged ==
  /\ \A id \in Active :
       dev[rows[id].mac] # Absent /\ rows[id].mac \notin BadMACs => RowServed(id)
  /\ \A s \in Slots : file[s] \in Content => file[s].mac \in MacsOf(Active)
=============================================================================
