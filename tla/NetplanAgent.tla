----------------------------- MODULE NetplanAgent -----------------------------
(***************************************************************************)
(* The agent on a netplan node: its polls (ConfigureNetwork with            *)
(* NetplanAdapter, then DeleteNetwork) and its process, while the           *)
(* controller edits the table, devices come and go and operations fail.     *)
(***************************************************************************)
EXTENDS NetplanAdapter, AgentProcess

vars  == <<nodeVars, workVars, deleteVars, stops>>

TypeOK ==
  /\ NodeTypeOK
  /\ phase \in Phases
  /\ pc \in [RowIds -> Pcs]
  /\ snap \in [RowIds -> Row \cup {NoRow}]
  /\ name \in [RowIds -> Slots \cup {NoSlot}]
  /\ orphans \in SUBSET Slots
  /\ reapply \in BOOLEAN
  /\ listed \in SUBSET MACs
  /\ StopsTypeOK

Init == NodeInit /\ WorkInit /\ DeleteInit /\ StopsInit

-----------------------------------------------------------------------------
ReapplyNetplan ==
  /\ \/ ContextHolds /\ NetplanApplies
     \/ ContextFails /\ NetplanFails
  /\ Reapplied

CleanupStep == FindStep \/ RemoveOrphan(TRUE) \/ ReapplyNetplan \/ DeleteDone

WorkerStep(id) == Worker(id) /\ UNCHANGED <<deleteVars, stops>>

PollStep ==
  \/ (StartAPoll \/ PollFails \/ ConfigureDone) /\ UNCHANGED <<deleteVars, stops>>
  \/ CleanupStep /\ UNCHANGED stops

AgentStep == PollStep \/ \E id \in RowIds : WorkerStep(id)

ProcessStep == Signal \/ Exit \/ Crash \/ Restart

EnvironmentStep == Environment /\ UNCHANGED <<workVars, deleteVars, stops>>

Next == AgentStep \/ ProcessStep \/ EnvironmentStep

Spec == Init /\ [][Next]_vars

\* What goes on by itself: the poll loop (its ticker fires again after every
\* poll), each goroutine, the return after a signal, the kubelet's restart.
\* The environment and the faults owe nothing.
FairSpec ==
  /\ Spec
  /\ WF_vars((StartAPoll \/ ConfigureDone) /\ UNCHANGED <<deleteVars, stops>>)
  /\ WF_vars(CleanupStep /\ UNCHANGED stops)
  /\ \A id \in RowIds : WF_vars(WorkerStep(id))
  /\ WF_vars(Exit \/ Restart)

-----------------------------------------------------------------------------
\* Validate reports success only for the interface it was called for: the
\* device of the row carries the name, the file of that name is the row's, and
\* the device runs with it
\* (configure_network.go:173-186, netplan_adapter.go:92-106).
ValidatedIsReal ==
  [][\A id \in RowIds :
       pc[id] = "validate" /\ pc'[id] = "mark" => ValidatedMeans(id)]_vars

\* A worker leaves alone the file of an interface that is up under that name
\* and belongs to another row (interface_naming.go:36-72,
\* netplan_adapter.go:45-60,109-118).
OthersKeepTheirFiles ==
  [][\A id \in RowIds, s \in Slots :
       pc'[id] # pc[id] /\ phase' = "configuring" /\ InService(s, id)
         => file'[s] = file[s]]_vars

\* A device keeps its name, so its MAC gets no second file, until a lookup fails
\* or a device comes or goes (interface_naming.go:54-72).
OneFilePerMac == faults = 0 /\ plugs = 0 => OneFileEach

\* The cleanup removes no file of a MAC that had an active row when it read
\* the table (delete_network.go:171-226).
CleanupSparesListed ==
  [][\A s \in Slots :
       phase = "deleting" /\ phase' # "down"
         /\ file[s] \in Content /\ file'[s] # file[s]
       => file[s].mac \notin listed]_vars

-----------------------------------------------------------------------------
\* A poll leaves alone what is as it should be: until something fails, no step
\* of the agent takes a served row out of service, unless its worker still
\* holds an older version of the row (configure_network.go:554-569).
ServedUndisturbed ==
  [][\A id \in Active :
       RowServed(id) /\ SnapshotCurrent(id) /\ ~cancelled
         /\ faults' = 0 /\ UNCHANGED <<edits, plugs>>
       => RowServed(id)']_vars

\* What is left of the node when names, files and commands are left out.
InForce(m) ==
  IF dev[m] \in Slots /\ file[dev[m]] = [mac |-> m, cfg |-> live[m]]
  THEN live[m] ELSE Plain

Sync == INSTANCE NodeSync WITH
  Out    <- Plain,
  seen   <- snap,
  spared <- IF phase = "deleting" THEN listed ELSE MACs,
  runs   <- [m \in MACs |-> InForce(m)],
  calm   <- faults = 0 /\ ~cancelled

\* The agent keeps its promise to the controller: an interface in force stays so
\* unless the agent has read otherwise or something has failed, and what it
\* reports of a row is so (configure_network.go:155-247, delete_network.go:54-114).
ImplementsNodeSync == Sync!Spec

\* When edits, faults and restarts stop, the node comes to agree with the
\* table and stays so, whatever happened before (README.md:11-12).
Convergence == <>[]Converged
=============================================================================
