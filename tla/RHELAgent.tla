------------------------------ MODULE RHELAgent ------------------------------
(***************************************************************************)
(* The agent on a node with ifcfg files: its polls (ConfigureNetwork with   *)
(* RHELAdapter, then DeleteNetwork) and its process, while the controller   *)
(* edits the table, devices come and go and operations fail.                *)
(***************************************************************************)
EXTENDS RHELAdapter, AgentProcess

vars == <<nodeVars, workVars, adapterVars, deleteVars, stops>>

TypeOK ==
  /\ NodeTypeOK
  /\ LinkTypeOK
  /\ FoundTypeOK
  /\ phase \in Phases
  /\ pc \in [RowIds -> Pcs]
  /\ snap \in [RowIds -> Row \cup {NoRow}]
  /\ name \in [RowIds -> Slots \cup {NoSlot}]
  /\ orphans \in SUBSET Slots
  /\ reapply \in BOOLEAN
  /\ listed \in SUBSET MACs
  /\ StopsTypeOK

Init ==
  NodeInit /\ LinkInit /\ WorkInit /\ NothingFound(found) /\ DeleteInit /\ StopsInit

-----------------------------------------------------------------------------
RestartForOrphan ==
  /\ \/ ContextHolds /\ NMRestarts
     \/ ContextFails /\ NMFails
  /\ Reapplied
  /\ UNCHANGED <<dev, found>>

CleanupStep ==
  \/ (FindStep \/ RemoveOrphan(FALSE) \/ DeleteDone) /\ UNCHANGED adapterVars
  \/ RestartForOrphan

WorkerStep(id) == Worker(id) /\ UNCHANGED <<deleteVars, stops>>

BetweenStep == (StartAPoll \/ ConfigureDone) /\ UNCHANGED <<adapterVars, deleteVars, stops>>

PollStep ==
  \/ BetweenStep
  \/ PollFails /\ UNCHANGED <<adapterVars, deleteVars, stops>>
  \/ CleanupStep /\ UNCHANGED stops

\* Where its links are does not end with the process.
Ended == NothingFound(found') /\ UNCHANGED linkDown

ProcessStep ==
  \/ (Exit \/ Crash) /\ Ended
  \/ (Signal \/ Restart) /\ UNCHANGED adapterVars

EnvironmentStep == Environment /\ UNCHANGED <<workVars, found, deleteVars, stops>>

Next ==
  \/ PollStep
  \/ \E id \in RowIds : WorkerStep(id)
  \/ ProcessStep
  \/ EnvironmentStep

Spec == Init /\ [][Next]_vars

\* As in NetplanAgent: the loop, the goroutines, the end after a signal and the
\* kubelet go on by themselves.
FairSpec ==
  /\ Spec
  /\ WF_vars(BetweenStep)
  /\ WF_vars(CleanupStep /\ UNCHANGED stops)
  /\ \A id \in RowIds : WF_vars(WorkerStep(id))
  /\ WF_vars((Exit /\ Ended) \/ (Restart /\ UNCHANGED adapterVars))

-----------------------------------------------------------------------------
\* Validate reports success only for the interface it was called for: the
\* device of the row carries the name, its link is up, the file of that name is
\* the row's, and the device runs with it.  Unlike on a netplan node this holds
\* with several workers, as long as no device comes or goes
\* (rhel_adapter.go:86-113,131-139,158-172; configure_network.go:173-186).
ValidatedIsReal ==
  [][\A id \in RowIds :
       plugs = 0 /\ pc[id] = "hasFile" /\ pc'[id] = "mark" =>
         ValidatedMeans(id) /\ snap[id].mac \notin linkDown]_vars

\* A device keeps its name, so its MAC gets no second file, until a lookup fails
\* or a device comes or goes (interface_naming.go:54-72).
OneFilePerMac == faults = 0 /\ plugs = 0 => OneFileEach

\* The cleanup removes no file of a MAC that had an active row when it read
\* the table (delete_network.go:322-393).
CleanupSparesListed ==
  [][\A s \in Slots :
       phase = "deleting" /\ phase' # "down"
         /\ file[s] \in Content /\ file'[s] # file[s]
       => file[s].mac \notin listed]_vars

\* When edits and faults stop, the node comes to agree with the table and stays
\* so, with every link up (README.md:11-12).
Convergence == <>[](Converged /\ linkDown \cap MacsOf(Active) \subseteq BadMACs)
=============================================================================
