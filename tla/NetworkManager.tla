---------------------------- MODULE NetworkManager ----------------------------
(***************************************************************************)
(* The kernel and NetworkManager of a node with ifcfg files, which are not  *)
(* part of the repository: links that are up or down, and what a restart of *)
(* NetworkManager makes of the files, as the adapter relies on it.          *)
(***************************************************************************)
EXTENDS NodeState

VARIABLE linkDown   \* the devices whose link has been set down

LinkTypeOK == linkDown \in SUBSET MACs
LinkInit   == linkDown = {}

\* The file of a device's name is a profile for it when it has its MAC too.
Profiled(m) == dev[m] \in Wanted(file, m)

\* A restart brings every device with a profile up, with the settings of the
\* profile.  Any other device keeps its settings or loses them, and may be
\* brought up.  No device is renamed.
NMRestarts ==
  /\ live' \in {after \in [MACs -> Cfgs \cup {Plain}] :
                 \A m \in MACs : IF Profiled(m)
                                   THEN after[m] = file[dev[m]].cfg
                                   ELSE after[m] \in {live[m], Plain}}
  /\ linkDown' \in SUBSET {m \in linkDown : ~Profiled(m)}

\* A restart that fails, or is killed at its timeout, may have been done.
NMFails == NMRestarts \/ UNCHANGED <<live, linkDown>>

-----------------------------------------------------------------------------
\* A device that appears has a name of the kernel's, unless udev finds a file
\* with its MAC whose name is free and renames it.
Attach(m, n) ==
  /\ plugs < MaxPlugs
  /\ dev[m] = Absent
  /\ n \in {Unnamed} \cup FreeFor(m)
  /\ dev' = [dev EXCEPT ![m] = n]
  /\ \E c \in {Plain} \cup {file[s].cfg : s \in {n} \cap Slots} :
       live' = [live EXCEPT ![m] = c]
  /\ plugs' = plugs + 1
  /\ UNCHANGED <<rows, nextId, file, cancelled, edits, faults, linkDown>>

DetachLink(m) == Detach(m) /\ linkDown' = linkDown \ {m}

Environment ==
  \/ Editing /\ UNCHANGED linkDown
  \/ \E m \in MACs, n \in Slots \cup {Unnamed} : Attach(m, n)
  \/ \E m \in MACs : DetachLink(m)
=============================================================================
