------------------------------- MODULE Netplan -------------------------------
(***************************************************************************)
(* Netplan, which is not part of the repository: what `netplan apply` makes *)
(* of the files, as the adapter relies on it.                               *)
(***************************************************************************)
EXTENDS NodeState

\* `apply` gives every device that some file matches one of the
\* names those files set, unless another device keeps that name.  A device
\* that no file matches, or that already has such a name, is left alone, and
\* removing a file takes no name away.  A device then runs with the settings
\* of the file that has its MAC and its name.  An empty file says nothing.
Renames(files, before, after) ==
  /\ \A m \in MACs :
       \/ after[m] = before[m]
       \/ /\ before[m] # Absent
          /\ before[m] \notin Wanted(files, m)
          /\ after[m] \in Wanted(files, m)
  /\ \A m, n \in MACs : m # n /\ after[m] \in Slots => after[m] # after[n]
  /\ \A m \in MACs :
       before[m] # Absent /\ after[m] \notin Wanted(files, m) =>
         \A s \in Wanted(files, m) : \E n \in MACs : after[n] = s

Settings(files, m, named) ==
  IF named \in Wanted(files, m) THEN files[named].cfg ELSE Plain

NetplanApplies ==
  /\ dev' \in {after \in [MACs -> Slots \cup {Unnamed, Absent}] :
                Renames(file, dev, after)}
  /\ live' = [m \in MACs |-> Settings(file, m, dev'[m])]

\* A netplan command that fails, or is killed at its timeout, may have been at
\* work already.
NetplanFails == NetplanApplies \/ UNCHANGED <<dev, live>>

\* A device that appears gets a name that a file sets for it, if one is free
\* (netplan leaves udev and networkd rules for that), and its settings.
Attach(m, n) ==
  /\ plugs < MaxPlugs
  /\ dev[m] = Absent
  /\ IF FreeFor(m) = {} THEN n = Unnamed ELSE n \in FreeFor(m)
  /\ dev' = [dev EXCEPT ![m] = n]
  /\ live' = [live EXCEPT ![m] = Settings(file, m, n)]
  /\ plugs' = plugs + 1
  /\ UNCHANGED <<rows, nextId, file, cancelled, edits, faults>>

Environment ==
  \/ Editing
  \/ \E m \in MACs, n \in Slots \cup {Unnamed} : Attach(m, n)
  \/ \E m \in MACs : Detach(m)
=============================================================================
