---------------------------- MODULE DeleteNetwork ----------------------------
(***************************************************************************)
(* DeleteNetworkUseCase: after the rows of a poll are configured, the files *)
(* whose MAC no row names any more are orphans.  The adapter's Rollback is  *)
(* called for each: it removes the file and applies the rest, through       *)
(* netplan or NetworkManager.                                               *)
(***************************************************************************)
EXTENDS ConfigureNetwork

VARIABLES
  orphans,    \* slots of the orphaned files still to delete
  reapply,    \* the file of one is dealt with and the rest not yet applied
  listed      \* MACs that had an active row when the table was read

deleteVars == <<orphans, reapply, listed>>

DeleteInit ==
  /\ orphans = {}
  /\ reapply = FALSE
  /\ listed = {}

\* Only rows that are configured protect their files.
OrphanedUnlessConfigured(known) ==
  {s \in Slots :
     /\ file[s] \in Content
     /\ \A id \in Active : rows[id].mac = file[s].mac => rows[id].status = "pending"}

\* A file without a readable MAC is passed over.
Orphaned(known) == {s \in Slots : file[s] \in Content /\ file[s].mac \notin known}

\* findOrphanedNetplanFiles and findOrphanedIfcfgFiles: list the directory, read
\* the rows, read the MAC of each file.  A file that cannot be read is left for
\* the next poll.
FindOrphans(ids) ==
  /\ phase = "cleanup"
  /\ Reads(ids)
  /\ orphans' = Orphaned(MacsOf(ids))
  /\ listed' = MacsOf(Active)
  /\ phase' = "deleting"
  /\ UNCHANGED <<rows, nextId, file, dev, live, cancelled, edits, plugs, pc, snap,
                 name, reapply>>

FindOrphansUnread(s) ==
  /\ phase = "cleanup"
  /\ s \in Orphaned(MacsOf(Active))
  /\ ~cancelled
  /\ Faulty
  /\ orphans' = Orphaned(MacsOf(Active)) \ {s}
  /\ listed' = MacsOf(Active)
  /\ phase' = "deleting"
  /\ UNCHANGED <<rows, nextId, file, dev, live, cancelled, edits, plugs, pc, snap,
                 name, reapply>>

\* The directory, the host name or the rows cannot be read: the poll goes on
\* without a cleanup, and counts as successful.
FindFails ==
  /\ phase = "cleanup"
  /\ ContextFails
  /\ phase' = "idle"
  /\ UNCHANGED <<rows, nextId, file, dev, live, cancelled, edits, plugs, pc, snap,
                 name, deleteVars>>

NextOrphan == CHOOSE s \in orphans : \A t \in orphans : s <= t

\* The first half of Rollback, in the order of the directory.  On a netplan
\* node an error of Remove ends it, and the next orphan is next, but a failed
\* stat does not; on a node with ifcfg files every error is ignored.
RemoveOrphan(errorEndsIt) ==
  /\ phase = "deleting"
  /\ ~reapply
  /\ orphans # {}
  /\ orphans' = orphans \ {NextOrphan}
  /\ \/ /\ Sound
        /\ file' = [file EXCEPT ![NextOrphan] = NoFile]
        /\ reapply' = TRUE
     \/ /\ Faulty
        /\ reapply' \in {TRUE, ~errorEndsIt}
        /\ UNCHANGED file
  /\ UNCHANGED <<rows, nextId, dev, live, cancelled, edits, plugs, workVars, listed>>

\* The second half has the adapter's own effect on the devices.
Reapplied ==
  /\ phase = "deleting"
  /\ reapply
  /\ reapply' = FALSE
  /\ UNCHANGED <<rows, nextId, file, cancelled, edits, plugs, workVars, orphans,
                 listed>>

DeleteDone ==
  /\ phase = "deleting"
  /\ orphans = {}
  /\ ~reapply
  /\ phase' = "idle"
  /\ listed' = {}
  /\ UNCHANGED <<nodeVars, pc, snap, name, orphans, reapply>>

FindStep ==
  \/ \E ids \in SUBSET RowIds : FindOrphans(ids)
  \/ \E s \in Slots : FindOrphansUnread(s)
  \/ FindFails
=============================================================================
