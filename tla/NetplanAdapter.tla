---------------------------- MODULE NetplanAdapter ----------------------------
(***************************************************************************)
(* NetplanAdapter.Configure, Validate and Rollback as steps of the worker   *)
(* that calls them: each file operation and each command is a step, so the  *)
(* workers of other rows run in between.                                    *)
(***************************************************************************)
EXTENDS ConfigureNetwork, Netplan

AdapterPcs == {"try", "dropTried", "apply", "undo", "undoApply",
               "rollbackApply"}

Pcs == {"none"} \cup UseCasePcs \cup AdapterPcs \cup Verdicts

-----------------------------------------------------------------------------
\* testNetplan: `netplan try` applies all files of the directory; when it
\* fails it takes that back, unless it is killed first.
TryNetplan(id) ==
  /\ pc[id] = "try"
  /\ \/ ContextHolds /\ NetplanApplies /\ Goto(id, "apply")
     \/ ContextFails /\ NetplanFails /\ Goto(id, "dropTried")
  /\ UNCHANGED <<Aside, file>>

\* The file is removed after a failed try; an error of Remove is only logged.
\* Configure returns its error, and applyConfiguration rolls back.
DropTried(id) ==
  /\ pc[id] = "dropTried"
  /\ \/ Sound /\ file' = [file EXCEPT ![name[id]] = NoFile]
     \/ Faulty /\ UNCHANGED file
  /\ Goto(id, "rollback")
  /\ UNCHANGED <<Aside, dev, live>>

ApplyNetplan(id) ==
  /\ pc[id] = "apply"
  /\ \/ ContextHolds /\ NetplanApplies /\ Goto(id, "validate")
     \/ ContextFails /\ NetplanFails /\ Goto(id, "undo")
  /\ UNCHANGED <<Aside, file>>

-----------------------------------------------------------------------------
\* Rollback removes the file of the slot, whatever it holds, and applies
\* netplan.  An error of Remove ends it; a file whose stat fails does not exist
\* for Exists, and Rollback goes on without the removal.  Configure calls it
\* when the apply fails ("undo") and the use case when Configure or Validate has
\* failed ("rollback"); neither does anything with its error but log it.
RollbackRemove(id) ==
  /\ pc[id] \in {"undo", "rollback"}
  /\ LET inner == pc[id] = "undo"
         apply == IF inner THEN "undoApply" ELSE "rollbackApply"
     IN  \/ /\ Sound
            /\ file' = [file EXCEPT ![name[id]] = NoFile]
            /\ Goto(id, apply)
         \/ /\ Faulty
            /\ file[name[id]] # NoFile
            /\ Goto(id, apply) \/ Goto(id, IF inner THEN "rollback" ELSE "markFailed")
            /\ UNCHANGED file
  /\ UNCHANGED <<Aside, dev, live>>

RollbackApply(id) ==
  /\ pc[id] \in {"undoApply", "rollbackApply"}
  /\ \/ ContextHolds /\ NetplanApplies
     \/ ContextFails /\ NetplanFails
  /\ Goto(id, IF pc[id] = "undoApply" THEN "rollback" ELSE "markFailed")
  /\ UNCHANGED <<Aside, file>>

-----------------------------------------------------------------------------
\* /sys/class/net/<name> exists; whose device it is, Validate does not ask.
DeviceExists(id) == InUse(name[id])

\* Validate, with `ip link show <name> up`.
Validate(id) ==
  /\ pc[id] = "validate"
  /\ \/ DeviceExists(id) /\ ContextHolds /\ Goto(id, "mark")
     \/ DeviceExists(id) /\ ContextFails /\ Goto(id, "rollback")
     \/ ~DeviceExists(id) /\ Sound /\ Goto(id, "rollback")
  /\ UNCHANGED <<Aside, file, dev, live>>

AdapterStep(id) ==
  \/ OpenFile(id, "configure")
  \/ FillFile(id, "try")
  \/ TryNetplan(id)
  \/ DropTried(id)
  \/ ApplyNetplan(id)
  \/ RollbackRemove(id)
  \/ RollbackApply(id)
  \/ Validate(id)

Worker(id) == UseCaseStep(id) \/ AdapterStep(id)
=============================================================================
