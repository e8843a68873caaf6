----------------------------- MODULE RHELAdapter -----------------------------
(***************************************************************************)
(* RHELAdapter.Configure, Validate and Rollback as steps of the worker that *)
(* calls them.  Netplan renames devices itself; here the adapter does it,   *)
(* with three ip commands, before it writes the ifcfg file, and each of     *)
(* them can find that another worker, or NetworkManager, was there first.   *)
(***************************************************************************)
EXTENDS ConfigureNetwork, NetworkManager

VARIABLE found   \* actualDevice: the name under which a worker found its device

adapterVars == <<linkDown, found>>

AdapterPcs == {"down", "rename", "bringBack", "up", "write", "written",
               "restart", "hasFile", "rollbackRestart"}

Pcs == {"none"} \cup UseCasePcs \cup AdapterPcs \cup Verdicts

FoundTypeOK == found \in [RowIds -> Slots \cup {Unnamed, NoSlot}]

NothingFound(f) == f = [id \in RowIds |-> NoSlot]

\* The devices an ip command on a name acts on: at most one.  The names the
\* kernel gives are one value, and a worker knows only that of its own device.
Holders(id, n) ==
  {m \in MACs : dev[m] = n /\ (n = Unnamed => m = snap[id].mac)}

Forget(id) == found' = [found EXCEPT ![id] = NoSlot]

-----------------------------------------------------------------------------
\* findDeviceByMAC: `ip link show`, and the first device with the MAC.  It is
\* renamed unless it already has the name.
FindDevice(id) ==
  /\ pc[id] = "configure"
  /\ LET at == dev[snap[id].mac]
     IN  \/ /\ at # Absent /\ ContextHolds
            /\ IF at = name[id]
                 THEN Goto(id, "write") /\ UNCHANGED found
                 ELSE Goto(id, "down") /\ found' = [found EXCEPT ![id] = at]
         \/ /\ IF at = Absent THEN Sound ELSE ContextFails
            /\ Goto(id, "rollback")
            /\ UNCHANGED found
  /\ UNCHANGED <<Aside, file, dev, live, linkDown>>

\* `ip link set <found> down`, which may cost the device its settings.
LinkDown(id) ==
  /\ pc[id] = "down"
  /\ LET ms == Holders(id, found[id])
         Taken == /\ linkDown' = linkDown \cup ms
                  /\ \E c \in {Plain} \cup {live[m] : m \in ms} :
                       live' = [m \in MACs |-> IF m \in ms THEN c ELSE live[m]]
     IN  \/ ms # {} /\ ContextHolds /\ Taken /\ Goto(id, "rename") /\ UNCHANGED found
         \/ /\ ms # {} /\ ContextFails
            /\ Taken \/ UNCHANGED <<linkDown, live>>
            /\ Goto(id, "rollback") /\ Forget(id)
         \/ /\ ms = {} /\ Sound
            /\ Goto(id, "rollback") /\ Forget(id)
            /\ UNCHANGED <<linkDown, live>>
  /\ UNCHANGED <<Aside, file, dev>>

\* The link does not matter.
RenamableIfFree(id) == Holders(id, found[id]) # {} /\ ~InUse(name[id])

\* The kernel renames no device whose link is up, as it is again when
\* NetworkManager was restarted in between, and gives no name twice.
Renamable(id) ==
  /\ Holders(id, found[id]) # {}
  /\ Holders(id, found[id]) \subseteq linkDown
  /\ ~InUse(name[id])

\* `ip link set <found> name <name>`.
Rename(id) ==
  /\ pc[id] = "rename"
  /\ LET Renamed == dev' = [m \in MACs |-> IF m \in Holders(id, found[id])
                                             THEN name[id] ELSE dev[m]]
     IN  \/ /\ Renamable(id) /\ ContextHolds /\ Renamed
            /\ Goto(id, "up") /\ Forget(id)
         \/ /\ Renamable(id) /\ ContextFails
            /\ Renamed \/ UNCHANGED dev
            /\ Goto(id, "bringBack") /\ UNCHANGED found
         \/ /\ ~Renamable(id) /\ Sound
            /\ Goto(id, "bringBack") /\ UNCHANGED <<dev, found>>
  /\ UNCHANGED <<Aside, file, live, linkDown>>

\* The rename has failed: `ip link set <found> up`.  Its error is only logged,
\* and a rename that was done after all leaves nothing of that name.
BringBack(id) ==
  /\ pc[id] = "bringBack"
  /\ \/ ContextHolds /\ linkDown' = linkDown \ Holders(id, found[id])
     \/ ContextFails /\ linkDown' \in {linkDown, linkDown \ Holders(id, found[id])}
  /\ Goto(id, "rollback") /\ Forget(id)
  /\ UNCHANGED <<Aside, file, dev, live>>

\* `ip link set <name> up`.
LinkUp(id) ==
  /\ pc[id] = "up"
  /\ LET ms == Holders(id, name[id])
     IN  \/ /\ ms # {} /\ ContextHolds
            /\ linkDown' = linkDown \ ms
            /\ Goto(id, "write")
         \/ /\ ms # {} /\ ContextFails
            /\ linkDown' \in {linkDown, linkDown \ ms}
            /\ Goto(id, "rollback")
         \/ /\ ms = {} /\ Sound
            /\ Goto(id, "rollback")
            /\ UNCHANGED linkDown
  /\ UNCHANGED <<Aside, file, dev, live, found>>

-----------------------------------------------------------------------------
\* WriteFile has reported success, and that is enough.
FileExistsUnchecked(id) == TRUE

FileExists(id) == file[name[id]] # NoFile

\* The file is looked for after it is written, and once more by Validate.
LookForFile(id, from, next) ==
  /\ pc[id] = from
  /\ \/ FileExists(id) /\ Sound /\ Goto(id, next)
     \/ FileExists(id) /\ Faulty /\ Goto(id, "rollback")
     \/ ~FileExists(id) /\ Sound /\ Goto(id, "rollback")
  /\ UNCHANGED <<Aside, file, dev, live, adapterVars>>

RestartManager(id) ==
  /\ pc[id] = "restart"
  /\ \/ ContextHolds /\ NMRestarts /\ Goto(id, "validate")
     \/ ContextFails /\ NMFails /\ Goto(id, "rollback")
  /\ UNCHANGED <<Aside, file, dev, found>>

\* Validate, with `ip link show <name>`: whose device it is, and whether it is
\* up, it does not ask.  A look at the file follows.
Validate(id) ==
  /\ pc[id] = "validate"
  /\ \/ InUse(name[id]) /\ ContextHolds /\ Goto(id, "hasFile")
     \/ InUse(name[id]) /\ ContextFails /\ Goto(id, "rollback")
     \/ ~InUse(name[id]) /\ Sound /\ Goto(id, "rollback")
  /\ UNCHANGED <<Aside, file, dev, live, adapterVars>>

-----------------------------------------------------------------------------
\* Rollback never fails: its errors are logged.  It removes the file of the
\* name, whoever wrote it.
RollbackRemove(id) ==
  /\ pc[id] = "rollback"
  /\ \/ Sound /\ file' = [file EXCEPT ![name[id]] = NoFile]
     \/ Faulty /\ UNCHANGED file
  /\ Goto(id, "rollbackRestart")
  /\ UNCHANGED <<Aside, dev, live, adapterVars>>

RollbackRestart(id) ==
  /\ pc[id] = "rollbackRestart"
  /\ \/ ContextHolds /\ NMRestarts
     \/ ContextFails /\ NMFails
  /\ Goto(id, "markFailed")
  /\ UNCHANGED <<Aside, file, dev, found>>

WriteStep(id) == OpenFile(id, "write") \/ FillFile(id, "written")

AdapterStep(id) ==
  \/ FindDevice(id)
  \/ LinkDown(id)
  \/ Rename(id)
  \/ BringBack(id)
  \/ LinkUp(id)
  \/ WriteStep(id) /\ UNCHANGED adapterVars
  \/ LookForFile(id, "written", "restart")
  \/ RestartManager(id)
  \/ Validate(id)
  \/ LookForFile(id, "hasFile", "mark")
  \/ RollbackRemove(id)
  \/ RollbackRestart(id)

Worker(id) ==
  \/ UseCaseStep(id) /\ UNCHANGED adapterVars
  \/ AdapterStep(id)
=============================================================================
