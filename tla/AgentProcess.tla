----------------------------- MODULE AgentProcess -----------------------------
(***************************************************************************)
(* The process around the polls, cmd/agent/main.go: it is told to stop, it  *)
(* ends, it is killed at any step, and the kubelet starts it again.         *)
(***************************************************************************)
EXTENDS DeleteNetwork

CONSTANTS
  MaxSignals,   \* bound: times the process is told to stop
  MaxCrashes    \* bound: times it is killed

ASSUME StopsAssumption == MaxSignals \in Nat /\ MaxCrashes \in Nat

VARIABLES signals, crashes   \* how much of each bound is used

stops == <<signals, crashes>>

StopsInit == signals = 0 /\ crashes = 0

StopsTypeOK ==
  /\ signals \in 0 .. MaxSignals
  /\ crashes \in 0 .. MaxCrashes

-----------------------------------------------------------------------------
\* SIGTERM or SIGINT: the context is cancelled.  The poll in progress runs
\* on, with commands and queries that fail.
Signal ==
  /\ phase # "down"
  /\ ~cancelled
  /\ signals < MaxSignals
  /\ cancelled' = TRUE
  /\ signals' = signals + 1
  /\ UNCHANGED <<crashes, rows, nextId, file, dev, live, edits, plugs, faults, workVars,
                 deleteVars>>

\* The process ends: the table, the files and the devices stay as they are.
Gone ==
  /\ phase' = "down"
  /\ cancelled' = FALSE
  /\ NoWorkers(pc', snap', name')
  /\ orphans' = {}
  /\ reapply' = FALSE
  /\ listed' = {}
  /\ UNCHANGED <<rows, nextId, file, dev, live, edits, plugs, faults>>

\* PollingController.Start returns between two polls, and main exits.
Exit ==
  /\ phase = "idle"
  /\ cancelled
  /\ Gone
  /\ UNCHANGED stops

\* SIGKILL, a panic or a power cut, at any step.
Crash ==
  /\ phase # "down"
  /\ crashes < MaxCrashes
  /\ crashes' = crashes + 1
  /\ Gone
  /\ UNCHANGED signals

\* The kubelet starts the container again.
Restart ==
  /\ phase = "down"
  /\ phase' = "idle"
  /\ UNCHANGED <<nodeVars, pc, snap, name, deleteVars, stops>>

StartAPoll == \E ids \in SUBSET RowIds : StartPoll(ids)
=============================================================================
