----------------------------- MODULE BoundedPool -----------------------------
(***************************************************************************)
(* What a call of ConfigureNetworkUseCase.Execute promises to its caller:   *)
(* every task of the batch runs once, never more than Cap of them at a      *)
(* time, and the call returns only when all have ended, with an exact       *)
(* count of how they ended.  How the goroutines, the semaphore, the wait    *)
(* group and the atomic counters achieve it is in WorkerPool, which is      *)
(* shown to implement this module; what a task does is in ConfigureNetwork. *)
(***************************************************************************)
EXTENDS Naturals, FiniteSets

CONSTANTS
  Tasks,   \* what a batch is drawn from (the ids of the interface rows)
  Cap      \* how many tasks may run at the same time

Verdicts == {"processed", "failed", "skipped"}

VARIABLES
  busy,      \* is a call of Execute in progress?
  waiting,   \* tasks of the batch that have not started
  running,   \* tasks that have started and not ended
  verdict,   \* how each task of the current (or last) batch ended
  output     \* the result of the last call that returned

vars == <<busy, waiting, running, verdict, output>>

Ended(how) == {t \in Tasks : verdict[t] = how}

TypeOK ==
  /\ busy \in BOOLEAN
  /\ waiting \in SUBSET Tasks
  /\ running \in SUBSET Tasks
  /\ verdict \in [Tasks -> Verdicts \cup {"none"}]
  /\ output \in [processed : Nat, failed : Nat, total : Nat]

Init ==
  /\ busy = FALSE
  /\ waiting = {}
  /\ running = {}
  /\ verdict = [t \in Tasks |-> "none"]
  /\ output = [processed |-> 0, failed |-> 0, total |-> 0]

Begin(S) ==
  /\ ~busy
  /\ busy' = TRUE
  /\ waiting' = S
  /\ verdict' = [t \in Tasks |-> "none"]
  /\ UNCHANGED <<running, output>>

Start(t) ==
  /\ t \in waiting
  /\ Cardinality(running) < Cap
  /\ waiting' = waiting \ {t}
  /\ running' = running \cup {t}
  /\ UNCHANGED <<busy, verdict, output>>

End(t, how) ==
  /\ t \in running
  /\ running' = running \ {t}
  /\ verdict' = [verdict EXCEPT ![t] = how]
  /\ UNCHANGED <<busy, waiting, output>>

Return ==
  /\ busy
  /\ waiting = {}
  /\ running = {}
  /\ busy' = FALSE
  /\ output' = [processed |-> Cardinality(Ended("processed")),
                failed    |-> Cardinality(Ended("failed")),
                total     |-> Cardinality(Tasks \ Ended("none"))]
  /\ UNCHANGED <<waiting, running, verdict>>

Next ==
  \/ \E S \in SUBSET Tasks : Begin(S)
  \/ \E t \in Tasks : Start(t)
  \/ \E t \in Tasks, how \in Verdicts : End(t, how)
  \/ Return

Spec == Init /\ [][Next]_vars
=============================================================================
