------------------------------ MODULE WorkerPool ------------------------------
(***************************************************************************)
(* The concurrency of ConfigureNetworkUseCase.Execute                       *)
(* (src/internal/application/usecases/configure_network.go:87-152): the     *)
(* caller starts one goroutine per interface row and waits on a WaitGroup;  *)
(* a goroutine takes a slot of a buffered channel, works, bumps an atomic   *)
(* counter, gives the slot back and calls Done.  The concurrency gauge is   *)
(* read from the channel and set in two separate steps.  The work itself    *)
(* is one step here, with any of its three outcomes; NetplanAgent expands   *)
(* it.                                                                      *)
(***************************************************************************)
EXTENDS Integers, FiniteSets

CONSTANTS
  Tasks,               \* ids of the rows GetAllNodeInterfaces may return
  MaxConcurrentTasks   \* Agent.MaxConcurrentTasks, any integer

ASSUME WorkerPoolAssumption ==
  /\ IsFiniteSet(Tasks)
  /\ MaxConcurrentTasks \in Int

\* "at least one is processed": the capacity of the semaphore channel
MaxWorkers == IF MaxConcurrentTasks <= 0 THEN 1 ELSE MaxConcurrentTasks

Verdicts == {"processed", "failed", "skipped"}

VARIABLES
  phase,       \* the caller: "idle", "spawn" (in the loop), "wait" (wg.Wait)
  batch,       \* allInterfaces
  toSpawn,     \* rows the loop has not reached
  pc,          \* the goroutine of each row
  wg,          \* counter of the WaitGroup
  semaphore,   \* len(semaphore)
  seen,        \* the length a goroutine read for the gauge
  gauge,       \* multinic_concurrent_tasks
  processed, failed,   \* the atomic counters of this call
  verdict,     \* which way the work of each row went
  output       \* result of the last call

vars == <<phase, batch, toSpawn, pc, wg, semaphore, seen, gauge,
          processed, failed, verdict, output>>

-----------------------------------------------------------------------------
\* The program counter of a goroutine, in the order of the code.
BeforeWork  == {"acquire", "readAcquired", "setAcquired", "work"}
AfterWork   == {"release", "readReleased", "setReleased", "done"}
HoldingPcs  == {"readAcquired", "setAcquired", "work", "release"}
LivePcs     == BeforeWork \cup AfterWork
Pcs         == LivePcs \cup {"none", "gone"}

\* The goroutines between `semaphore <- struct{}{}` and `<-semaphore`.
Holders == {t \in Tasks : pc[t] \in HoldingPcs}

\* The goroutines that have been added to the WaitGroup and are not Done.
Live == {t \in Tasks : pc[t] \in LivePcs}

With(how) == {t \in Tasks : verdict[t] = how}

\* What a result says when it is right: rows by their verdict, and all rows.
Tally == [processed |-> Cardinality(With("processed")),
          failed    |-> Cardinality(With("failed")),
          total     |-> Cardinality(batch)]

TypeOK ==
  /\ phase \in {"idle", "spawn", "wait"}
  /\ batch \in SUBSET Tasks
  /\ toSpawn \in SUBSET Tasks
  /\ pc \in [Tasks -> Pcs]
  /\ wg \in Nat
  /\ semaphore \in 0 .. MaxWorkers
  /\ seen \in [Tasks -> 0 .. MaxWorkers]
  /\ gauge \in 0 .. MaxWorkers
  /\ processed \in Nat
  /\ failed \in Nat
  /\ verdict \in [Tasks -> Verdicts \cup {"none"}]
  /\ output \in [processed : Nat, failed : Nat, total : Nat]

Init ==
  /\ phase = "idle"
  /\ batch = {}
  /\ toSpawn = {}
  /\ pc = [t \in Tasks |-> "none"]
  /\ wg = 0
  /\ semaphore = 0
  /\ seen = [t \in Tasks |-> 0]
  /\ gauge = 0
  /\ processed = 0
  /\ failed = 0
  /\ verdict = [t \in Tasks |-> "none"]
  /\ output = [processed |-> 0, failed |-> 0, total |-> 0]

-----------------------------------------------------------------------------
\* The caller.  The counters, the WaitGroup and the channel are locals of
\* Execute: each call starts with fresh ones.  The gauge is global.
Begin(S) ==
  /\ phase = "idle"
  /\ phase' = "spawn"
  /\ batch' = S
  /\ toSpawn' = S
  /\ pc' = [t \in Tasks |-> "none"]
  /\ verdict' = [t \in Tasks |-> "none"]
  /\ seen' = [t \in Tasks |-> 0]
  /\ wg' = 0
  /\ semaphore' = 0
  /\ processed' = 0
  /\ failed' = 0
  /\ UNCHANGED <<gauge, output>>

\* The goroutine is started without being added to the WaitGroup.
SpawnUncounted(t) ==
  /\ phase = "spawn"
  /\ t \in toSpawn
  /\ toSpawn' = toSpawn \ {t}
  /\ pc' = [pc EXCEPT ![t] = "acquire"]
  /\ UNCHANGED <<phase, batch, wg, semaphore, seen, gauge, processed, failed,
                 verdict, output>>

\* wg.Add(1) in the caller, before the goroutine exists.
Spawn(t) ==
  /\ phase = "spawn"
  /\ t \in toSpawn
  /\ toSpawn' = toSpawn \ {t}
  /\ wg' = wg + 1
  /\ pc' = [pc EXCEPT ![t] = "acquire"]
  /\ UNCHANGED <<phase, batch, semaphore, seen, gauge, processed, failed,
                 verdict, output>>

LoopDone ==
  /\ phase = "spawn"
  /\ toSpawn = {}
  /\ phase' = "wait"
  /\ UNCHANGED <<batch, toSpawn, pc, wg, semaphore, seen, gauge, processed,
                 failed, verdict, output>>

WaitOver == wg = 0

\* wg.Wait returns; the counters are loaded into the output.
Return ==
  /\ phase = "wait"
  /\ WaitOver
  /\ phase' = "idle"
  /\ output' = [processed |-> processed, failed |-> failed,
                total |-> Cardinality(batch)]
  /\ UNCHANGED <<batch, toSpawn, pc, wg, semaphore, seen, gauge, processed,
                 failed, verdict>>

-----------------------------------------------------------------------------
\* A goroutine.
HasRoomOffByOne == semaphore <= MaxWorkers

HasRoom == semaphore < MaxWorkers

Acquire(t) ==
  /\ pc[t] = "acquire"
  /\ HasRoom
  /\ semaphore' = semaphore + 1
  /\ pc' = [pc EXCEPT ![t] = "readAcquired"]
  /\ UNCHANGED <<phase, batch, toSpawn, wg, seen, gauge, processed, failed,
                 verdict, output>>

\* len(semaphore), once after the acquire and once after the release.
ReadLen(t) ==
  /\ pc[t] \in {"readAcquired", "readReleased"}
  /\ seen' = [seen EXCEPT ![t] = semaphore]
  /\ pc' = [pc EXCEPT ![t] = IF pc[t] = "readAcquired" THEN "setAcquired"
                                                       ELSE "setReleased"]
  /\ UNCHANGED <<phase, batch, toSpawn, wg, semaphore, gauge, processed,
                 failed, verdict, output>>

\* metrics.SetConcurrentTasks
SetGauge(t) ==
  /\ pc[t] \in {"setAcquired", "setReleased"}
  /\ gauge' = seen[t]
  /\ pc' = [pc EXCEPT ![t] = IF pc[t] = "setAcquired" THEN "work" ELSE "done"]
  /\ UNCHANGED <<phase, batch, toSpawn, wg, semaphore, seen, processed,
                 failed, verdict, output>>

\* A row that needs no work is counted as processed.
WorkCountsSkipped(t, how) ==
  /\ pc[t] = "work"
  /\ verdict' = [verdict EXCEPT ![t] = how]
  /\ processed' = IF how \in {"processed", "skipped"} THEN processed + 1
                                                     ELSE processed
  /\ failed' = IF how = "failed" THEN failed + 1 ELSE failed
  /\ pc' = [pc EXCEPT ![t] = "release"]
  /\ UNCHANGED <<phase, batch, toSpawn, wg, semaphore, seen, gauge, output>>

\* processInterfaceWithCheck, with the atomic add of the branch it takes.
Work(t, how) ==
  /\ pc[t] = "work"
  /\ verdict' = [verdict EXCEPT ![t] = how]
  /\ processed' = IF how = "processed" THEN processed + 1 ELSE processed
  /\ failed' = IF how = "failed" THEN failed + 1 ELSE failed
  /\ pc' = [pc EXCEPT ![t] = "release"]
  /\ UNCHANGED <<phase, batch, toSpawn, wg, semaphore, seen, gauge, output>>

\* A release that forgets to take its token back out of the channel.
ReleaseLeaks(t) ==
  /\ pc[t] = "release"
  /\ pc' = [pc EXCEPT ![t] = "readReleased"]
  /\ UNCHANGED <<phase, batch, toSpawn, wg, semaphore, seen, gauge, processed,
                 failed, verdict, output>>

\* The deferred `<-semaphore`.
Release(t) ==
  /\ pc[t] = "release"
  /\ semaphore' = semaphore - 1
  /\ pc' = [pc EXCEPT ![t] = "readReleased"]
  /\ UNCHANGED <<phase, batch, toSpawn, wg, seen, gauge, processed, failed,
                 verdict, output>>

\* The deferred wg.Done, the last thing the goroutine does.
Done(t) ==
  /\ pc[t] = "done"
  /\ wg' = wg - 1
  /\ pc' = [pc EXCEPT ![t] = "gone"]
  /\ UNCHANGED <<phase, batch, toSpawn, semaphore, seen, gauge, processed,
                 failed, verdict, output>>

Goroutine(t) ==
  \/ Acquire(t)
  \/ ReadLen(t)
  \/ SetGauge(t)
  \/ \E how \in Verdicts : Work(t, how)
  \/ Release(t)
  \/ Done(t)

Caller ==
  \/ \E t \in Tasks : Spawn(t)
  \/ LoopDone
  \/ Return

Next ==
  \/ \E S \in SUBSET Tasks : Begin(S)
  \/ Caller
  \/ \E t \in Tasks : Goroutine(t)

Spec == Init /\ [][Next]_vars

\* The Go scheduler runs every goroutine that can run; a blocked send on the
\* channel is only weakly fair.  Nothing obliges the caller to start a call.
FairSpec ==
  /\ Spec
  /\ WF_vars(Caller)
  /\ \A t \in Tasks : WF_vars(Goroutine(t))

-----------------------------------------------------------------------------
(***************************************************************************)
(* Execute as its caller sees it: a row counts as running from the moment   *)
(* it holds a slot of the channel until it gives it back.                   *)
(***************************************************************************)
Pool == INSTANCE BoundedPool WITH
  Cap     <- MaxWorkers,
  busy    <- phase # "idle",
  waiting <- {t \in Tasks : t \in toSpawn \/ pc[t] = "acquire"},
  running <- Holders,
  verdict <- [t \in Tasks |->
                IF pc[t] \in (AfterWork \ {"release"}) \cup {"gone"}
                THEN verdict[t] ELSE "none"],
  output  <- output

\* Every step of the goroutines and the channel is a step of the pool that
\* Execute promises, or invisible to it.
ImplementsPool == Pool!Spec

\* No more than MaxWorkers rows are worked on at a time, because the length
\* of the channel is exactly the number of goroutines inside
\* (configure_network.go:117,127,134).
ConcurrencyBound ==
  /\ semaphore = Cardinality(Holders)
  /\ Cardinality(Holders) <= MaxWorkers

\* A call never returns while one of its goroutines could still touch the node
\* or the counters it has reported: none is left, every token has been taken
\* out of the channel, every row of the batch has its verdict, and the result
\* counts exactly those (configure_network.go:122,124,134,145-151).
NothingLeftBehind ==
  phase = "idle" =>
    /\ Live = {}
    /\ semaphore = 0
    /\ \A t \in batch : verdict[t] # "none"
    /\ output = Tally

\* Every call returns: no goroutine waits for a slot for ever, and the wait
\* group comes back to zero (configure_network.go:124,133-136,145).
EveryCallReturns == (phase = "spawn") ~> (phase = "idle")
=============================================================================
