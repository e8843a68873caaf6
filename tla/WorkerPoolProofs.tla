--------------------------- MODULE WorkerPoolProofs ---------------------------
(***************************************************************************)
(* Proofs about WorkerPool, for any finite set of rows and any configured   *)
(* number of workers.                                                       *)
(*                                                                         *)
(* The argument: the counters of the code (the length of the channel, the   *)
(* WaitGroup, the two atomic counters) are at every step the cardinalities  *)
(* of the sets of goroutines they stand for.  The bound on concurrency and  *)
(* the fact that Execute returns only when every goroutine is gone follow   *)
(* at once, and so does the refinement of BoundedPool.                      *)
(***************************************************************************)
EXTENDS WorkerPool, FiniteSetTheorems, TLAPS

\* Each counter is the number of goroutines it counts.
CountersExact ==
  /\ semaphore = Cardinality(Holders)
  /\ wg = Cardinality(Live)
  /\ processed = Cardinality(With("processed"))
  /\ failed = Cardinality(With("failed"))

\* Where a goroutine is tells whether its row was reached by the loop and
\* whether its work is over.
PcMeaning ==
  /\ toSpawn \subseteq batch
  /\ \A t \in Tasks : (pc[t] = "none") <=> (t \in toSpawn \/ t \notin batch)
  /\ \A t \in Tasks :
       (verdict[t] = "none") <=> (pc[t] \in BeforeWork \cup {"none"})

\* Where the caller is tells what can still be running.
PhaseMeaning ==
  /\ phase # "spawn" => toSpawn = {}
  /\ phase = "idle" => Live = {}

\* What the last call has reported stays true until the next one begins.
OutputExact == phase = "idle" => output = Tally

IInv ==
  /\ TypeOK
  /\ CountersExact
  /\ PcMeaning
  /\ PhaseMeaning
  /\ OutputExact

-----------------------------------------------------------------------------
\* A set of rows can be counted, and counting follows one row coming or going.
LEMMA RowsCountable ==
  ASSUME NEW S \in SUBSET Tasks
  PROVE  IsFiniteSet(S) /\ Cardinality(S) \in Nat
BY WorkerPoolAssumption, FS_Subset, FS_CardinalityType

LEMMA OneMore ==
  ASSUME NEW S \in SUBSET Tasks, NEW t \in Tasks, t \notin S
  PROVE  Cardinality(S \cup {t}) = Cardinality(S) + 1
BY RowsCountable, FS_AddElement

LEMMA OneLess ==
  ASSUME NEW S \in SUBSET Tasks, NEW t \in S
  PROVE  Cardinality(S \ {t}) = Cardinality(S) - 1
BY RowsCountable, FS_RemoveElement

LEMMA NoneAtAll ==
  ASSUME NEW S \in SUBSET Tasks
  PROVE  Cardinality(S) = 0 <=> S = {}
BY RowsCountable, FS_EmptySet

\* The capacity of the channel is a positive integer whatever is configured.
LEMMA WorkersPositive == MaxWorkers \in Nat \ {0}
BY WorkerPoolAssumption DEF MaxWorkers

-----------------------------------------------------------------------------
LEMMA InitIInv == Init => IInv
<1> SUFFICES ASSUME Init PROVE IInv
  OBVIOUS
<1> USE WorkersPositive DEF Init
<1>1. TypeOK
  BY DEF TypeOK, Pcs, LivePcs, BeforeWork, Verdicts
<1>2. Holders = {} /\ Live = {} /\ With("processed") = {} /\ With("failed") = {}
  BY DEF Holders, HoldingPcs, Live, LivePcs, BeforeWork, AfterWork, With
<1>3. CountersExact
  BY <1>2, FS_EmptySet DEF CountersExact
<1>4. PcMeaning /\ PhaseMeaning
  BY <1>2 DEF PcMeaning, PhaseMeaning, BeforeWork
<1>5. OutputExact
  BY <1>2, FS_EmptySet DEF OutputExact, Tally
<1> QED
  BY <1>1, <1>3, <1>4, <1>5 DEF IInv

-----------------------------------------------------------------------------
\* One lemma per step of the caller.
LEMMA BeginIInv ==
  ASSUME IInv, NEW S \in SUBSET Tasks, Begin(S)
  PROVE  IInv'
<1> USE WorkersPositive DEF IInv, Begin
<1>1. TypeOK'
  BY DEF TypeOK, Pcs, Verdicts
<1>2. Holders' = {} /\ Live' = {} /\ With("processed")' = {}
                   /\ With("failed")' = {}
  BY DEF Holders, HoldingPcs, Live, LivePcs, BeforeWork, AfterWork, With
<1>3. CountersExact'
  BY <1>2, FS_EmptySet DEF CountersExact
<1>4. PcMeaning' /\ PhaseMeaning' /\ OutputExact'
  BY DEF PcMeaning, PhaseMeaning, OutputExact, TypeOK
<1> QED
  BY <1>1, <1>3, <1>4

LEMMA SpawnIInv ==
  ASSUME IInv, NEW t \in Tasks, Spawn(t)
  PROVE  IInv'
<1> USE DEF IInv, Spawn
<1>1. TypeOK'
  BY DEF TypeOK, Pcs, LivePcs, BeforeWork
<1>2. pc[t] = "none" /\ t \in batch
  BY DEF PcMeaning
<1>3. Holders' = Holders /\ Live' = Live \cup {t} /\ t \notin Live
  BY <1>2 DEF Holders, HoldingPcs, Live, LivePcs, BeforeWork, AfterWork, TypeOK
<1>4. CountersExact'
  BY <1>3, OneMore DEF CountersExact, With, Live
<1>5. PcMeaning'
  BY <1>2 DEF PcMeaning, TypeOK, BeforeWork
<1>6. PhaseMeaning' /\ OutputExact'
  BY DEF PhaseMeaning, OutputExact
<1> QED
  BY <1>1, <1>4, <1>5, <1>6

LEMMA LoopDoneIInv == IInv /\ LoopDone => IInv'
BY DEF IInv, LoopDone, TypeOK, CountersExact, PcMeaning, PhaseMeaning,
       OutputExact, Holders, Live, With

LEMMA ReturnIInv ==
  ASSUME IInv, Return
  PROVE  IInv'
<1> USE DEF IInv, Return
<1>1. Live = {}
  BY NoneAtAll DEF WaitOver, CountersExact, Live
<1>3. Cardinality(batch) \in Nat
  BY RowsCountable DEF TypeOK
<1>4. OutputExact'
  BY DEF OutputExact, Tally, CountersExact, With
<1>5. TypeOK'
  BY <1>3 DEF TypeOK
<1>6. CountersExact'
  BY DEF CountersExact, Holders, Live, With
<1>7. PcMeaning' /\ PhaseMeaning'
  BY <1>1 DEF PcMeaning, PhaseMeaning, Live
<1> QED
  BY <1>4, <1>5, <1>6, <1>7

\* A live goroutine belongs to a call in progress, which has reported nothing.
LEMMA OutputUntouched ==
  ASSUME IInv, NEW t \in Tasks, pc[t] \in LivePcs, phase' = phase
  PROVE  OutputExact'
BY DEF IInv, PhaseMeaning, OutputExact, Live

\* One lemma per step of a goroutine.
LEMMA AcquireIInv ==
  ASSUME IInv, NEW t \in Tasks, Acquire(t)
  PROVE  IInv'
<1> USE DEF IInv, Acquire
<1>1. TypeOK'
  BY WorkersPositive DEF TypeOK, Pcs, LivePcs, BeforeWork, HasRoom
<1>2. Holders' = Holders \cup {t} /\ t \notin Holders /\ Live' = Live
  BY DEF Holders, HoldingPcs, Live, LivePcs, BeforeWork, AfterWork, TypeOK
<1>3. CountersExact'
  BY <1>2, OneMore DEF CountersExact, With, Holders
<1>4. PcMeaning' /\ PhaseMeaning'
  BY <1>2 DEF PcMeaning, PhaseMeaning, TypeOK, BeforeWork
<1>5. OutputExact'
  BY OutputUntouched DEF LivePcs, BeforeWork, AfterWork
<1> QED
  BY <1>1, <1>3, <1>4, <1>5

LEMMA ReadLenIInv ==
  ASSUME IInv, NEW t \in Tasks, ReadLen(t)
  PROVE  IInv'
<1> USE DEF IInv, ReadLen
<1>1. TypeOK'
  BY DEF TypeOK, Pcs, LivePcs, BeforeWork, AfterWork
<1>2. Holders' = Holders /\ Live' = Live
  BY DEF Holders, HoldingPcs, Live, LivePcs, BeforeWork, AfterWork, TypeOK
<1>3. CountersExact'
  BY <1>2 DEF CountersExact, With
<1>4. PcMeaning' /\ PhaseMeaning'
  BY <1>2 DEF PcMeaning, PhaseMeaning, TypeOK, BeforeWork
<1>5. OutputExact'
  BY OutputUntouched DEF LivePcs, BeforeWork, AfterWork
<1> QED
  BY <1>1, <1>3, <1>4, <1>5

LEMMA SetGaugeIInv ==
  ASSUME IInv, NEW t \in Tasks, SetGauge(t)
  PROVE  IInv'
<1> USE DEF IInv, SetGauge
<1>1. TypeOK'
  BY DEF TypeOK, Pcs, LivePcs, BeforeWork, AfterWork
<1>2. Holders' = Holders /\ Live' = Live
  BY DEF Holders, HoldingPcs, Live, LivePcs, BeforeWork, AfterWork, TypeOK
<1>3. CountersExact'
  BY <1>2 DEF CountersExact, With
<1>4. PcMeaning' /\ PhaseMeaning'
  BY <1>2 DEF PcMeaning, PhaseMeaning, TypeOK, BeforeWork
<1>5. OutputExact'
  BY OutputUntouched DEF LivePcs, BeforeWork, AfterWork
<1> QED
  BY <1>1, <1>3, <1>4, <1>5

LEMMA WorkIInv ==
  ASSUME IInv, NEW t \in Tasks, NEW how \in Verdicts, Work(t, how)
  PROVE  IInv'
<1> USE DEF IInv, Work
<1>1. verdict[t] = "none"
  BY DEF PcMeaning, BeforeWork
<1>2. TypeOK'
  BY DEF TypeOK, Pcs, LivePcs, AfterWork
<1>3. Holders' = Holders /\ Live' = Live
  BY DEF Holders, HoldingPcs, Live, LivePcs, BeforeWork, AfterWork, TypeOK
<1>4. ASSUME NEW w \in {"processed", "failed"}
      PROVE  Cardinality(With(w))' =
               IF how = w THEN Cardinality(With(w)) + 1 ELSE Cardinality(With(w))
  <2>1. t \notin With(w)
    BY <1>1 DEF With
  <2>2. With(w)' = IF how = w THEN With(w) \cup {t} ELSE With(w)
    BY <2>1 DEF With, TypeOK
  <2> QED
    BY <2>1, <2>2, OneMore DEF With
<1>5. CountersExact'
  BY <1>3, <1>4 DEF CountersExact
<1>6. PcMeaning'
  BY DEF PcMeaning, TypeOK, BeforeWork, Verdicts
<1>7. PhaseMeaning'
  BY <1>3 DEF PhaseMeaning
<1>8. OutputExact'
  BY OutputUntouched DEF LivePcs, BeforeWork, AfterWork
<1> QED
  BY <1>2, <1>5, <1>6, <1>7, <1>8

LEMMA ReleaseIInv ==
  ASSUME IInv, NEW t \in Tasks, Release(t)
  PROVE  IInv'
<1> USE DEF IInv, Release
<1>1. Holders' = Holders \ {t} /\ t \in Holders /\ Live' = Live
  BY DEF Holders, HoldingPcs, Live, LivePcs, BeforeWork, AfterWork, TypeOK
<1>2. semaphore - 1 = Cardinality(Holders')
  BY <1>1, OneLess DEF CountersExact, Holders
<1>3. semaphore - 1 \in Nat
  BY <1>2, RowsCountable DEF Holders
<1>4. TypeOK'
  BY <1>3, WorkersPositive DEF TypeOK, Pcs, LivePcs, AfterWork
<1>5. CountersExact'
  BY <1>1, <1>2 DEF CountersExact, With
<1>6. PcMeaning' /\ PhaseMeaning'
  BY <1>1 DEF PcMeaning, PhaseMeaning, TypeOK, BeforeWork
<1>7. OutputExact'
  BY OutputUntouched DEF LivePcs, BeforeWork, AfterWork
<1> QED
  BY <1>4, <1>5, <1>6, <1>7

LEMMA DoneIInv ==
  ASSUME IInv, NEW t \in Tasks, Done(t)
  PROVE  IInv'
<1> USE DEF IInv, Done
<1>1. Live' = Live \ {t} /\ t \in Live /\ Holders' = Holders
  BY DEF Holders, HoldingPcs, Live, LivePcs, BeforeWork, AfterWork, TypeOK
<1>2. wg - 1 = Cardinality(Live')
  BY <1>1, OneLess DEF CountersExact, Live
<1>3. wg - 1 \in Nat
  BY <1>2, RowsCountable DEF Live
<1>4. TypeOK'
  BY <1>3 DEF TypeOK, Pcs
<1>5. CountersExact'
  BY <1>1, <1>2 DEF CountersExact, With
<1>6. PcMeaning' /\ PhaseMeaning'
  BY <1>1 DEF PcMeaning, PhaseMeaning, TypeOK, BeforeWork
<1>7. OutputExact'
  BY OutputUntouched DEF LivePcs, BeforeWork, AfterWork
<1> QED
  BY <1>4, <1>5, <1>6, <1>7

LEMMA StutterIInv == IInv /\ UNCHANGED vars => IInv'
BY DEF IInv, vars, TypeOK, CountersExact, PcMeaning, PhaseMeaning, OutputExact,
       Tally, Holders, Live, With

\* The counters of the code are exact in every reachable state.
THEOREM Inductive == Spec => []IInv
<1>1. IInv /\ [Next]_vars => IInv'
  BY BeginIInv, SpawnIInv, LoopDoneIInv, ReturnIInv, AcquireIInv, ReadLenIInv,
     SetGaugeIInv, WorkIInv, ReleaseIInv, DoneIInv, StutterIInv
     DEF Next, Caller, Goroutine
<1> QED
  BY InitIInv, <1>1, PTL DEF Spec

\* Every variable keeps its type, whatever the rows and the configured limit.
THEOREM TypeCorrect == Spec => []TypeOK
<1>1. IInv => TypeOK
  BY DEF IInv
<1> QED
  BY Inductive, <1>1, PTL

\* At most MaxWorkers goroutines are between the send on the channel and the
\* receive that gives the slot back, for any number of rows.
THEOREM ConcurrencyBounded == Spec => []ConcurrencyBound
<1>1. IInv => ConcurrencyBound
  BY WorkersPositive DEF IInv, ConcurrencyBound, CountersExact, TypeOK
<1> QED
  BY Inductive, <1>1, PTL

\* Execute returns only after its last goroutine, with an empty channel and a
\* result that counts every row of the batch by its verdict.
THEOREM ReturnsClean == Spec => []NothingLeftBehind
<1>1. ASSUME IInv, phase = "idle"
      PROVE  /\ Live = {}
             /\ semaphore = 0
             /\ \A t \in batch : verdict[t] # "none"
             /\ output = Tally
  <2> USE <1>1 DEF IInv
  <2>1. Live = {} /\ output = Tally
    BY DEF PhaseMeaning, OutputExact
  <2>2. Holders = {}
    BY <2>1 DEF Holders, HoldingPcs, Live, LivePcs, BeforeWork, AfterWork
  <2>3. semaphore = 0
    BY <2>2, FS_EmptySet DEF CountersExact
  <2>4. \A t \in batch : pc[t] = "gone"
    BY <2>1 DEF TypeOK, PcMeaning, PhaseMeaning, Live, Pcs
  <2>5. \A t \in batch : verdict[t] # "none"
    BY <2>4 DEF TypeOK, PcMeaning, BeforeWork
  <2> QED
    BY <2>1, <2>3, <2>5
<1>2. IInv => NothingLeftBehind
  BY <1>1 DEF NothingLeftBehind
<1> QED
  BY Inductive, <1>2, PTL

-----------------------------------------------------------------------------
\* The refinement mapping, by the names BoundedPool gives its variables.
Waiting == {t \in Tasks : t \in toSpawn \/ pc[t] = "acquire"}
Reported == [t \in Tasks |->
               IF pc[t] \in (AfterWork \ {"release"}) \cup {"gone"}
               THEN verdict[t] ELSE "none"]
Abstract == <<phase # "idle", Waiting, Holders, Reported, output>>

\* A step that moves nothing the caller can see is a stutter of the pool.
LEMMA Invisible == UNCHANGED Abstract => UNCHANGED Pool!vars
BY DEF Abstract, Pool!vars, Waiting, Reported

\* The instance counts with the same Cardinality.
LEMMA SameCount == \A S : Pool!Cardinality(S) = Cardinality(S)
BY DEF Pool!Cardinality, Cardinality

LEMMA InitRefines == Init => Pool!Init
BY DEF Init, Pool!Init, Holders, HoldingPcs

LEMMA BeginRefines ==
  ASSUME IInv, NEW S \in SUBSET Tasks, Begin(S)
  PROVE  Pool!Begin(S)
BY DEF IInv, TypeOK, PhaseMeaning, Begin, Pool!Begin, Holders, HoldingPcs, Live,
       LivePcs, BeforeWork, AfterWork

LEMMA SpawnRefines ==
  ASSUME IInv, NEW t \in Tasks, Spawn(t)
  PROVE  UNCHANGED Abstract
<1> USE DEF IInv, TypeOK, PcMeaning, Spawn
<1>1. pc[t] = "none" /\ t \in toSpawn
  OBVIOUS
<1>2. Waiting' = Waiting
  BY <1>1 DEF Waiting
<1>3. Holders' = Holders
  BY <1>1 DEF Holders, HoldingPcs
<1>4. Reported' = Reported
  BY <1>1 DEF Reported, AfterWork
<1> QED
  BY <1>2, <1>3, <1>4 DEF Abstract

LEMMA LoopDoneRefines == IInv /\ LoopDone => UNCHANGED Abstract
BY DEF LoopDone, Abstract, Waiting, Holders, Reported

LEMMA ReturnRefines ==
  ASSUME IInv, Return
  PROVE  Pool!Return
<1> USE DEF IInv, TypeOK, Return
<1>1. Live = {}
  BY NoneAtAll DEF WaitOver, CountersExact, Live
<1>2. \A t \in Tasks : pc[t] \in {"none", "gone"}
  BY <1>1 DEF Live, Pcs
<1>3. Waiting = {} /\ Holders = {}
  BY <1>2 DEF Waiting, Holders, HoldingPcs, PhaseMeaning
<1>4. \A t \in Tasks : Reported[t] = verdict[t]
  BY <1>2 DEF Reported, PcMeaning, AfterWork, BeforeWork
<1>5. batch = Tasks \ With("none")
  BY <1>2 DEF With, PcMeaning, PhaseMeaning, BeforeWork
<1>6. \A how : With(how) = Pool!Ended(how)
  BY <1>4 DEF With, Pool!Ended, Reported
<1>7. output' = [processed |-> Pool!Cardinality(Pool!Ended("processed")),
                 failed    |-> Pool!Cardinality(Pool!Ended("failed")),
                 total     |-> Pool!Cardinality(Tasks \ Pool!Ended("none"))]
  BY <1>5, <1>6, SameCount DEF CountersExact
<1>8. UNCHANGED <<Waiting, Holders, Reported>>
  BY DEF Waiting, Holders, Reported
<1>9. phase # "idle" /\ phase' = "idle"
  OBVIOUS
<1> HIDE DEF IInv, TypeOK, Return
<1> QED
  BY <1>3, <1>7, <1>8, <1>9 DEF Pool!Return, Waiting, Reported

LEMMA AcquireRefines ==
  ASSUME IInv, NEW t \in Tasks, Acquire(t)
  PROVE  Pool!Start(t)
<1> USE DEF IInv, TypeOK, Acquire
<1>1. Cardinality(Holders) < MaxWorkers
  BY DEF CountersExact, HasRoom
<1>2. t \notin toSpawn
  BY DEF PcMeaning
<1>3. t \in Waiting /\ Waiting' = Waiting \ {t}
  BY <1>2 DEF Waiting
<1>4. Holders' = Holders \cup {t}
  BY DEF Holders, HoldingPcs
<1>5. Reported' = Reported
  BY DEF Reported, AfterWork
<1>6. phase' = phase /\ output' = output
  OBVIOUS
<1> HIDE DEF IInv, TypeOK, Acquire
<1> QED
  BY <1>1, <1>3, <1>4, <1>5, <1>6, SameCount DEF Pool!Start, Waiting, Reported

LEMMA ReadLenRefines ==
  ASSUME IInv, NEW t \in Tasks, ReadLen(t)
  PROVE  UNCHANGED Abstract
BY DEF IInv, TypeOK, ReadLen, Abstract, Waiting, Holders, HoldingPcs, Reported,
       AfterWork

LEMMA SetGaugeRefines ==
  ASSUME IInv, NEW t \in Tasks, SetGauge(t)
  PROVE  UNCHANGED Abstract
BY DEF IInv, TypeOK, SetGauge, Abstract, Waiting, Holders, HoldingPcs, Reported,
       AfterWork

LEMMA WorkRefines ==
  ASSUME IInv, NEW t \in Tasks, NEW how \in Verdicts, Work(t, how)
  PROVE  UNCHANGED Abstract
BY DEF IInv, TypeOK, Work, Abstract, Waiting, Holders, HoldingPcs, Reported,
       AfterWork

\* Giving the slot back is the moment the pool counts the row as ended.
LEMMA ReleaseRefines ==
  ASSUME IInv, NEW t \in Tasks, Release(t)
  PROVE  \E how \in Pool!Verdicts : Pool!End(t, how)
<1> USE DEF IInv, TypeOK, Release
<1>1. PICK how \in Pool!Verdicts : how = verdict[t]
  BY DEF PcMeaning, BeforeWork, Verdicts, Pool!Verdicts
<1>2. t \in Holders /\ Holders' = Holders \ {t}
  BY DEF Holders, HoldingPcs
<1>3. Waiting' = Waiting
  BY DEF Waiting
<1>4. Reported' = [Reported EXCEPT ![t] = how]
  BY <1>1 DEF Reported, AfterWork
<1>5. phase' = phase /\ output' = output
  OBVIOUS
<1> HIDE DEF IInv, TypeOK, Release
<1>6. Pool!End(t, how)
  BY <1>2, <1>3, <1>4, <1>5 DEF Pool!End, Waiting, Reported
<1> QED
  BY <1>6

LEMMA DoneRefines ==
  ASSUME IInv, NEW t \in Tasks, Done(t)
  PROVE  UNCHANGED Abstract
BY DEF IInv, TypeOK, Done, Abstract, Waiting, Holders, HoldingPcs, Reported,
       AfterWork

\* Execute implements the pool it promises: every behaviour of the goroutines,
\* the channel, the WaitGroup and the atomic counters is one of BoundedPool.
THEOREM PoolImplemented == Spec => ImplementsPool
<1>1. IInv /\ [Next]_vars => [Pool!Next]_(Pool!vars)
  <2> SUFFICES ASSUME IInv, [Next]_vars
               PROVE  Pool!Next \/ UNCHANGED Pool!vars
    OBVIOUS
  <2>1. CASE UNCHANGED vars
    BY <2>1, Invisible DEF vars, Abstract, Waiting, Holders, Reported
  <2>2. CASE \E S \in SUBSET Tasks : Begin(S)
    BY <2>2, BeginRefines DEF Pool!Next
  <2>3. CASE Caller
    BY <2>3, SpawnRefines, LoopDoneRefines, ReturnRefines, Invisible
       DEF Caller, Pool!Next
  <2>4. ASSUME NEW t \in Tasks, Goroutine(t)
        PROVE  Pool!Next \/ UNCHANGED Pool!vars
    <3>1. CASE Acquire(t)
      BY <3>1, AcquireRefines DEF Pool!Next
    <3>2. CASE ReadLen(t) \/ SetGauge(t) \/ Done(t)
                 \/ \E how \in Verdicts : Work(t, how)
      BY <3>2, ReadLenRefines, SetGaugeRefines, DoneRefines, WorkRefines,
         Invisible
    <3>3. CASE Release(t)
      BY <3>3, ReleaseRefines DEF Pool!Next
    <3> QED
      BY <2>4, <3>1, <3>2, <3>3 DEF Goroutine
  <2> QED
    BY <2>1, <2>2, <2>3, <2>4 DEF Next
<1> QED
  BY InitRefines, Inductive, <1>1, PTL DEF Spec, ImplementsPool, Pool!Spec
=============================================================================
