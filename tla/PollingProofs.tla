---------------------------- MODULE PollingProofs ----------------------------
(***************************************************************************)
(* Proofs about the ticker for every base, cap, multiplier and width.       *)
(*                                                                         *)
(* Why a poll is early only after a long one: whenever a poll begins, a     *)
(* whole period is left, because a tick is taken as soon as it comes, or    *)
(* was kept by a reset.  So a poll that finds a tick at its end has lasted  *)
(* a period, and without one the next tick is as far away as the reset has  *)
(* made it (Clockwork).                                                     *)
(***************************************************************************)
EXTENDS Polling, TLAPS

Clockwork ==
  status = "up" =>
    /\ running /\ ~tick  => left + spent = period
    /\ running /\ tick   => spent >= period
    /\ ~running /\ ~tick => left + rest = period
    /\ ~running /\ tick  => left = period /\ (overran \/ rest >= period)
    /\ ~running          => asked = period

\* The parts of TypeOK, for provers that do not mix numbers and truth values.
NumbersOK ==
  /\ level \in 0 .. MaxFailures
  /\ period \in 1 .. Patience
  /\ left \in 1 .. period
  /\ spent \in 0 .. Patience /\ rest \in 0 .. Patience
  /\ asked \in MinInt .. MaxInt

FlagsOK ==
  /\ tick \in BOOLEAN /\ running \in BOOLEAN /\ cancelled \in BOOLEAN
  /\ status \in {"up", "returned", "panicked"}
  /\ overran \in BOOLEAN

IInv == NumbersOK /\ FlagsOK /\ Clockwork

LEMMA TypesOfInv == IInv => TypeOK
BY DEF IInv, NumbersOK, FlagsOK, TypeOK

LEMMA PatienceEnough ==
  /\ Patience \in Nat \ {0} /\ Base <= Patience
  /\ Enabled => MaxInterval <= Patience
BY PollingAssumption DEF Patience

LEMMA WidthFits ==
  MinInt \in Int /\ MaxInt \in Nat /\ MinInt <= 0 /\ Base <= MaxInt
BY PollingAssumption, PowersGrow DEF MinInt, MaxInt

\* Any interval is a machine integer, and none is beyond Patience.
LEMMA IntervalsBounded ==
  ASSUME NEW success \in BOOLEAN, NEW n \in 0 .. MaxFailures,
         success \/ n < MaxFailures, NEW d \in Intervals(success, n)
  PROVE  d \in MinInt .. MaxInt /\ d <= Patience
<1>1. CASE success \/ ~Enabled
  BY <1>1, WidthFits, PatienceEnough, PollingAssumption DEF Intervals
<1>2. CASE ~success /\ Enabled
  <2>1. PICK b \in Backoff(n + 1) : d = Capped(b)
    BY <1>2 DEF Intervals
  <2>2. b \in MinInt .. MaxInt
    <3>1. n + 1 - 1 = n
      BY PollingAssumption
    <3>2. b \in Duration(Scaled(n))
      BY <2>1, <3>1 DEF Backoff
    <3>3. Scaled(n) \in Nat
      BY PowersGrow
    <3> QED
      BY <3>2, <3>3, WidthFits DEF Duration
  <2>3. MaxInterval \in MinInt .. MaxInt
    BY PollingAssumption DEF MinInt, MaxInt
  <2> QED
    BY <1>2, <2>1, <2>2, <2>3, WidthFits, PatienceEnough DEF Capped
<1> QED
  BY <1>1, <1>2

LEMMA UptoBounded ==
  ASSUME NEW t \in 0 .. Patience
  PROVE  /\ Upto(t + 1) \in 0 .. Patience
         /\ \A p \in 0 .. Patience : t + 1 >= p => Upto(t + 1) >= p
         /\ t < Patience => Upto(t + 1) = t + 1
BY PatienceEnough DEF Upto

LEMMA InitIInv == Init => IInv
<1> SUFFICES ASSUME Init PROVE IInv
  OBVIOUS
<1>1. NumbersOK
  BY PollingAssumption, PatienceEnough, WidthFits DEF Init, NumbersOK
<1>2. FlagsOK
  BY DEF Init, FlagsOK
<1>3. Clockwork
  BY PollingAssumption DEF Init, Clockwork
<1> QED
  BY <1>1, <1>2, <1>3 DEF IInv

LEMMA ElapseIInv ==
  ASSUME IInv, Elapse
  PROVE  IInv'
<1>1. /\ Patience \in Nat \ {0} /\ period \in 1 .. Patience /\ left \in 1 .. period
      /\ spent \in 0 .. Patience /\ rest \in 0 .. Patience
  BY PatienceEnough DEF IInv, NumbersOK
<1>2. /\ status = "up" /\ status' = "up" /\ period' = period /\ asked' = asked
      /\ UNCHANGED <<level, running, cancelled, overran>>
      /\ left' = IF left = 1 THEN period ELSE left - 1
      /\ tick' = (tick \/ left = 1)
      /\ ~running => ~tick
  BY DEF Elapse, Ready
<1>3. running => spent' = Upto(spent + 1) /\ rest' = rest
  BY DEF Elapse
<1>4. ~running => rest' = Upto(rest + 1) /\ spent' = spent
  BY DEF Elapse
<1>5. /\ Upto(spent + 1) \in 0 .. Patience /\ Upto(rest + 1) \in 0 .. Patience
      /\ spent + 1 >= period => Upto(spent + 1) >= period
      /\ spent < Patience => Upto(spent + 1) = spent + 1
      /\ rest < Patience => Upto(rest + 1) = rest + 1
  BY <1>1, UptoBounded
<1>6. NumbersOK'
  <2>1. spent' \in 0 .. Patience /\ rest' \in 0 .. Patience
    BY <1>1, <1>3, <1>4, <1>5
  <2> QED
    BY <1>1, <1>2, <2>1 DEF IInv, NumbersOK
<1>7. FlagsOK'
  BY <1>2 DEF IInv, FlagsOK
<1>8. CASE running /\ ~tick
  <2>1. left + spent = period
    BY <1>2, <1>8 DEF IInv, Clockwork
  <2>2. CASE left = 1
    <3>1. tick' /\ running'
      BY <1>2, <1>8, <2>2
    <3>2. spent + 1 >= period
      BY <1>1, <2>1, <2>2
    <3>3. spent' >= period
      BY <1>3, <1>5, <1>8, <3>2
    <3> QED
      BY <1>2, <1>6, <1>7, <3>1, <3>3 DEF IInv, Clockwork
  <2>3. CASE left # 1
    <3>1. ~tick' /\ running'
      BY <1>2, <1>8, <2>3
    <3>2. left' + spent' = period
      BY <1>1, <1>2, <1>3, <1>5, <1>8, <2>1, <2>3
    <3> QED
      BY <1>2, <1>6, <1>7, <3>1, <3>2 DEF IInv, Clockwork
  <2> QED
    BY <2>2, <2>3
<1>9. CASE running /\ tick
  <2>1. spent >= period
    BY <1>2, <1>9 DEF IInv, Clockwork
  <2>2. tick' /\ running'
    BY <1>2, <1>9
  <2>3. spent + 1 >= period
    BY <1>1, <2>1
  <2>4. spent' >= period
    BY <1>3, <1>5, <1>9, <2>3
  <2> QED
    BY <1>2, <1>6, <1>7, <2>2, <2>4 DEF IInv, Clockwork
<1>10. CASE ~running
  <2>1. ~tick /\ left + rest = period /\ asked = period /\ ~running'
    BY <1>2, <1>10 DEF IInv, Clockwork
  <2>2. rest' = rest + 1
    BY <1>1, <1>4, <1>5, <1>10, <2>1
  <2>3. CASE left = 1
    <3>1. tick' /\ left' = period
      BY <1>2, <2>3
    <3>2. rest' >= period
      BY <1>1, <2>1, <2>2, <2>3
    <3> QED
      BY <1>2, <1>6, <1>7, <2>1, <3>1, <3>2 DEF IInv, Clockwork
  <2>4. CASE left # 1
    <3>1. ~tick'
      BY <1>2, <2>1, <2>4
    <3>2. left' + rest' = period
      BY <1>1, <1>2, <2>1, <2>2, <2>4
    <3> QED
      BY <1>2, <1>6, <1>7, <2>1, <3>1, <3>2 DEF IInv, Clockwork
  <2> QED
    BY <2>3, <2>4
<1> QED
  BY <1>8, <1>9, <1>10 DEF IInv, FlagsOK

LEMMA FinishIInv ==
  ASSUME IInv, NEW success \in BOOLEAN, Finish(success)
  PROVE  IInv'
<1>1. PICK d \in Intervals(success, level) :
        /\ asked' = d
        /\ IF d > 0
             THEN period' = d /\ left' = d /\ UNCHANGED status
             ELSE status' = "panicked" /\ UNCHANGED <<period, left>>
  BY DEF Finish
<1>2. d \in MinInt .. MaxInt /\ d <= Patience
  BY <1>1, IntervalsBounded DEF Finish, IInv, NumbersOK
<1>3. Patience \in Nat \ {0} /\ MinInt \in Int /\ MaxInt \in Int
  BY PatienceEnough, WidthFits
<1>4. level' \in 0 .. MaxFailures
  BY PollingAssumption DEF Finish, IInv, NumbersOK
<1>5. /\ rest' = 0 /\ ~running' /\ running /\ status = "up" /\ running' \in BOOLEAN
      /\ UNCHANGED <<tick, cancelled, spent>>
  BY DEF Finish
<1>6. overran' = (spent >= period)
  BY DEF Finish
<1>7. NumbersOK'
  BY <1>1, <1>2, <1>3, <1>4, <1>5 DEF IInv, NumbersOK
<1>8. overran' \in BOOLEAN
  BY <1>6
<1>9. FlagsOK'
  BY <1>1, <1>5, <1>8 DEF IInv, FlagsOK
<1>10. tick => overran'
  BY <1>5, <1>6 DEF IInv, Clockwork
<1>11. status' = "up" => left' = d /\ period' = d /\ left' + rest' = period'
  BY <1>1, <1>2, <1>3, <1>5
<1>12. Clockwork'
  BY <1>1, <1>5, <1>10, <1>11 DEF Clockwork
<1> QED
  BY <1>7, <1>9, <1>12 DEF IInv

LEMMA NextIInv == IInv /\ [Next]_vars => IInv'
<1> SUFFICES ASSUME IInv, [Next]_vars PROVE IInv'
  OBVIOUS
<1>1. CASE Elapse
  BY <1>1, ElapseIInv
<1>2. CASE Poll
  <2>1. NumbersOK'
    BY <1>2, PatienceEnough DEF Poll, IInv, NumbersOK
  <2>2. FlagsOK'
    BY <1>2 DEF Poll, IInv, FlagsOK
  <2>3. status = "up" /\ ~running /\ tick /\ running' /\ ~tick' /\ spent' = 0
        /\ UNCHANGED <<left, period>>
    BY <1>2 DEF Poll
  <2>4. left = period
    BY <2>3 DEF IInv, Clockwork
  <2>5. left' + spent' = period'
    BY <2>3, <2>4 DEF IInv, NumbersOK
  <2>6. Clockwork'
    BY <2>3, <2>5 DEF Clockwork
  <2> QED
    BY <2>1, <2>2, <2>6 DEF IInv
<1>3. ASSUME NEW success \in BOOLEAN, Finish(success) PROVE IInv'
  BY <1>3, FinishIInv
<1>4. CASE Cancel \/ Return \/ UNCHANGED vars
  <2>1. NumbersOK' /\ Clockwork'
    BY <1>4 DEF Cancel, Return, vars, IInv, NumbersOK, Clockwork
  <2>2. FlagsOK'
    BY <1>4 DEF Cancel, Return, vars, IInv, FlagsOK
  <2> QED
    BY <2>1, <2>2 DEF IInv
<1> QED
  BY <1>1, <1>2, <1>3, <1>4 DEF Next

\* The state of the polling loop is type correct; in particular the period of
\* the ticker is always positive and at most the longest interval
\* (strategy.go:49-81,182-208).
THEOREM TypeCorrect == Spec => []TypeOK
<1>1. Init => IInv
  BY InitIInv
<1>2. IInv /\ [Next]_vars => IInv'
  BY NextIInv
<1> QED
  BY <1>1, <1>2, TypesOfInv, PTL DEF Spec

\* A poll that starts before the interval asked for is over follows one that
\* lasted a period of the ticker (strategy.go:194-203).
THEOREM EarlyOnlyThen == Spec => EarlyOnlyAfterALongPoll
<1>1. Init => IInv
  BY InitIInv
<1>2. IInv /\ [Next]_vars => IInv'
  BY NextIInv
<1>3. IInv /\ [Next]_vars => [Poll /\ rest < asked => overran]_vars
  <2> SUFFICES ASSUME IInv, Poll, rest < asked PROVE overran
    OBVIOUS
  <2>1. asked = period /\ (overran \/ rest >= period)
    BY DEF Poll, IInv, Clockwork
  <2>2. ~(rest >= period)
    BY <2>1, PatienceEnough DEF IInv, NumbersOK
  <2> QED
    BY <2>1, <2>2
<1> QED
  BY <1>1, <1>2, <1>3, PTL DEF Spec, EarlyOnlyAfterALongPoll

-----------------------------------------------------------------------------
\* Every power of the streak fits the machine integer, so that the conversion
\* to a Duration is the identity.
Fits == \A n \in 0 .. MaxFailures : Scaled(n) <= MaxInt

\* What was asked for last is the answer to the failures counted so far.
Answered ==
  IF level = 0 THEN asked = Base ELSE asked \in Intervals(FALSE, level - 1)

\* With powers that fit, there is one answer to a failure.
LEMMA IntervalsFitting ==
  ASSUME Fits, Enabled, NEW n \in 0 .. MaxFailures
  PROVE  Intervals(FALSE, n) = {Capped(Scaled(n))}
<1>1. n + 1 - 1 = n
  BY PollingAssumption
<1>2. Duration(Scaled(n)) = {Scaled(n)}
  BY DEF Fits, Duration
<1> QED
  BY <1>1, <1>2 DEF Intervals, Backoff

LEMMA AnsweredNext ==
  ASSUME IInv, Answered, [Next]_vars
  PROVE  Answered'
<1>1. ASSUME NEW success \in BOOLEAN, Finish(success) PROVE Answered'
  <2>1. asked' \in Intervals(success, level)
    BY <1>1 DEF Finish
  <2>2. CASE success \/ ~Enabled
    BY <1>1, <2>1, <2>2 DEF Finish, Intervals, Answered
  <2>3. CASE ~success /\ Enabled
    <3>1. level' = level + 1 /\ level \in Nat
      BY <1>1, <2>3, PollingAssumption DEF Finish, IInv, NumbersOK
    <3>2. level' # 0 /\ level' - 1 = level
      BY <3>1
    <3>3. success = FALSE
      BY <2>3
    <3> QED
      BY <2>1, <3>2, <3>3 DEF Answered, Intervals
  <2> QED
    BY <2>2, <2>3
<1>2. CASE Elapse \/ Poll \/ Cancel \/ Return \/ UNCHANGED vars
  BY <1>2 DEF Elapse, Poll, Cancel, Return, vars, Answered, Intervals
<1> QED
  BY <1>1, <1>2 DEF Next

\* With a cap that is positive and powers that fit, no interval makes the ticker
\* panic; nothing in the configuration asks for either (strategy.go:65-72,
\* config.go:122-127).
THEOREM IntervalsAreTimes ==
  ASSUME MaxInterval > 0, Fits
  PROVE  Spec => []IntervalIsATime
<1>1. Init => IInv /\ IntervalIsATime
  BY InitIInv DEF Init, IntervalIsATime
<1>2. IInv /\ IntervalIsATime /\ [Next]_vars => IInv' /\ IntervalIsATime'
  <2> SUFFICES ASSUME IInv, IntervalIsATime, [Next]_vars PROVE IntervalIsATime'
    BY NextIInv
  <2>1. ASSUME NEW success \in BOOLEAN, Finish(success) PROVE IntervalIsATime'
    <3>1. PICK d \in Intervals(success, level) :
            d > 0 => UNCHANGED status
      BY <2>1 DEF Finish
    <3>2. d > 0
      <4>1. CASE success \/ ~Enabled
        BY <3>1, <4>1, PollingAssumption DEF Intervals
      <4>2. CASE ~success /\ Enabled
        <5>1. level \in 0 .. MaxFailures
          BY DEF IInv, NumbersOK
        <5>2. success = FALSE
          BY <4>2
        <5>3. d = Capped(Scaled(level))
          BY <3>1, <4>2, <5>1, <5>2, IntervalsFitting
        <5>4. Scaled(level) >= Base /\ Scaled(level) \in Nat
          BY <5>1, PowersGrow
        <5> QED
          BY <5>3, <5>4, PollingAssumption DEF Capped
      <4> QED
        BY <4>1, <4>2
    <3> QED
      BY <2>1, <3>1, <3>2 DEF Finish, IntervalIsATime
  <2>2. CASE Elapse \/ Poll \/ Cancel \/ Return \/ UNCHANGED vars
    BY <2>2 DEF Elapse, Poll, Cancel, Return, vars, IntervalIsATime
  <2> QED
    BY <2>1, <2>2 DEF Next
<1> QED
  BY <1>1, <1>2, PTL DEF Spec

\* With a cap that is not below the base, and powers that fit, failures never
\* make the agent poll more often (strategy.go:49-81).
THEOREM SlowerAndSlower ==
  ASSUME MaxInterval >= Base, Fits
  PROVE  Spec => FailuresNeverSpeedUp
<1>1. Init => IInv /\ Answered
  BY InitIInv DEF Init, Answered
<1>2. IInv /\ Answered /\ [Next]_vars => IInv' /\ Answered'
  BY NextIInv, AnsweredNext
<1>3. IInv /\ Answered /\ [Next]_vars =>
        [\A success \in BOOLEAN : Finish(success) =>
           /\ asked' >= Base
           /\ ~success => asked' >= asked]_vars
  <2> SUFFICES ASSUME IInv, Answered, NEW success \in BOOLEAN, Finish(success)
               PROVE  asked' >= Base /\ (~success => asked' >= asked)
    BY DEF vars
  <2>1. asked' \in Intervals(success, level) /\ level \in 0 .. MaxFailures
    BY DEF Finish, IInv, NumbersOK
  <2>2. CASE success
    BY <2>1, <2>2, PollingAssumption DEF Intervals
  <2>3. CASE ~Enabled
    BY <2>1, <2>3, PollingAssumption DEF Intervals, Answered
  <2>4. CASE ~success /\ Enabled
    <3>1. success = FALSE
      BY <2>4
    <3>2. asked' = Capped(Scaled(level)) /\ Scaled(level) >= Base /\ Scaled(level) \in Nat
      BY <2>1, <2>4, <3>1, IntervalsFitting, PowersGrow
    <3>3. asked' >= Base
      BY <3>2, PollingAssumption DEF Capped
    <3>4. CASE level = 0
      BY <3>3, <3>4 DEF Answered
    <3>5. CASE level # 0
      <4>1. level - 1 \in 0 .. MaxFailures /\ level - 1 \in 0 .. MaxFailures - 1
        BY <2>1, <3>5, PollingAssumption
      <4>2. asked = Capped(Scaled(level - 1)) /\ Scaled(level - 1) \in Nat
        BY <2>4, <3>5, <4>1, IntervalsFitting, PowersGrow DEF Answered
      <4>3. Scaled(level - 1) <= Scaled(level - 1 + 1) /\ level - 1 + 1 = level
        BY <2>1, <4>1, PowersGrow, PollingAssumption
      <4>4. asked' >= asked
        BY <3>2, <4>2, <4>3, PollingAssumption DEF Capped
      <4> QED
        BY <3>3, <4>4
    <3> QED
      BY <3>4, <3>5
  <2> QED
    BY <2>2, <2>3, <2>4
<1> QED
  BY <1>1, <1>2, <1>3, PTL DEF Spec, FailuresNeverSpeedUp
=============================================================================
