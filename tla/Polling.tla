------------------------------- MODULE Polling -------------------------------
(***************************************************************************)
(* When the agent polls: the ticker of PollingController, the strategy that *)
(* sets its period (exponential backoff, or a fixed interval) and the       *)
(* signal that ends it.  What a poll does is in the modules of the use      *)
(* cases; here it takes some time and succeeds or fails.                    *)
(*                                                                         *)
(* Time passes in whole units while the loop has nothing to do or a poll    *)
(* runs; a ready loop does not let it pass.  Durations are machine integers *)
(* of Width bits.                                                           *)
(***************************************************************************)
EXTENDS Integers

CONSTANTS
  Enabled,       \* Backoff.Enabled
  Base,          \* PollInterval, which config.go:122 requires to be positive
  MaxInterval,   \* Backoff.MaxInterval, which nothing checks
  Num, Den,      \* Backoff.Multiplier is Num / Den
  Width,         \* 64 in the code
  MaxFailures    \* bound: failures in a row

ASSUME PollingAssumption ==
  /\ Enabled \in BOOLEAN
  /\ Base \in Nat \ {0}
  /\ Num \in Int /\ Den \in Nat \ {0}
  /\ Width \in Nat \ {0} /\ Base < 2^(Width - 1)
  /\ MaxInterval \in -(2^(Width - 1)) .. 2^(Width - 1) - 1
  /\ MaxFailures \in Nat

VARIABLES
  level,      \* currentBackoff: failures in a row
  period,     \* what the ticker was last reset to
  left,       \* time until the ticker fires
  tick,       \* ticker.C holds a tick
  running,    \* a poll is in progress
  cancelled,  \* the context of Start is done
  status,     \* "up", "returned" from Start, or "panicked"
  spent,      \* how long the last poll took, up to Patience
  rest,       \* time since it ended, up to Patience
  overran,    \* it lasted as long as the period of the ticker
  asked       \* the interval asked for when it ended

vars == <<level, period, left, tick, running, cancelled, status, spent, rest, overran, asked>>

-----------------------------------------------------------------------------
\* A multiplier of at most one is replaced by two.
Multiplier == IF Num <= Den THEN [num |-> 2, den |-> 1]
                            ELSE [num |-> Num, den |-> Den]

\* The base interval times the n-th power of the multiplier.
Scaled(n) == (Base * Multiplier.num^n) \div Multiplier.den^n

\* Arithmetic the provers do not have: a power of zero is one, powers of positive
\* numbers are positive, and those of a multiplier above one grow.
ASSUME PowersGrow ==
  /\ 2^(Width - 1) \in Nat \ {0}
  /\ Scaled(0) = Base
  /\ \A n \in 0 .. MaxFailures : Scaled(n) \in Nat /\ Scaled(n) >= Base
  /\ \A n \in 0 .. MaxFailures - 1 : Scaled(n) <= Scaled(n + 1)

MinInt == -(2^(Width - 1))
MaxInt == 2^(Width - 1) - 1

\* Converting a float64 that no Duration can hold: amd64 yields the least
\* integer, arm64 the greatest one.
Duration(x) == IF x <= MaxInt THEN {x} ELSE {MinInt, MaxInt}

\* The first failure lengthens the interval already.
BackoffFromFirst(n) == Duration(Scaled(n))

Backoff(n) == Duration(Scaled(n - 1))

\* No cap.
Uncapped(d) == d

\* An interval beyond the cap starts again from the base.
CappedToBase(d) == IF d > MaxInterval THEN Base ELSE d

Capped(d) == IF d > MaxInterval THEN MaxInterval ELSE d

\* NextInterval, given the failures counted so far.
Intervals(success, n) ==
  IF success \/ ~Enabled THEN {Base} ELSE {Capped(d) : d \in Backoff(n + 1)}

Patience == IF Enabled /\ MaxInterval > Base THEN MaxInterval ELSE Base
Upto(t)  == IF t > Patience THEN Patience ELSE t

-----------------------------------------------------------------------------
\* Start asks for a first interval, as after a success.
Init ==
  /\ level = 0
  /\ period = Base /\ left = Base
  /\ tick = FALSE
  /\ running = FALSE
  /\ cancelled = FALSE
  /\ status = "up"
  /\ spent = 0 /\ rest = 0 /\ overran = FALSE /\ asked = Base

\* One case of the select is ready.
Ready == ~running /\ (tick \/ cancelled)

\* Time passes.  A tick that finds the channel full is dropped.
Elapse ==
  /\ status = "up" /\ ~Ready
  /\ left' = IF left = 1 THEN period ELSE left - 1
  /\ tick' = (tick \/ left = 1)
  /\ spent' = IF running THEN Upto(spent + 1) ELSE spent
  /\ rest' = IF running THEN rest ELSE Upto(rest + 1)
  /\ UNCHANGED <<level, period, running, cancelled, status, overran, asked>>

Poll ==
  /\ status = "up" /\ ~running /\ tick
  /\ tick' = FALSE
  /\ running' = TRUE
  /\ spent' = 0
  /\ UNCHANGED <<level, period, left, cancelled, status, rest, overran, asked>>

\* The ticker is not reset.
FinishWithoutReset(success) ==
  /\ status = "up" /\ running
  /\ success \/ level < MaxFailures
  /\ running' = FALSE
  /\ level' = IF success \/ ~Enabled THEN 0 ELSE level + 1
  /\ asked' \in Intervals(success, level)
  /\ rest' = 0
  /\ overran' = (spent >= period)
  /\ UNCHANGED <<period, left, status, tick, cancelled, spent>>

\* The poll returns, the strategy answers and the ticker is reset: its channel
\* keeps the tick it may hold, and a period that is not positive is a panic.
Finish(success) ==
  /\ status = "up" /\ running
  /\ success \/ level < MaxFailures
  /\ running' = FALSE
  /\ level' = IF success \/ ~Enabled THEN 0 ELSE level + 1
  /\ \E interval \in Intervals(success, level) :
       /\ asked' = interval
       /\ IF interval > 0
            THEN period' = interval /\ left' = interval /\ UNCHANGED status
            ELSE status' = "panicked" /\ UNCHANGED <<period, left>>
  /\ rest' = 0
  /\ overran' = (spent >= period)
  /\ UNCHANGED <<tick, cancelled, spent>>

\* SIGINT or SIGTERM; a second one finds nobody listening.
Cancel ==
  /\ status = "up" /\ ~cancelled
  /\ cancelled' = TRUE
  /\ UNCHANGED <<level, period, left, tick, running, status, spent, rest, overran, asked>>

\* A tick goes first.
CanReturnIfNoTick == status = "up" /\ ~running /\ cancelled /\ ~tick

\* The select may take this case although a tick is there, or the other one.
CanReturn == status = "up" /\ ~running /\ cancelled

Return ==
  /\ CanReturn
  /\ status' = "returned"
  /\ UNCHANGED <<level, period, left, tick, running, cancelled, spent, rest, overran, asked>>

Next ==
  \/ Elapse
  \/ Poll
  \/ \E success \in BOOLEAN : Finish(success)
  \/ Cancel
  \/ Return

Spec == Init /\ [][Next]_vars

\* Time passes and polls end.  When both cases are ready Go's select picks one
\* at random, so Return is not passed over for ever.
FairSpec ==
  /\ Spec
  /\ WF_vars(Elapse)
  /\ WF_vars(Poll)
  /\ WF_vars(\E success \in BOOLEAN : Finish(success))
  /\ SF_vars(Return)

-----------------------------------------------------------------------------
TypeOK ==
  /\ level \in 0 .. MaxFailures
  /\ period \in 1 .. Patience
  /\ left \in 1 .. period
  /\ tick \in BOOLEAN /\ running \in BOOLEAN /\ cancelled \in BOOLEAN
  /\ status \in {"up", "returned", "panicked"}
  /\ overran \in BOOLEAN
  /\ spent \in 0 .. Patience /\ rest \in 0 .. Patience
  /\ asked \in MinInt .. MaxInt

\* A streak of failures, as far as it is long, never makes the agent poll more
\* often, and it never polls faster than the base interval asks (strategy.go:61-72).
FailuresNeverSpeedUp ==
  [][\A success \in BOOLEAN : Finish(success) =>
       /\ asked' >= Base
       /\ ~success => asked' >= asked]_vars

\* A poll may start before the interval asked for is over, but only when the
\* poll before it was still running as the ticker fired (strategy.go:194-203).
EarlyOnlyAfterALongPoll ==
  [][Poll /\ rest < asked => overran]_vars

\* Start returns after a signal, whatever the ticker does (strategy.go:191-192).
SignalEndsPolling == cancelled ~> status # "up"

\* The answer of NextInterval is a time to wait, capped (strategy.go:14, :69).
IntervalIsATime == status # "panicked"
=============================================================================
