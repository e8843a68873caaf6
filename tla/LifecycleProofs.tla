--------------------------- MODULE LifecycleProofs ---------------------------
(***************************************************************************)
(* Proofs about the race between the backoff and the liveness probe, for    *)
(* every interval, cap, multiplier, delay and threshold.                    *)
(*                                                                         *)
(* Both arguments set the time the kubelet still gives the process against  *)
(* the time that has passed since the polls began to fail: their sum is     *)
(* bounded from above while the agent is unhealthy (Streaking), which caps  *)
(* the backoff, and from below while polls are short (Prompt0, Prompt1),    *)
(* which saves an agent after one failure.                                  *)
(***************************************************************************)
EXTENDS Lifecycle, PollingProofs

UntilTerm == probeIn + Allowance(misses)
UntilKill == IF ending THEN grace ELSE UntilTerm + Grace

\* The parts of LifeTypeOK, with numbers and truth values apart, and what the
\* kubelet and the process know of each other.
HostNumbers ==
  /\ probeIn \in 0 .. First
  /\ misses \in 0 .. Threshold
  /\ grace \in 0 .. Grace
  /\ outages \in 0 .. MaxOutages
  /\ ~ending => misses < Threshold /\ grace = Grace
  /\ misses > 0 => probeIn <= Period

HostFlags ==
  /\ stage \in {"starting", "serving", "ended"}
  /\ dbUp \in BOOLEAN /\ dbWas \in SUBSET BOOLEAN
  /\ healthy \in BOOLEAN /\ ending \in BOOLEAN /\ slow \in BOOLEAN
  /\ running <=> dbWas # {}

Stages ==
  /\ stage = "serving" => status = "up"
  /\ stage = "starting" => Init /\ ~healthy

HostInv == HostNumbers /\ HostFlags /\ Stages

LifeInv == IInv /\ HostInv

-----------------------------------------------------------------------------
\* A streak of failures: the agent is unhealthy since the first of them ended,
\* and the n-th poll after it begins no earlier than the interval before the
\* last has passed since the (n-1)-th began.
Elapsed ==
  IF running
    THEN spent + (IF level >= 2 THEN Scaled(level - 2) ELSE 0)
    ELSE IF level >= 2 THEN spent + rest ELSE 0

Streaking ==
  stage = "serving" /\ level >= 1 =>
    /\ ~healthy
    /\ Scaled(level - 1) < MaxInterval
    /\ asked = Scaled(level - 1) /\ period = asked
    /\ ~running /\ overran /\ level >= 2 => spent >= Scaled(level - 2)
    /\ UntilKill + Elapsed <= Deadline

StreakInv == Streaking /\ asked < MaxInterval

-----------------------------------------------------------------------------
\* Time since the last poll ended, or the process began to serve.
Since == rest + (IF running THEN spent ELSE 0)

Watched == stage = "serving" /\ ~slow /\ ~ending
Brief   == running => spent <= Short

Regular ==
  Watched =>
    /\ period >= Base
    /\ ~running => ~overran
    /\ level <= 1 => /\ period = Base /\ rest <= Base
                     /\ running => rest = Base

\* No poll has ended yet.
Prompt0 ==
  Watched /\ Brief /\ level = 0 /\ ~healthy => UntilTerm + Since >= InitialDelay + Slack

\* The last poll succeeded: once a probe has been there, none has failed.
PromptOk ==
  Watched /\ level = 0 /\ healthy /\ misses > 0 => probeIn + Since <= Period

\* One poll has failed.
Prompt1 ==
  Watched /\ Brief /\ level = 1 =>
    \/ UntilTerm + Since >= Slack
    \/ UntilTerm + Since + Base + Short >= InitialDelay + Slack

PromptInv ==
  /\ Regular /\ Prompt0 /\ PromptOk /\ Prompt1
  /\ stage = "serving" /\ level >= 1 => ~healthy

-----------------------------------------------------------------------------
\* What is left of the kubelet's patience after m failed probes.
LEMMA AllowanceShrinks ==
  ASSUME NEW m \in Nat, m < Threshold
  PROVE  /\ Allowance(m) \in Nat /\ Slack \in Nat /\ Allowance(m) <= Slack
         /\ m + 1 < Threshold => Allowance(m + 1) + Period = Allowance(m)
         /\ m + 1 = Threshold => Allowance(m) = 0
<1>1. Threshold \in Nat /\ Period \in Nat
  BY LifecycleAssumption
<1>2. \A k \in Nat : k * Period \in Nat /\ (k + 1) * Period = k * Period + Period
  BY <1>1
<1>3. \A j, k \in Nat : (j + k) * Period = j * Period + k * Period
  BY <1>1
<1>4. Threshold - 1 - m \in Nat /\ (Threshold - 1 - m) + m = Threshold - 1
  BY <1>1
<1>5. Slack = Allowance(m) + m * Period
  BY <1>3, <1>4 DEF Slack, Allowance
<1>6. Allowance(m) \in Nat /\ m * Period \in Nat
  BY <1>2, <1>4 DEF Allowance
<1>7. ASSUME m + 1 < Threshold PROVE Allowance(m + 1) + Period = Allowance(m)
  <2>1. Threshold - 1 - (m + 1) \in Nat /\ Threshold - 1 - (m + 1) + 1 = Threshold - 1 - m
    BY <1>1, <1>7
  <2> QED
    BY <1>2, <2>1 DEF Allowance
<1>8. ASSUME m + 1 = Threshold PROVE Allowance(m) = 0
  <2>1. Threshold - 1 - m = 0
    BY <1>1, <1>8
  <2> QED
    BY <1>1, <2>1 DEF Allowance
<1> QED
  BY <1>5, <1>6, <1>7, <1>8

LEMMA FirstEnough ==
  First \in Nat /\ InitialDelay <= First /\ Period <= First
BY LifecycleAssumption DEF First

LEMMA InitHost == LifeInit => HostInv
<1> SUFFICES ASSUME LifeInit PROVE HostInv
  OBVIOUS
<1>1. HostNumbers
  BY LifecycleAssumption, FirstEnough DEF LifeInit, HostNumbers
<1>2. HostFlags
  BY DEF LifeInit, Init, HostFlags
<1>3. Stages
  BY DEF LifeInit, Init, Stages
<1> QED
  BY <1>1, <1>2, <1>3 DEF HostInv

\* Every step of the process is one of the loop, or nothing happens to the loop,
\* or another loop begins.
LEMMA LoopOrNew ==
  ASSUME HostInv, [LifeNext]_lifeVars
  PROVE  [Next]_vars \/ Restart
<1>1. CASE LoopStep
  BY <1>1 DEF LoopStep, BeginPoll, EndPoll, EndLoop, Next
<1>2. CASE Probe
  <2>1. CASE UNCHANGED vars
    BY <2>1
  <2>2. CASE stage = "serving" /\ cancelled' = TRUE
             /\ UNCHANGED <<level, period, left, tick, running, status, spent, rest,
                            overran, asked>>
    <3>1. status = "up"
      BY <2>2 DEF HostInv, Stages
    <3>2. CASE cancelled = TRUE
      BY <2>2, <3>2 DEF vars
    <3>3. CASE cancelled # TRUE
      BY <2>2, <3>1, <3>3 DEF Cancel, Next
    <3> QED
      BY <3>2, <3>3
  <2> QED
    BY <1>2, <2>1, <2>2 DEF Probe
<1>3. CASE Passes
  BY <1>3 DEF Passes, Next
<1>4. CASE Started \/ PingFails \/ SigKill \/ DbFails \/ DbReturns \/ UNCHANGED lifeVars
  BY <1>4 DEF Started, PingFails, SigKill, DbFails, DbReturns, lifeVars
<1> QED
  BY <1>1, <1>2, <1>3, <1>4 DEF LifeNext

LEMMA RestartIInv ==
  ASSUME Restart
  PROVE  Init' /\ IInv'
<1>1. Init'
  BY DEF Restart, NewLoop, Init
<1>2. NumbersOK'
  BY <1>1, PollingAssumption, PatienceEnough, WidthFits DEF Init, NumbersOK
<1>3. FlagsOK'
  BY <1>1 DEF Init, FlagsOK
<1>4. Clockwork'
  BY <1>1, PollingAssumption DEF Init, Clockwork
<1> QED
  BY <1>1, <1>2, <1>3, <1>4 DEF IInv

LEMMA NumbersNext ==
  ASSUME HostNumbers, [LifeNext]_lifeVars
  PROVE  HostNumbers'
<1>1. CASE Probe
  <2>1. probeIn' = Period /\ UNCHANGED <<grace, outages>> /\ misses < Threshold
        /\ grace = Grace /\ ~ending
    BY <1>1 DEF Probe, Probed, hostVars, HostNumbers
  <2>2. misses' = 0 \/ misses' = misses + 1
    BY <1>1 DEF Probe
  <2>3. misses' < Threshold \/ ending' = TRUE
    BY <1>1 DEF Probe
  <2> QED
    BY <2>1, <2>2, <2>3, FirstEnough, LifecycleAssumption DEF HostNumbers
<1>2. CASE Restart
  BY <1>2, FirstEnough, LifecycleAssumption
     DEF Restart, NewContainer, hostVars, HostNumbers
<1>3. CASE Passes
  BY <1>3, FirstEnough, LifecycleAssumption DEF Passes, hostVars, HostNumbers
<1>4. CASE DbFails
  BY <1>4, LifecycleAssumption DEF DbFails, Outage, probeVars, HostNumbers
<1>5. CASE DbReturns
  BY <1>5 DEF DbReturns, probeVars, HostNumbers
<1>6. CASE Started \/ PingFails \/ LoopStep \/ SigKill \/ UNCHANGED lifeVars
  <2>1. UNCHANGED probeVars
    BY <1>6 DEF Started, PingFails, LoopStep, BeginPoll, EndPoll, EndLoop, SigKill, lifeVars
  <2>2. UNCHANGED outages \/ Outage
    BY <1>6
       DEF Started, PingFails, LoopStep, BeginPoll, EndPoll, EndLoop, SigKill, lifeVars,
           hostVars
  <2> QED
    BY <2>1, <2>2, LifecycleAssumption DEF Outage, probeVars, HostNumbers
<1> QED
  BY <1>1, <1>2, <1>3, <1>4, <1>5, <1>6 DEF LifeNext

LEMMA FlagsNext ==
  ASSUME FlagsOK, HostFlags, [LifeNext]_lifeVars
  PROVE  HostFlags'
<1>1. CASE BeginPoll
  BY <1>1 DEF BeginPoll, Poll, hostVars, probeVars, HostFlags
<1>2. ASSUME NEW success \in BOOLEAN, EndPoll(success) PROVE HostFlags'
  <2>1. ~running' /\ dbWas' = {} /\ healthy' = success
    BY <1>2 DEF EndPoll, Finish, Records
  <2>2. slow' \in BOOLEAN
    BY <1>2 DEF EndPoll, HostFlags
  <2>3. stage' \in {"starting", "serving", "ended"}
    BY <1>2 DEF EndPoll
  <2> QED
    BY <1>2, <2>1, <2>2, <2>3 DEF EndPoll, hostVars, probeVars, HostFlags
<1>3. CASE EndLoop
  BY <1>3 DEF EndLoop, Return, hostVars, probeVars, HostFlags
<1>4. CASE Probe
  <2>1. UNCHANGED <<running, dbUp, dbWas, healthy, slow>>
    BY <1>4 DEF Probe, vars, hostVars
  <2>2. stage' \in {"starting", "serving", "ended"} /\ ending' \in BOOLEAN
    BY <1>4 DEF Probe, HostFlags
  <2> QED
    BY <2>1, <2>2 DEF HostFlags
<1>5. CASE Restart
  BY <1>5 DEF Restart, NewContainer, NewLoop, hostVars, HostFlags
<1>6. CASE Passes
  <2>1. UNCHANGED running
    BY <1>6 DEF Passes, Elapse, vars
  <2> QED
    BY <1>6, <2>1 DEF Passes, hostVars, HostFlags
<1>7. CASE DbFails \/ DbReturns
  <2>1. PICK up \in BOOLEAN : /\ dbUp' = up
                              /\ dbWas' = IF running THEN dbWas \cup {up} ELSE dbWas
    BY <1>7 DEF DbFails, DbReturns
  <2>2. dbWas' \in SUBSET BOOLEAN
    BY <2>1 DEF HostFlags
  <2>3. dbWas' # {} <=> dbWas # {}
    BY <2>1 DEF HostFlags
  <2>4. UNCHANGED <<running, stage, healthy, ending, slow>>
    BY <1>7 DEF DbFails, DbReturns, vars, probeVars
  <2> QED
    BY <2>1, <2>2, <2>3, <2>4 DEF HostFlags
<1>8. CASE Started
  <2>1. slow' \in BOOLEAN
    BY <1>8 DEF Started
  <2> QED
    BY <1>8, <2>1 DEF Started, vars, hostVars, probeVars, HostFlags
<1>9. CASE PingFails \/ SigKill \/ UNCHANGED lifeVars
  BY <1>9 DEF PingFails, SigKill, lifeVars, vars, hostVars, probeVars, HostFlags
<1> QED
  BY <1>1, <1>2, <1>3, <1>4, <1>5, <1>6, <1>7, <1>8, <1>9 DEF LifeNext, LoopStep

LEMMA StagesNext ==
  ASSUME Stages, [LifeNext]_lifeVars
  PROVE  Stages'
<1>1. CASE Restart
  BY <1>1, RestartIInv DEF Restart, NewContainer, Stages
<1>2. ASSUME UNCHANGED vars, stage' = "starting" => stage = "starting" /\ healthy' = healthy,
             stage' = "serving" => stage \in {"starting", "serving"}
      PROVE  Stages'
  <2>1. Init => Init'
    BY <1>2 DEF vars, Init
  <2>2. status' = status
    BY <1>2 DEF vars
  <2>3. Init => status = "up"
    BY DEF Init
  <2> QED
    BY <1>2, <2>1, <2>2, <2>3 DEF Stages
<1>3. CASE Started \/ PingFails \/ SigKill \/ DbFails \/ DbReturns \/ UNCHANGED lifeVars
  BY <1>2, <1>3 DEF Started, PingFails, SigKill, DbFails, DbReturns, lifeVars
<1>4. CASE LoopStep
  BY <1>4 DEF LoopStep, BeginPoll, EndPoll, EndLoop, Poll, Stages
<1>5. CASE Probe
  <2>1. CASE UNCHANGED vars
    BY <1>2, <1>5, <2>1 DEF Probe
  <2>2. CASE stage = "serving" /\ UNCHANGED <<status, stage>>
    BY <2>2 DEF Stages
  <2> QED
    BY <1>5, <2>1, <2>2 DEF Probe
<1>6. CASE Passes
  <2>1. CASE UNCHANGED vars
    BY <1>2, <1>6, <2>1 DEF Passes
  <2>2. CASE stage = "serving" /\ UNCHANGED <<status, stage>>
    BY <2>2 DEF Stages
  <2> QED
    BY <1>6, <2>1, <2>2 DEF Passes, Elapse
<1> QED
  BY <1>1, <1>3, <1>4, <1>5, <1>6 DEF LifeNext

LEMMA NextLifeInv == LifeInv /\ [LifeNext]_lifeVars => LifeInv'
<1> SUFFICES ASSUME LifeInv, [LifeNext]_lifeVars PROVE LifeInv'
  OBVIOUS
<1>1. IInv'
  BY LoopOrNew, RestartIInv, NextIInv DEF LifeInv
<1>2. HostInv'
  BY NumbersNext, FlagsNext, StagesNext DEF LifeInv, HostInv, IInv
<1> QED
  BY <1>1, <1>2 DEF LifeInv

LEMMA InitLifeInv == LifeInit => LifeInv
BY InitHost, InitIInv DEF LifeInit, LifeInv

LEMMA TypesOfLife == LifeInv => LifeTypeOK
<1> SUFFICES ASSUME LifeInv PROVE LifeTypeOK
  OBVIOUS
<1>1. TypeOK
  BY TypesOfInv DEF LifeInv
<1>2. HostNumbers /\ HostFlags
  BY DEF LifeInv, HostInv
<1>3. stage = "starting" => ~running /\ ~healthy
  BY DEF LifeInv, HostInv, Stages, Init
<1>4. stage = "serving" => status = "up"
  BY DEF LifeInv, HostInv, Stages
<1> QED
  BY <1>1, <1>2, <1>3, <1>4 DEF HostNumbers, HostFlags, First, LifeTypeOK

\* The state of the process, its container and its health service is type correct;
\* in particular a process that serves has a loop that runs, and one that starts
\* is unhealthy (main.go:147-188, health_service.go:148-153).
THEOREM LifeTypeCorrect == LifeSpec => []LifeTypeOK
<1>1. LifeInit => LifeInv
  BY InitLifeInv
<1>2. LifeInv /\ [LifeNext]_lifeVars => LifeInv'
  BY NextLifeInv
<1> QED
  BY <1>1, <1>2, TypesOfLife, PTL DEF LifeSpec

-----------------------------------------------------------------------------
\* The time left before SIGKILL: it is bounded, it passes, and only a probe that
\* is answered sets it back.
LEMMA PatienceBounded ==
  ASSUME HostNumbers
  PROVE  /\ UntilKill \in Nat /\ UntilKill <= Deadline /\ Deadline \in Nat
         /\ ~ending => Allowance(misses) \in Nat /\ Allowance(misses) <= Slack
<1>1. First \in Nat /\ Grace \in Nat /\ Threshold \in Nat \ {0}
  BY FirstEnough, LifecycleAssumption
<1>2. Slack \in Nat
  BY <1>1, AllowanceShrinks
<1>3. CASE ending
  BY <1>1, <1>2, <1>3 DEF HostNumbers, UntilKill, Deadline
<1>4. CASE ~ending
  <2>1. Allowance(misses) \in Nat /\ Allowance(misses) <= Slack
    BY <1>1, <1>4, AllowanceShrinks DEF HostNumbers
  <2> QED
    BY <1>1, <1>2, <1>4, <2>1 DEF HostNumbers, UntilKill, UntilTerm, Deadline
<1> QED
  BY <1>3, <1>4

LEMMA PatiencePasses ==
  ASSUME HostNumbers, Passes
  PROVE  UntilKill' = UntilKill - 1 /\ (~ending => UntilTerm' = UntilTerm - 1)
<1>1. UNCHANGED <<misses, ending>>
  BY DEF Passes
<1>2. CASE ending
  BY <1>1, <1>2 DEF Passes, UntilKill
<1>3. CASE ~ending
  <2>1. probeIn' = probeIn - 1 /\ probeIn \in Nat
    BY <1>3 DEF Passes, HostNumbers
  <2>2. Allowance(misses) \in Nat /\ Grace \in Nat
    BY <1>3, PatienceBounded, LifecycleAssumption
  <2>3. Allowance(misses)' = Allowance(misses)
    BY <1>1 DEF Allowance
  <2>4. UntilTerm' = UntilTerm - 1
    BY <2>1, <2>2, <2>3 DEF UntilTerm
  <2>5. UntilTerm \in Nat
    BY <2>1, <2>2 DEF UntilTerm
  <2> QED
    BY <1>1, <1>3, <2>2, <2>4, <2>5 DEF UntilKill
<1> QED
  BY <1>2, <1>3

LEMMA FailedProbe ==
  ASSUME HostNumbers, Probe, ~AnswersOk
  PROVE  /\ UntilKill' = UntilKill
         /\ misses' = misses + 1
         /\ ~ending' => UntilTerm' = UntilTerm
         /\ ending' => UntilTerm = 0
<1>1. ~ending /\ misses < Threshold /\ grace = Grace /\ misses \in Nat /\ grace' = grace
      /\ probeIn = 0 /\ probeIn' = Period /\ misses' = misses + 1
  BY DEF Probe, Probed, HostNumbers
<1>2. Threshold \in Nat /\ Period \in Nat /\ Grace \in Nat
  BY LifecycleAssumption
<1>3. CASE misses' < Threshold
  <2>1. ~ending' /\ Allowance(misses + 1) + Period = Allowance(misses)
    BY <1>1, <1>3, AllowanceShrinks DEF Probe
  <2>2. Allowance(misses)' = Allowance(misses + 1)
    BY <1>1 DEF Allowance
  <2>3. Allowance(misses + 1) \in Nat
    BY <1>1, <1>3, AllowanceShrinks
  <2>4. UntilTerm' = UntilTerm
    BY <1>1, <1>2, <2>1, <2>2, <2>3 DEF UntilTerm
  <2> QED
    BY <1>1, <2>1, <2>4 DEF UntilKill
<1>4. CASE ~(misses' < Threshold)
  <2>1. ending' /\ misses + 1 = Threshold
    BY <1>1, <1>2, <1>4 DEF Probe
  <2>2. UntilTerm = 0
    BY <1>1, <2>1, AllowanceShrinks DEF UntilTerm
  <2> QED
    BY <1>1, <1>2, <2>1, <2>2 DEF UntilKill
<1> QED
  BY <1>3, <1>4

\* What Elapse does to the two times a streak is measured by.
LEMMA ElapsedPasses ==
  ASSUME IInv, Elapse
  PROVE  /\ spent \in Nat /\ rest \in Nat /\ spent' \in Nat /\ rest' \in Nat
         /\ running => rest' = rest /\ spent' <= spent + 1
         /\ ~running => spent' = spent /\ rest' <= rest + 1
         /\ running /\ spent' < Patience => spent' = spent + 1
         /\ ~running /\ rest < Patience => rest' = rest + 1
<1>1. spent \in 0 .. Patience /\ rest \in 0 .. Patience /\ Patience \in Nat
  BY PatienceEnough DEF IInv, NumbersOK
<1>2. /\ Upto(spent + 1) \in 0 .. Patience /\ Upto(spent + 1) <= spent + 1
      /\ Upto(spent + 1) < Patience => Upto(spent + 1) = spent + 1
      /\ Upto(rest + 1) \in 0 .. Patience /\ Upto(rest + 1) <= rest + 1
      /\ rest < Patience => Upto(rest + 1) = rest + 1
  BY <1>1 DEF Upto
<1> QED
  BY <1>1, <1>2 DEF Elapse

\* Scaled as a function of the streak.
LEMMA ScaledGrows ==
  ASSUME NEW n \in 0 .. MaxFailures
  PROVE  /\ Scaled(n) \in Nat /\ Scaled(n) >= Base
         /\ n >= 1 => /\ Scaled(n - 1) \in Nat /\ Scaled(n - 1) >= Base
                      /\ Scaled(n - 1) <= Scaled(n)
         /\ n >= 2 => /\ Scaled(n - 2) \in Nat
                      /\ Scaled(n - 2) <= Scaled(n - 1)
<1>1. MaxFailures \in Nat
  BY PollingAssumption
<1>2. \A k \in 0 .. MaxFailures : k >= 1 => Scaled(k - 1) <= Scaled(k)
  <2> SUFFICES ASSUME NEW k \in 0 .. MaxFailures, k >= 1
               PROVE  Scaled(k - 1) <= Scaled(k)
    OBVIOUS
  <2>1. k - 1 \in 0 .. MaxFailures - 1 /\ (k - 1) + 1 = k
    BY <1>1
  <2> QED
    BY <2>1, PowersGrow
<1>3. n >= 1 => n - 1 \in 0 .. MaxFailures
  BY <1>1
<1>4. n >= 2 => n - 2 \in 0 .. MaxFailures /\ (n - 1) - 1 = n - 2 /\ n - 1 >= 1
  BY <1>1
<1> QED
  BY <1>2, <1>3, <1>4, PowersGrow

-----------------------------------------------------------------------------
LEMMA BeginPollStreak ==
  ASSUME LifeInv, StreakInv, BeginPoll
  PROVE  StreakInv'
<1>1. /\ HostNumbers /\ level \in 0 .. MaxFailures /\ stage = "serving"
      /\ spent \in Nat /\ rest \in Nat /\ period \in Nat
  BY PatienceEnough DEF LifeInv, HostInv, IInv, NumbersOK, BeginPoll
<1>2. /\ ~running /\ running' /\ spent' = 0
      /\ UNCHANGED <<level, period, asked, healthy, stage>>
  BY DEF BeginPoll, Poll
<1>3. overran \/ rest >= period
  BY DEF BeginPoll, Poll, LifeInv, IInv, Clockwork
<1>4. UntilKill' = UntilKill
  BY DEF BeginPoll, probeVars, UntilKill, UntilTerm, Allowance
<1>5. asked' < MaxInterval
  BY <1>2 DEF StreakInv
<1>6. ASSUME level >= 1 PROVE Streaking'
  <2>1. /\ ~healthy /\ Scaled(level - 1) < MaxInterval
        /\ asked = Scaled(level - 1) /\ period = asked
        /\ overran /\ level >= 2 => spent >= Scaled(level - 2)
        /\ UntilKill + Elapsed <= Deadline
    BY <1>1, <1>2, <1>6 DEF StreakInv, Streaking
  <2>2. UntilKill \in Nat /\ UntilKill <= Deadline /\ Deadline \in Nat
    BY <1>1, PatienceBounded
  <2>3. UntilKill' + Elapsed' <= Deadline
    <3>1. CASE level = 1
      <4>1. Elapsed' = 0
        BY <1>2, <3>1 DEF Elapsed
      <4> QED
        BY <1>4, <2>2, <4>1
    <3>2. CASE level >= 2
      <4>1. Elapsed = spent + rest /\ Elapsed' = Scaled(level - 2)
        <5>1. Scaled(level - 2) \in Nat
          BY <1>1, <3>2, ScaledGrows
        <5>2. Scaled(level - 2)' = Scaled(level - 2)
          BY <1>2 DEF Scaled
        <5> QED
          BY <1>2, <3>2, <5>1, <5>2 DEF Elapsed
      <4>2. /\ Scaled(level - 2) \in Nat /\ Scaled(level - 1) \in Nat
            /\ Scaled(level - 2) <= Scaled(level - 1)
        BY <1>1, <3>2, ScaledGrows
      <4>3. spent + rest >= Scaled(level - 2)
        BY <1>1, <1>3, <2>1, <3>2, <4>2
      <4> QED
        BY <1>1, <1>4, <2>1, <2>2, <4>1, <4>2, <4>3
    <3> QED
      BY <1>1, <1>6, <3>1, <3>2
  <2>4. Scaled(level - 1)' = Scaled(level - 1)
    BY <1>2 DEF Scaled
  <2>5. Deadline' = Deadline
    BY DEF Deadline, First, Slack, Allowance
  <2> QED
    BY <1>2, <2>1, <2>3, <2>4, <2>5 DEF Streaking
<1>7. ASSUME ~(level >= 1) PROVE Streaking'
  BY <1>2, <1>7 DEF Streaking
<1> QED
  BY <1>5, <1>6, <1>7 DEF StreakInv

\* A poll fails as the next of a streak: the interval asked for is below the cap,
\* or the kubelet would have lost its patience before.
LEMMA EndPollStreak ==
  ASSUME CapIsLate, LifeInv, StreakInv, NEW success \in BOOLEAN, EndPoll(success)
  PROVE  StreakInv'
<1>1. /\ HostNumbers /\ level \in 0 .. MaxFailures /\ stage = "serving"
      /\ spent \in Nat /\ rest \in Nat /\ period \in Nat
      /\ MaxFailures \in Nat /\ MinPoll \in Nat /\ Base \in Nat
      /\ MaxInterval \in Int /\ MinInt \in Int /\ MaxInt \in Int /\ MaxInterval <= MaxInt
  BY PatienceEnough, WidthFits, PollingAssumption, LifecycleAssumption, PowersGrow
     DEF LifeInv, HostInv, IInv, NumbersOK, EndPoll, MaxInt
<1>2. /\ running /\ ~running' /\ rest' = 0 /\ spent' = spent /\ spent >= MinPoll
      /\ healthy' = success /\ overran' = (spent >= period)
      /\ UNCHANGED <<probeIn, misses, ending, grace>>
  BY DEF EndPoll, Finish, Records, probeVars
<1>3. UntilKill' = UntilKill
  BY <1>2 DEF UntilKill, UntilTerm, Allowance
<1>4. UntilKill \in Nat /\ UntilKill <= Deadline /\ Deadline \in Nat /\ Deadline' = Deadline
  BY <1>1, PatienceBounded DEF Deadline, First, Slack, Allowance
<1>5. CASE success \/ ~Enabled
  <2>1. level' = 0 /\ asked' = Base
    BY <1>5 DEF EndPoll, Finish, Intervals
  <2> QED
    BY <2>1 DEF CapIsLate, StreakInv, Streaking
<1>6. CASE ~success /\ Enabled
  <2>1. level' = level + 1 /\ level \in 0 .. MaxFailures - 1 /\ success = FALSE
    BY <1>1, <1>6 DEF EndPoll, Finish
  <2>2. Scaled(level) \in Nat /\ Scaled(level) >= Base
    BY <1>1, ScaledGrows
  <2>3. Scaled(level) < MaxInterval
    <3> SUFFICES ASSUME Scaled(level) >= MaxInterval PROVE FALSE
      BY <1>1, <2>2
    <3>1. level >= 2 /\ Deadline < Scaled(level - 2) + MinPoll
      BY <1>1 DEF CapIsLate
    <3>2. Scaled(level - 2) \in Nat
      BY <1>1, <3>1, ScaledGrows
    <3>3. Elapsed = spent + Scaled(level - 2)
      BY <1>2, <3>1 DEF Elapsed
    <3>4. UntilKill + Elapsed <= Deadline
      BY <1>1, <3>1 DEF StreakInv, Streaking
    <3> QED
      BY <1>1, <1>2, <1>4, <3>1, <3>2, <3>3, <3>4
  <2>4. PICK d \in Intervals(success, level) :
          /\ asked' = d
          /\ d > 0 => period' = d
    BY DEF EndPoll, Finish
  <2>5. d = Scaled(level)
    <3>1. level + 1 - 1 = level
      BY <1>1
    <3>2. Duration(Scaled(level)) = {Scaled(level)}
      BY <1>1, <2>2, <2>3 DEF Duration
    <3>3. Backoff(level + 1) = {Scaled(level)}
      BY <1>1, <3>1, <3>2 DEF Backoff
    <3>4. PICK b \in Backoff(level + 1) : d = Capped(b)
      BY <1>6, <2>4 DEF Intervals
    <3> QED
      BY <1>1, <2>2, <2>3, <3>3, <3>4 DEF Capped
  <2>6. asked' = Scaled(level) /\ period' = asked' /\ asked' < MaxInterval
    BY <1>1, <2>2, <2>3, <2>4, <2>5, PollingAssumption
  <2>7. level' - 1 = level /\ level' >= 1
    BY <1>1, <2>1
  <2>8. Scaled(level' - 1) = Scaled(level)
    BY <2>7
  <2>9. level' >= 2 => spent + 0 <= Elapsed /\ Elapsed \in Nat
                       /\ level' - 2 = level - 1 /\ level >= 1
    <3>1. level >= 2 => Scaled(level - 2) \in Nat
      BY <1>1, ScaledGrows
    <3> QED
      BY <1>1, <1>2, <2>1, <3>1 DEF Elapsed
  <2>10. UntilKill' + Elapsed' <= Deadline
    <3>1. CASE level' >= 2
      <4>1. Elapsed' = spent
        BY <1>1, <1>2, <3>1 DEF Elapsed
      <4>2. UntilKill + Elapsed <= Deadline
        BY <1>1, <2>9, <3>1 DEF StreakInv, Streaking
      <4> QED
        BY <1>1, <1>3, <1>4, <2>9, <3>1, <4>1, <4>2
    <3>2. CASE ~(level' >= 2)
      <4>1. Elapsed' = 0
        BY <1>2, <3>2 DEF Elapsed
      <4> QED
        BY <1>3, <1>4, <4>1
    <3> QED
      BY <3>1, <3>2
  <2>11. overran' /\ level' >= 2 => spent' >= Scaled(level' - 2)
    <3> SUFFICES ASSUME overran', level' >= 2 PROVE spent >= Scaled(level - 1)
      BY <1>2, <2>9
    <3>1. period = Scaled(level - 1)
      BY <1>1, <2>9 DEF StreakInv, Streaking
    <3> QED
      BY <1>2, <3>1
  <2>12. ~healthy'
    BY <1>2, <1>6
  <2>13. Streaking'
    BY <1>4, <2>3, <2>6, <2>8, <2>10, <2>11, <2>12 DEF Streaking
  <2> QED
    BY <2>6, <2>13 DEF StreakInv
<1> QED
  BY <1>5, <1>6

LEMMA PassesStreak ==
  ASSUME LifeInv, StreakInv, Passes
  PROVE  StreakInv'
<1>1. HostNumbers /\ level \in 0 .. MaxFailures /\ MaxFailures \in Nat
  BY PollingAssumption DEF LifeInv, HostInv, IInv, NumbersOK
<1>2. UNCHANGED <<stage, healthy, level, asked, period, running, overran>>
  BY DEF Passes, Elapse, vars
<1>3. ASSUME stage = "serving", level >= 1 PROVE Streaking'
  <2>1. Elapse
    BY <1>3 DEF Passes
  <2>2. /\ ~healthy /\ Scaled(level - 1) < MaxInterval
        /\ asked = Scaled(level - 1) /\ period = asked
        /\ ~running /\ overran /\ level >= 2 => spent >= Scaled(level - 2)
        /\ UntilKill + Elapsed <= Deadline
    BY <1>3 DEF StreakInv, Streaking
  <2>3. /\ spent \in Nat /\ rest \in Nat /\ spent' \in Nat /\ rest' \in Nat
        /\ running => rest' = rest /\ spent' <= spent + 1
        /\ ~running => spent' = spent /\ rest' <= rest + 1
    BY <2>1, ElapsedPasses DEF LifeInv
  <2>4. level >= 2 => Scaled(level - 2) \in Nat
    BY <1>1, ScaledGrows
  <2>5. Elapsed \in Nat /\ Elapsed' \in Nat /\ Elapsed' <= Elapsed + 1
    <3>1. CASE running
      <4>1. /\ level >= 2 => Elapsed = spent + Scaled(level - 2)
            /\ ~(level >= 2) => Elapsed = spent + 0
            /\ level >= 2 => Elapsed' = spent' + Scaled(level - 2)
            /\ ~(level >= 2) => Elapsed' = spent' + 0
        BY <1>2, <3>1 DEF Elapsed, Scaled
      <4> QED
        BY <1>1, <2>3, <2>4, <3>1, <4>1
    <3>2. CASE ~running
      <4>1. /\ level >= 2 => Elapsed = spent + rest
            /\ ~(level >= 2) => Elapsed = 0
            /\ level >= 2 => Elapsed' = spent' + rest'
            /\ ~(level >= 2) => Elapsed' = 0
        BY <1>2, <3>2 DEF Elapsed
      <4> QED
        BY <1>1, <2>3, <3>2, <4>1
    <3> QED
      BY <3>1, <3>2
  <2>6. UntilKill' = UntilKill - 1 /\ UntilKill \in Nat /\ Deadline \in Nat
    BY <1>1, PatiencePasses, PatienceBounded
  <2>7. Deadline' = Deadline /\ Scaled(level - 1)' = Scaled(level - 1)
    BY <1>2 DEF Deadline, First, Slack, Allowance, Scaled
  <2>8. UntilKill' + Elapsed' <= Deadline'
    <3>1. UntilKill + Elapsed <= Deadline
      BY <2>2
    <3>2. \A k, e, next, d \in Nat :
            k + e <= d /\ next <= e + 1 => (k - 1) + next <= d
      OBVIOUS
    <3>3. (UntilKill - 1) + Elapsed' <= Deadline
      BY <2>5, <2>6, <3>1, <3>2
    <3> QED
      BY <2>6, <2>7, <3>3
  <2> QED
    BY <1>2, <2>2, <2>3, <2>7, <2>8 DEF Streaking
<1>4. ASSUME ~(stage = "serving" /\ level >= 1) PROVE Streaking'
  BY <1>2, <1>4 DEF Streaking
<1> QED
  BY <1>2, <1>3, <1>4 DEF StreakInv

\* What leaves the loop and the kubelet's patience alone, or ends the process.
LEMMA QuietStreak ==
  ASSUME StreakInv, asked' = asked,
         stage' = "serving" /\ level' >= 1 =>
           UNCHANGED <<stage, healthy, level, period, running, overran, spent, rest,
                       UntilKill>>
  PROVE  StreakInv'
<1>1. ASSUME stage' = "serving", level' >= 1 PROVE Streaking'
  <2>1. UNCHANGED <<stage, healthy, level, period, running, overran, spent, rest, UntilKill>>
    BY <1>1
  <2>2. Elapsed' = Elapsed /\ Deadline' = Deadline /\ Scaled(level - 1)' = Scaled(level - 1)
        /\ Scaled(level - 2)' = Scaled(level - 2)
    BY <2>1 DEF Elapsed, Scaled, Deadline, First, Slack, Allowance
  <2> QED
    BY <1>1, <2>1, <2>2 DEF StreakInv, Streaking
<1>2. ASSUME ~(stage' = "serving" /\ level' >= 1) PROVE Streaking'
  BY <1>2 DEF Streaking
<1> QED
  BY <1>1, <1>2 DEF StreakInv

LEMMA NextStreak ==
  ASSUME CapIsLate, LifeInv, StreakInv, [LifeNext]_lifeVars
  PROVE  StreakInv'
<1>1. HostNumbers
  BY DEF LifeInv, HostInv
<1>2. CASE LoopStep
  <2>1. CASE EndLoop
    BY <2>1, QuietStreak DEF EndLoop, Return
  <2> QED
    BY <1>2, <2>1, BeginPollStreak, EndPollStreak DEF LoopStep
<1>3. CASE Probe
  <2>1. UNCHANGED <<asked, level, period, running, overran, spent, rest, healthy>>
    BY <1>3 DEF Probe, vars
  <2>2. ASSUME stage' = "serving", level' >= 1
        PROVE  stage' = stage /\ UntilKill' = UntilKill
    <3>1. stage = "serving" /\ level >= 1
      BY <1>3, <2>1, <2>2 DEF Probe
    <3>2. ~healthy
      BY <3>1 DEF StreakInv, Streaking
    <3> QED
      BY <1>1, <1>3, <2>2, <3>1, <3>2, FailedProbe DEF AnswersOk, Unhealthy
  <2> QED
    BY <2>1, <2>2, QuietStreak
<1>4. CASE Passes
  BY <1>4, PassesStreak
<1>5. CASE Restart
  <2>1. level' = 0 /\ asked' = Base
    BY <1>5 DEF Restart, NewLoop
  <2> QED
    BY <2>1, PollingAssumption DEF CapIsLate, StreakInv, Streaking
<1>6. CASE Started
  <2>1. level' = 0 /\ asked' = asked
    BY <1>6 DEF Started, vars, LifeInv, HostInv, Stages, Init
  <2> QED
    BY <2>1, QuietStreak
<1>7. CASE PingFails \/ SigKill
  BY <1>7, QuietStreak DEF PingFails, SigKill, vars
<1>8. CASE DbFails \/ DbReturns \/ UNCHANGED lifeVars
  <2>1. UNCHANGED <<vars, stage, healthy, probeVars>>
    BY <1>8 DEF DbFails, DbReturns, lifeVars
  <2>2. UntilKill' = UntilKill
    BY <2>1 DEF probeVars, UntilKill, UntilTerm, Allowance
  <2> QED
    BY <2>1, <2>2, QuietStreak DEF vars
<1> QED
  BY <1>2, <1>3, <1>4, <1>5, <1>6, <1>7, <1>8 DEF LifeNext

\* The kubelet ends an agent without a database before its backoff has reached
\* the cap, whenever the interval before the last is as long as the kubelet's
\* patience; with the values of the chart both are 120 s (strategy.go:69-72,
\* health_service.go:148-153, daemonset.yaml:61-66).
THEOREM CapNeverReached ==
  ASSUME CapIsLate
  PROVE  LifeSpec => []BackoffCutShort
<1>1. LifeInit => LifeInv /\ StreakInv
  <2>1. LifeInit => StreakInv
    BY PollingAssumption DEF LifeInit, Init, CapIsLate, StreakInv, Streaking
  <2> QED
    BY <2>1, InitLifeInv
<1>2. LifeInv /\ StreakInv /\ [LifeNext]_lifeVars => LifeInv' /\ StreakInv'
  BY NextLifeInv, NextStreak
<1>3. StreakInv => BackoffCutShort
  BY DEF StreakInv, BackoffCutShort
<1> QED
  BY <1>1, <1>2, <1>3, PTL DEF LifeSpec

-----------------------------------------------------------------------------
\* What the two arguments below need to know of the numbers in a state.
LEMMA PromptNumbers ==
  ASSUME LifeInv
  PROVE  /\ level \in Nat /\ period \in Nat /\ left \in Nat \ {0} /\ spent \in Nat
         /\ rest \in Nat /\ Since \in Nat /\ probeIn \in Nat /\ misses \in Nat
         /\ Slack \in Nat /\ Base \in Nat \ {0} /\ Base <= Patience /\ Short \in Nat
         /\ InitialDelay \in Nat /\ Period \in Nat /\ MinPoll \in Nat
         /\ ~ending => /\ UntilTerm \in Nat /\ UntilTerm >= probeIn
                       /\ misses = 0 => UntilTerm = probeIn + Slack
<1>1. /\ level \in 0 .. MaxFailures /\ period \in 1 .. Patience /\ left \in 1 .. period
      /\ spent \in 0 .. Patience /\ rest \in 0 .. Patience
      /\ probeIn \in 0 .. First /\ misses \in 0 .. Threshold
  BY DEF LifeInv, IInv, NumbersOK, HostInv, HostNumbers
<1>2. /\ Patience \in Nat /\ Base <= Patience /\ MaxFailures \in Nat /\ Base \in Nat \ {0}
      /\ First \in Nat /\ Threshold \in Nat \ {0}
      /\ InitialDelay \in Nat /\ Period \in Nat /\ MinPoll \in Nat /\ Short \in Nat
  BY PatienceEnough, FirstEnough, PollingAssumption, LifecycleAssumption
<1>3. Slack \in Nat
  BY <1>2, AllowanceShrinks
<1>4. ~ending => Allowance(misses) \in Nat
  BY PatienceBounded DEF LifeInv, HostInv
<1>5. misses = 0 => Allowance(misses) = Slack
  BY DEF Slack
<1>6. Since \in Nat
  BY <1>1, <1>2 DEF Since
<1> QED
  BY <1>1, <1>2, <1>3, <1>4, <1>5, <1>6 DEF UntilTerm

LEMMA StartedPrompt ==
  ASSUME LifeInv, ShortPolls, Started
  PROVE  PromptInv'
<1>1. Init' /\ stage' = "serving" /\ ~healthy' /\ UNCHANGED <<probeIn, misses>>
  <2>1. Init /\ ~healthy
    BY DEF Started, LifeInv, HostInv, Stages
  <2>2. Init => Init'
    BY DEF Started, vars, Init
  <2> QED
    BY <2>1, <2>2 DEF Started, probeVars
<1>2. level' = 0 /\ period' = Base /\ rest' = 0 /\ ~running' /\ ~overran'
  BY <1>1 DEF Init
<1>3. /\ Since' = 0 /\ Slack' = Slack
      /\ UntilTerm' = UntilTerm
  BY <1>1, <1>2 DEF Since, Slack, Allowance, UntilTerm
<1>4. Base \in Nat \ {0} /\ probeIn \in Nat /\ misses \in Nat /\ Slack \in Nat
      /\ InitialDelay \in Nat
  BY PromptNumbers
<1>5. Regular'
  BY <1>2, <1>4 DEF Regular
<1>6. Watched' => UntilTerm \in Nat /\ UntilTerm >= InitialDelay + Slack
  <2> SUFFICES ASSUME Watched'
               PROVE  UntilTerm \in Nat /\ UntilTerm >= InitialDelay + Slack
    OBVIOUS
  <2>1. ~ending
    BY DEF Watched, Started, probeVars
  <2>2. ~(probeIn < InitialDelay \/ misses > 0)
    BY DEF Watched, Started
  <2>3. misses = 0 /\ probeIn >= InitialDelay
    BY <1>4, <2>2
  <2>4. UntilTerm = probeIn + Slack
    BY <2>1, <2>3, PromptNumbers
  <2> QED
    BY <1>4, <2>3, <2>4
<1>7. Prompt0'
  <2> SUFFICES ASSUME Watched' PROVE UntilTerm' + Since' >= InitialDelay + Slack'
    BY DEF Prompt0
  <2> QED
    BY <1>3, <1>4, <1>6
<1>8. PromptOk' /\ Prompt1'
  BY <1>1, <1>2 DEF PromptOk, Prompt1
<1> QED
  BY <1>1, <1>2, <1>5, <1>7, <1>8 DEF PromptInv

LEMMA BeginPollPrompt ==
  ASSUME LifeInv, PromptInv, BeginPoll
  PROVE  PromptInv'
<1>1. /\ status = "up" /\ ~running /\ tick /\ running' /\ spent' = 0
      /\ UNCHANGED <<level, period, rest, overran, healthy, stage, slow, ending, probeIn,
                     misses>>
  BY DEF BeginPoll, Poll, probeVars
<1>2. /\ UntilTerm' = UntilTerm /\ Slack' = Slack
      /\ Watched' = Watched
  BY <1>1 DEF UntilTerm, Slack, Allowance, Watched
<1>3. Since' = Since
  BY <1>1, PromptNumbers DEF Since
<1>4. Brief
  BY <1>1 DEF Brief
<1>5. Regular'
  <2> SUFFICES ASSUME Watched PROVE /\ period >= Base
                                    /\ level <= 1 => period = Base /\ rest = Base
    BY <1>1, <1>2, PromptNumbers DEF Regular
  <2>1. /\ ~overran /\ period >= Base
        /\ level <= 1 => period = Base /\ rest <= Base
    BY <1>1 DEF PromptInv, Regular
  <2>2. overran \/ rest >= period
    BY <1>1 DEF LifeInv, IInv, Clockwork
  <2> QED
    BY <2>1, <2>2, PromptNumbers
<1>6. Prompt0' /\ PromptOk' /\ Prompt1'
  BY <1>1, <1>2, <1>3, <1>4 DEF PromptInv, Prompt0, PromptOk, Prompt1
<1> QED
  BY <1>1, <1>5, <1>6 DEF PromptInv

LEMMA PassesPrompt ==
  ASSUME LifeInv, ShortPolls, PromptInv, Passes
  PROVE  PromptInv'
<1>1. UNCHANGED <<stage, healthy, level, period, running, overran, slow, ending, misses>>
  BY DEF Passes, Elapse, vars
<1>2. Watched' = Watched /\ Slack' = Slack
  BY <1>1 DEF Watched, Slack, Allowance
<1>3. ASSUME Watched PROVE Regular' /\ Prompt0' /\ PromptOk' /\ Prompt1'
  <2>1. Elapse /\ ~ending /\ probeIn' = probeIn - 1 /\ status = "up"
    BY <1>3 DEF Watched, Passes, Elapse
  <2>2. HostNumbers
    BY DEF LifeInv, HostInv
  <2>3. UntilTerm' = UntilTerm - 1
    BY <2>1, <2>2, PatiencePasses
  <2>4. /\ spent' \in Nat /\ rest' \in Nat
        /\ running => rest' = rest /\ spent' <= spent + 1
        /\ ~running => spent' = spent /\ rest' <= rest + 1
        /\ running /\ spent' < Patience => spent' = spent + 1
        /\ ~running /\ rest < Patience => rest' = rest + 1
    BY <2>1, ElapsedPasses DEF LifeInv
  <2>5. Since' \in Nat /\ Since' <= Since + 1
    <3>1. rest \in Nat /\ spent \in Nat /\ rest' \in Nat /\ spent' \in Nat
      BY <2>4, PromptNumbers
    <3>2. \A k, n, next \in Nat :
            next <= n + 1 => k + next \in Nat /\ k + next <= (k + n) + 1
      OBVIOUS
    <3>3. CASE running
      <4>1. Since = rest + spent /\ Since' = rest + spent' /\ spent' <= spent + 1
        BY <1>1, <2>4, <3>3 DEF Since
      <4> QED
        BY <3>1, <3>2, <4>1
    <3>4. CASE ~running
      <4>1. Since = 0 + rest /\ Since' = 0 + rest' /\ rest' <= rest + 1
        BY <1>1, <2>4, <3>1, <3>4 DEF Since
      <4> QED
        BY <3>1, <3>2, <4>1
    <3> QED
      BY <3>3, <3>4
  <2>6. ASSUME level <= 1, ~running PROVE rest < Base
    <3>1. period = Base
      BY <1>3, <2>6 DEF PromptInv, Regular
    <3>2. ~tick
      BY <2>1, <2>6 DEF Elapse, Ready
    <3>3. left + rest = period
      BY <2>1, <2>6, <3>2 DEF LifeInv, IInv, Clockwork
    <3> QED
      BY <3>1, <3>3, PromptNumbers
  <2>7. Short < Base
    BY DEF ShortPolls
  <2>8. ASSUME level <= 1, Brief' PROVE Brief /\ Since' = Since + 1
    <3>1. CASE running
      <4>1. spent' <= Short
        BY <1>1, <2>8, <3>1 DEF Brief
      <4>2. spent' = spent + 1 /\ rest' = rest
        <5>1. spent' < Patience
          BY <2>4, <2>7, <4>1, PatienceEnough, PromptNumbers
        <5> QED
          BY <2>4, <3>1, <5>1
      <4>3. spent <= Short
        BY <4>1, <4>2, PromptNumbers
      <4>4. Since = rest + spent /\ Since' = rest' + spent'
        BY <1>1, <3>1 DEF Since
      <4> QED
        BY <3>1, <4>2, <4>3, <4>4, PromptNumbers DEF Brief
    <3>2. CASE ~running
      <4>1. rest' = rest + 1
        <5>1. rest < Patience
          BY <2>6, <2>8, <3>2, PatienceEnough, PromptNumbers
        <5> QED
          BY <2>4, <3>2, <5>1
      <4>2. Since = rest + 0 /\ Since' = rest' + 0
        BY <1>1, <3>2 DEF Since
      <4> QED
        BY <3>2, <4>1, <4>2, PromptNumbers DEF Brief
    <3> QED
      BY <3>1, <3>2
  <2>9. Regular'
    <3>1. /\ period >= Base
          /\ ~running => ~overran
          /\ level <= 1 => period = Base /\ rest <= Base
          /\ level <= 1 /\ running => rest = Base
      BY <1>3 DEF PromptInv, Regular
    <3>2. level <= 1 => rest' <= Base
      BY <2>4, <2>6, <3>1, PromptNumbers
    <3>3. level <= 1 /\ running => rest' = Base
      BY <2>4, <3>1
    <3> QED
      BY <1>1, <3>1, <3>2, <3>3 DEF Regular
  <2>10. UntilTerm \in Nat
    BY <2>1, PromptNumbers
  <2>11. Prompt0'
    <3> SUFFICES ASSUME Brief', level = 0, ~healthy
                 PROVE  UntilTerm' + Since' >= InitialDelay + Slack
      BY <1>1, <1>2 DEF Prompt0
    <3>1. Brief /\ Since' = Since + 1
      BY <2>8
    <3>2. UntilTerm + Since >= InitialDelay + Slack
      BY <1>3, <3>1 DEF PromptInv, Prompt0
    <3> QED
      BY <2>3, <2>10, <3>1, <3>2, PromptNumbers
  <2>12. PromptOk'
    <3> SUFFICES ASSUME level = 0, healthy, misses > 0
                 PROVE  probeIn' + Since' <= Period
      BY <1>1, <1>2 DEF PromptOk
    <3>1. probeIn + Since <= Period
      BY <1>3 DEF PromptInv, PromptOk
    <3> QED
      BY <2>1, <2>5, <3>1, PromptNumbers
  <2>13. Prompt1'
    <3> SUFFICES ASSUME Brief', level = 1
                 PROVE  \/ UntilTerm' + Since' >= Slack
                        \/ UntilTerm' + Since' + Base + Short >= InitialDelay + Slack
      BY <1>1, <1>2 DEF Prompt1
    <3>1. Brief /\ Since' = Since + 1
      BY <2>8
    <3>2. \/ UntilTerm + Since >= Slack
          \/ UntilTerm + Since + Base + Short >= InitialDelay + Slack
      BY <1>3, <3>1 DEF PromptInv, Prompt1
    <3>3. UntilTerm' + Since' = UntilTerm + Since
      BY <2>3, <2>10, <3>1, PromptNumbers
    <3> QED
      BY <3>2, <3>3
  <2> QED
    BY <2>9, <2>11, <2>12, <2>13
<1>4. ASSUME ~Watched PROVE Regular' /\ Prompt0' /\ PromptOk' /\ Prompt1'
  BY <1>2, <1>4 DEF Regular, Prompt0, PromptOk, Prompt1
<1> QED
  BY <1>1, <1>3, <1>4 DEF PromptInv

\* The interval asked for after a failure is positive or a panic; it is the base
\* after the first one, and never shorter.
LEMMA FirstFailureAsksBase ==
  ASSUME ShortPolls, LifeInv, NEW d \in Intervals(FALSE, level), d > 0, level < MaxFailures
  PROVE  d \in Nat /\ d >= Base /\ (level = 0 => d = Base)
<1>1. /\ level \in 0 .. MaxFailures /\ MaxFailures \in Nat /\ Base \in Nat \ {0}
      /\ MinInt \in Int /\ MinInt <= 0 /\ MaxInt \in Nat /\ Base <= MaxInt
      /\ MaxInterval \in Int /\ Base <= MaxInterval /\ Enabled
  BY PollingAssumption, WidthFits, PowersGrow
     DEF LifeInv, IInv, NumbersOK, ShortPolls
<1>2. PICK b \in Backoff(level + 1) : d = Capped(b)
  BY <1>1 DEF Intervals
<1>3. b \in Duration(Scaled(level))
  <2>1. level + 1 - 1 = level
    BY <1>1
  <2> QED
    BY <1>1, <1>2, <2>1 DEF Backoff
<1>4. Scaled(level) \in Nat /\ Scaled(level) >= Base
  BY <1>1, ScaledGrows
<1>5. CASE b = Scaled(level)
  <2>1. level = 0 => b = Base
    BY <1>5, PowersGrow
  <2> QED
    BY <1>1, <1>2, <1>4, <1>5, <2>1 DEF Capped
<1>6. CASE b # Scaled(level)
  <2>1. ~(Scaled(level) <= MaxInt) /\ (b = MinInt \/ b = MaxInt)
    BY <1>3, <1>6 DEF Duration
  <2>2. level # 0
    BY <1>1, <2>1, PowersGrow
  <2>3. b = MaxInt
    BY <1>1, <1>2, <2>1 DEF Capped
  <2> QED
    BY <1>1, <1>2, <2>2, <2>3 DEF Capped
<1> QED
  BY <1>5, <1>6

\* A poll ends while polls are short: the time since the last one, or since the
\* start, is accounted for in what the kubelet has left.
LEMMA EndPollPrompt ==
  ASSUME LifeInv, ShortPolls, PromptInv, NEW success \in BOOLEAN, EndPoll(success)
  PROVE  PromptInv'
<1>1. /\ running /\ ~running' /\ rest' = 0 /\ spent' = spent /\ spent >= MinPoll
      /\ healthy' = success /\ overran' = (spent >= period) /\ stage = "serving"
      /\ level' = IF success \/ ~Enabled THEN 0 ELSE level + 1
      /\ UNCHANGED <<probeIn, misses, ending, grace>>
  BY DEF EndPoll, Finish, Records, probeVars
<1>2. UntilTerm' = UntilTerm /\ Slack' = Slack /\ Since' = 0
  BY <1>1 DEF UntilTerm, Slack, Allowance, Since
<1>3. Enabled /\ Base <= MaxInterval /\ Short < Base /\ Period < Base + MinPoll
  BY DEF ShortPolls
<1>4. stage' = "serving" /\ level' >= 1 => ~healthy'
  BY <1>1
<1>5. ASSUME Watched'
      PROVE  /\ Watched /\ spent <= Short /\ Brief
             /\ Since = rest + spent
             /\ period >= Base /\ (level <= 1 => rest = Base)
             /\ \E d \in Intervals(success, level) : d > 0 /\ period' = d
  <2>1. Watched /\ spent <= Short
    <3>1. ~slow /\ ~(spent > Short) /\ ~ending
      BY <1>1, <1>5 DEF Watched, EndPoll
    <3>2. spent <= Short
      BY <3>1, PromptNumbers
    <3> QED
      BY <1>1, <3>1, <3>2 DEF Watched
  <2>2. \E d \in Intervals(success, level) : d > 0 /\ period' = d
    <3>1. status' = "up"
      BY <1>5 DEF Watched, EndPoll
    <3> QED
      BY <3>1 DEF EndPoll, Finish
  <2> QED
    BY <1>1, <2>1, <2>2 DEF PromptInv, Regular, Brief, Since
<1>6. ASSUME Watched', success
      PROVE  Regular' /\ Prompt0' /\ PromptOk' /\ Prompt1'
  <2>1. level' = 0 /\ period' = Base
    <3>1. Intervals(success, level) = {Base}
      BY <1>6 DEF Intervals
    <3> QED
      BY <1>1, <1>5, <1>6, <3>1
  <2>2. ~overran'
    <3>1. ~(spent >= period)
      BY <1>3, <1>5, <1>6, PromptNumbers
    <3> QED
      BY <1>1, <3>1
  <2>3. Regular'
    BY <1>1, <2>1, <2>2, PromptNumbers DEF Regular
  <2>4. misses > 0 => probeIn <= Period
    BY DEF LifeInv, HostInv, HostNumbers
  <2>5. PromptOk'
    BY <1>1, <1>2, <2>4, PromptNumbers DEF PromptOk
  <2> QED
    BY <1>1, <1>6, <2>1, <2>3, <2>5 DEF Prompt0, Prompt1
<1>7. ASSUME Watched', ~success
      PROVE  Regular' /\ Prompt0' /\ PromptOk' /\ Prompt1'
  <2>1. level' = level + 1 /\ success = FALSE /\ level < MaxFailures
    BY <1>1, <1>3, <1>7 DEF EndPoll, Finish
  <2>2. PICK d \in Intervals(FALSE, level) : d > 0 /\ period' = d
    BY <1>5, <1>7, <2>1
  <2>3. d \in Nat /\ d >= Base /\ (level = 0 => d = Base)
    BY <2>1, <2>2, FirstFailureAsksBase
  <2>4. ~overran'
    <3>1. ~(spent >= period)
      BY <1>3, <1>5, <1>7, PromptNumbers
    <3> QED
      BY <1>1, <3>1
  <2>5. level \in Nat /\ (level' <= 1 => level = 0) /\ level' # 0
    BY <2>1, PromptNumbers
  <2>6. Regular'
    <3>1. period' >= Base /\ (level' <= 1 => period' = Base)
      BY <2>2, <2>3, <2>5
    <3>2. rest' <= Base
      BY <1>1, PromptNumbers
    <3> QED
      BY <1>1, <2>4, <3>1, <3>2 DEF Regular
  <2>7. ASSUME level = 0
        PROVE  UntilTerm >= Slack \/ UntilTerm + Base + Short >= InitialDelay + Slack
    <3>1. Watched /\ Brief /\ Since = Base + spent /\ spent <= Short /\ ~ending
      BY <1>5, <1>7, <2>7, PromptNumbers DEF Watched
    <3>2. UntilTerm \in Nat /\ UntilTerm >= probeIn
          /\ (misses = 0 => UntilTerm = probeIn + Slack)
      BY <3>1, PromptNumbers
    <3>3. CASE healthy
      <4>1. ~(misses > 0)
        <5> SUFFICES ASSUME misses > 0 PROVE FALSE
          OBVIOUS
        <5>1. probeIn + Since <= Period
          BY <2>7, <3>1, <3>3 DEF PromptInv, PromptOk
        <5> QED
          BY <1>1, <1>3, <3>1, <5>1, PromptNumbers
      <4> QED
        BY <3>2, <4>1, PromptNumbers
    <3>4. CASE ~healthy
      <4>1. UntilTerm + Since >= InitialDelay + Slack
        BY <2>7, <3>1, <3>4 DEF PromptInv, Prompt0
      <4> QED
        BY <3>1, <3>2, <4>1, PromptNumbers
    <3> QED
      BY <3>3, <3>4
  <2>8. Prompt1'
    <3> SUFFICES ASSUME level' = 1
                 PROVE  \/ UntilTerm' + Since' >= Slack
                        \/ UntilTerm' + Since' + Base + Short >= InitialDelay + Slack
      BY <1>2 DEF Prompt1
    <3>1. level = 0
      BY <2>1, <2>5
    <3>2. ~ending /\ UntilTerm \in Nat
      BY <1>5, <1>7, PromptNumbers DEF Watched
    <3>3. UntilTerm' + Since' = UntilTerm
      BY <1>2, <3>2
    <3> QED
      BY <2>7, <3>1, <3>3
  <2> QED
    BY <2>5, <2>6, <2>8 DEF Prompt0, PromptOk
<1>8. ASSUME ~Watched' PROVE Regular' /\ Prompt0' /\ PromptOk' /\ Prompt1'
  BY <1>8 DEF Regular, Prompt0, PromptOk, Prompt1
<1> QED
  BY <1>4, <1>6, <1>7, <1>8 DEF PromptInv

LEMMA NextPrompt ==
  ASSUME LifeInv, ShortPolls, PromptInv, [LifeNext]_lifeVars
  PROVE  PromptInv'
<1>1. CASE stage' # "serving"
  BY <1>1 DEF PromptInv, Regular, Prompt0, PromptOk, Prompt1, Watched
<1>2. CASE LoopStep
  BY <1>1, <1>2, BeginPollPrompt, EndPollPrompt DEF LoopStep, EndLoop
<1>3. CASE Probe /\ stage' = "serving"
  <2>1. stage = "serving" /\ ~ending /\ UNCHANGED <<healthy, level, slow>>
        /\ HostNumbers
    BY <1>3 DEF Probe, Probed, vars, LifeInv, HostInv
  <2>2. level' >= 1 => ~healthy'
    BY <2>1 DEF PromptInv
  <2>3. ASSUME Watched' PROVE Regular' /\ Prompt0' /\ PromptOk' /\ Prompt1'
    <3>1. ~ending' /\ UNCHANGED vars /\ Watched
      BY <1>3, <2>1, <2>3 DEF Probe, Watched
    <3>2. /\ UNCHANGED <<level, period, running, overran, rest, spent>>
          /\ Since' = Since /\ Brief' = Brief /\ Slack' = Slack
      BY <3>1 DEF vars, Since, Brief, Slack, Allowance
    <3>3. Regular'
      BY <3>1, <3>2 DEF PromptInv, Regular
    <3>4. CASE healthy
      <4>1. misses' = 0
        BY <1>3, <2>1, <3>4 DEF Probe, AnswersOk, Unhealthy
      <4>2. PromptOk'
        BY <4>1 DEF PromptOk
      <4>3. level # 1
        BY <2>1, <3>4 DEF PromptInv
      <4> QED
        BY <2>1, <3>2, <3>3, <3>4, <4>2, <4>3 DEF Prompt0, Prompt1
    <3>5. CASE ~healthy
      <4>1. UntilTerm' = UntilTerm
        BY <1>3, <2>1, <3>1, <3>5, FailedProbe DEF AnswersOk, Unhealthy
      <4> QED
        BY <2>1, <3>1, <3>2, <3>3, <3>5, <4>1 DEF PromptInv, Prompt0, PromptOk, Prompt1
    <3> QED
      BY <3>4, <3>5
  <2>4. ASSUME ~Watched' PROVE Regular' /\ Prompt0' /\ PromptOk' /\ Prompt1'
    BY <2>4 DEF Regular, Prompt0, PromptOk, Prompt1
  <2> QED
    BY <2>2, <2>3, <2>4 DEF PromptInv
<1>4. CASE Passes
  BY <1>4, PassesPrompt
<1>5. CASE Started
  BY <1>5, StartedPrompt
<1>6. CASE PingFails \/ SigKill \/ Restart
  BY <1>1, <1>6 DEF PingFails, SigKill, Restart, NewContainer
<1>7. CASE DbFails \/ DbReturns \/ UNCHANGED lifeVars
  <2>1. UNCHANGED <<vars, stage, healthy, probeVars, slow>>
    BY <1>7 DEF DbFails, DbReturns, lifeVars
  <2> QED
    BY <2>1
       DEF vars, probeVars, PromptInv, Regular, Prompt0, PromptOk, Prompt1, Watched,
           Brief, Since, UntilTerm, Slack, Allowance
<1> QED
  BY <1>1, <1>2, <1>3, <1>4, <1>5, <1>6, <1>7 DEF LifeNext

\* The step by which the kubelet ends an agent that serves: its health service
\* has been unhealthy for as long as the kubelet is patient.
LEMMA KilledLate ==
  ASSUME LifeInv, ShortPolls, PromptInv, [LifeNext]_lifeVars,
         Killed, stage = "serving", ~slow, spent <= Short
  PROVE  level >= 2
<1>1. Probe
  BY DEF Killed, LifeNext, Started, PingFails, LoopStep, BeginPoll, EndPoll, EndLoop,
         SigKill, Restart, NewContainer, Passes, DbFails, DbReturns, probeVars, lifeVars
<1>2. Watched /\ Brief /\ HostNumbers
  BY DEF Killed, Watched, Brief, LifeInv, HostInv
<1>3. ~AnswersOk
  <2> SUFFICES ASSUME AnswersOk PROVE FALSE
    OBVIOUS
  <2>1. misses' = 0
    BY <1>1 DEF Probe
  <2>2. misses' < Threshold
    BY <2>1, LifecycleAssumption
  <2> QED
    BY <1>1, <2>2 DEF Probe, Killed, Probed
<1>4. UntilTerm = 0 /\ ~healthy
  BY <1>1, <1>2, <1>3, FailedProbe DEF Killed, AnswersOk, Unhealthy
<1>5. level <= 1 => Since <= Base + Short
  <2> SUFFICES ASSUME level <= 1 PROVE Since <= Base + Short
    OBVIOUS
  <2>1. rest <= Base
    BY <1>2 DEF PromptInv, Regular
  <2>2. Since = rest + spent \/ Since = rest + 0
    BY DEF Since
  <2> QED
    BY <2>1, <2>2, PromptNumbers
<1>6. Base + Short < Slack /\ 2 * (Base + Short) < InitialDelay + Slack
  BY DEF ShortPolls
<1>7. level # 0
  <2> SUFFICES ASSUME level = 0 PROVE FALSE
    OBVIOUS
  <2>1. UntilTerm + Since >= InitialDelay + Slack
    BY <1>2, <1>4 DEF PromptInv, Prompt0
  <2> QED
    BY <1>4, <1>5, <1>6, <2>1, PromptNumbers
<1>8. level # 1
  <2> SUFFICES ASSUME level = 1 PROVE FALSE
    OBVIOUS
  <2>1. \/ UntilTerm + Since >= Slack
        \/ UntilTerm + Since + Base + Short >= InitialDelay + Slack
    BY <1>2 DEF PromptInv, Prompt1
  <2> QED
    BY <1>4, <1>5, <1>6, <2>1, PromptNumbers
<1> QED
  BY <1>7, <1>8, PromptNumbers

\* While polls are short the kubelet ends an agent only after two failures in a
\* row, if the base interval and a poll fit into its patience, and twice into
\* that and the delay before the first probe.  With the values of the chart every
\* poll below 15 s is short (strategy.go:65-67, daemonset.yaml:61-66, main.go:151-162).
THEOREM TwoFailuresFirst ==
  ASSUME ShortPolls
  PROVE  LifeSpec => KilledAfterTwoFailures
<1>1. LifeInit => LifeInv /\ PromptInv
  <2>1. LifeInit => PromptInv
    BY DEF LifeInit, PromptInv, Regular, Prompt0, PromptOk, Prompt1, Watched
  <2> QED
    BY <2>1, InitLifeInv
<1>2. LifeInv /\ PromptInv /\ [LifeNext]_lifeVars => LifeInv' /\ PromptInv'
  BY NextLifeInv, NextPrompt
<1>3. LifeInv /\ PromptInv /\ [LifeNext]_lifeVars =>
        [Killed /\ stage = "serving" /\ ~slow /\ spent <= Short => level >= 2]_lifeVars
  BY KilledLate
<1> QED
  BY <1>1, <1>2, <1>3, PTL DEF LifeSpec, KilledAfterTwoFailures
=============================================================================
