------------------------------ MODULE Lifecycle ------------------------------
(***************************************************************************)
(* The process from its start to its end, and what keeps it alive: main.go  *)
(* and the container it builds, the health service, and the kubelet with    *)
(* the liveness probe of the Helm chart.  Polling is the loop in between.   *)
(*                                                                         *)
(* A poll fails as a whole when the rows cannot be read from the database,  *)
(* or the host name or the system's family cannot be told; whatever goes    *)
(* wrong with one row does not fail it.  The health service, and so the     *)
(* kubelet, takes either for the database.                                  *)
(*                                                                         *)
(* No query of the code carries a deadline.  That a poll ends, within       *)
(* MaxPoll, is an assumption of this module.                                *)
(***************************************************************************)
EXTENDS Polling

CONSTANTS
  InitialDelay,   \* of the liveness probe; 30 s in the chart
  Period,         \* of the liveness probe; 30 s in the chart
  Threshold,      \* failed probes in a row that end a container; 3 by default
  Grace,          \* time between SIGTERM and SIGKILL; 30 s by default
  MinPoll,        \* no poll is instantaneous, so polls come slower than probes
  MaxPoll,        \* assumed, and a bound: how long a poll lasts
  Short,          \* two such polls fit between two probes
  MaxOutages      \* bound: times the database goes down, or the system
                  \* fails a poll

ASSUME LifecycleAssumption ==
  /\ InitialDelay \in Nat \ {0}
  /\ Period \in Nat \ {0}
  /\ Threshold \in Nat \ {0}
  /\ Grace \in Nat
  /\ MinPoll \in Nat /\ MaxPoll \in Nat /\ MinPoll <= MaxPoll
  /\ Short \in Nat
  /\ MaxOutages \in Nat

VARIABLES
  stage,      \* "starting", "serving" or "ended"
  dbUp,       \* does the database answer?
  dbWas,      \* whether it did, at any time of the poll in progress
  healthy,    \* dbHealthy of the health service
  probeIn,    \* time until the next probe
  misses,     \* probes failed in a row
  ending,     \* the kubelet has sent SIGTERM
  grace,      \* time until it sends SIGKILL
  slow,       \* the start of this process took some time, or a poll more than Short
  outages     \* how much of the bound is used

hostVars == <<dbUp, outages>>
probeVars == <<probeIn, misses, ending, grace>>
lifeVars == <<vars, stage, hostVars, dbWas, healthy, probeVars, slow>>

LifeTypeOK ==
  /\ TypeOK
  /\ stage \in {"starting", "serving", "ended"}
  /\ dbUp \in BOOLEAN
  /\ dbWas \in SUBSET BOOLEAN
  /\ healthy \in BOOLEAN
  /\ probeIn \in 0 .. (IF InitialDelay > Period THEN InitialDelay ELSE Period)
  /\ misses \in 0 .. Threshold
  /\ ending \in BOOLEAN
  /\ grace \in 0 .. Grace
  /\ slow \in BOOLEAN
  /\ outages \in 0 .. MaxOutages
  /\ stage = "serving" => status = "up"
  /\ stage = "starting" => ~running /\ ~healthy
  /\ running <=> dbWas # {}

-----------------------------------------------------------------------------
\* Start of the container, and of the polling loop in it.
NewContainer ==
  /\ stage' = "starting"
  /\ healthy' = FALSE
  /\ dbWas' = {}
  /\ probeIn' = InitialDelay /\ misses' = 0
  /\ ending' = FALSE /\ grace' = Grace
  /\ slow' = FALSE

NewLoop ==
  /\ level' = 0 /\ period' = Base /\ left' = Base
  /\ tick' = FALSE /\ running' = FALSE /\ cancelled' = FALSE /\ status' = "up"
  /\ spent' = 0 /\ rest' = 0 /\ overran' = FALSE /\ asked' = Base

LifeInit ==
  /\ Init
  /\ stage = "starting"
  /\ dbUp \in BOOLEAN
  /\ dbWas = {}
  /\ healthy = FALSE
  /\ probeIn = InitialDelay /\ misses = 0
  /\ ending = FALSE /\ grace = Grace
  /\ slow = FALSE
  /\ outages = 0

\* NewContainer pings the database.  The answer starts the health server and
\* the loop; without one the process ends, at once or after a while.
Started ==
  /\ stage = "starting"
  /\ dbUp
  /\ stage' = "serving"
  /\ slow' = (probeIn < InitialDelay \/ misses > 0)
  /\ UNCHANGED <<vars, hostVars, dbWas, healthy, probeVars>>

PingFails ==
  /\ stage = "starting"
  /\ ~dbUp
  /\ stage' = "ended"
  /\ UNCHANGED <<vars, hostVars, dbWas, healthy, probeVars, slow>>

-----------------------------------------------------------------------------
BeginPoll ==
  /\ stage = "serving"
  /\ Poll
  /\ dbWas' = {dbUp}
  /\ UNCHANGED <<stage, hostVars, healthy, probeVars, slow>>

\* A success is not reported to the health service.
RecordsOnlyFailure(success) == healthy' = (success /\ healthy)

\* UpdateDBHealth, after every poll.
Records(success) == healthy' = success

Outage == outages < MaxOutages /\ outages' = outages + 1

\* The rows are read at some time of the poll, and not after a signal.  Before
\* that os.Hostname or DetectOS may fail, whatever the database does.  A panic
\* of the ticker ends the process.
EndPoll(success) ==
  /\ stage = "serving"
  /\ spent >= MinPoll
  /\ \/ (success \in dbWas \/ (cancelled /\ ~success)) /\ UNCHANGED outages
     \/ ~success /\ Outage
  /\ Finish(success)
  /\ Records(success)
  /\ dbWas' = {}
  /\ stage' = IF status' = "up" THEN "serving" ELSE "ended"
  /\ slow' = (slow \/ spent > Short)
  /\ UNCHANGED <<dbUp, probeVars>>

\* Start returns, and main goes on to wait for its health server.
EndLoopOnly ==
  /\ stage = "serving"
  /\ Return
  /\ UNCHANGED <<stage, hostVars, dbWas, healthy, probeVars, slow>>

\* Start returns, and main ends with it.
EndLoop ==
  /\ stage = "serving"
  /\ Return
  /\ stage' = "ended"
  /\ UNCHANGED <<hostVars, dbWas, healthy, probeVars, slow>>

-----------------------------------------------------------------------------
\* determineOverallStatus: failed configurations make the agent degraded at most.
Unhealthy == ~healthy

\* An answer at any status.
AnswersAlways == stage = "serving"

\* ServeHTTP: 200 or 503.  Before the server listens there is no answer.
AnswersOk == stage = "serving" /\ ~Unhealthy

Probed == stage # "ended" /\ ~ending

Probe ==
  /\ Probed
  /\ probeIn = 0
  /\ probeIn' = Period
  /\ misses' = IF AnswersOk THEN 0 ELSE misses + 1
  /\ IF misses' < Threshold
       THEN UNCHANGED <<vars, stage, ending>>
       ELSE /\ ending' = TRUE
            \* No handler is installed before the loop starts.
            /\ IF stage = "serving"
                 THEN /\ cancelled' = TRUE
                      /\ UNCHANGED <<level, period, left, tick, running, status,
                                     spent, rest, overran, asked, stage>>
                 ELSE stage' = "ended" /\ UNCHANGED vars
  /\ UNCHANGED <<hostVars, dbWas, healthy, grace, slow>>

Killed == ending' /\ ~ending

SigKill ==
  /\ ending
  /\ stage # "ended"
  /\ grace = 0
  /\ stage' = "ended"
  /\ UNCHANGED <<vars, hostVars, dbWas, healthy, probeVars, slow>>

\* However long the kubelet waits before it does.
Restart ==
  /\ stage = "ended"
  /\ NewContainer
  /\ NewLoop
  /\ UNCHANGED hostVars

-----------------------------------------------------------------------------
\* Time passes while nothing is due.  Only a database that is down keeps the
\* start waiting.
Passes ==
  /\ stage # "ended"
  /\ IF ending THEN grace > 0 ELSE probeIn > 0
  /\ IF stage = "serving"
       THEN Elapse /\ (running => spent < MaxPoll)
       ELSE ~dbUp /\ UNCHANGED vars
  /\ IF ending THEN grace' = grace - 1 /\ UNCHANGED probeIn
               ELSE probeIn' = probeIn - 1 /\ UNCHANGED grace
  /\ UNCHANGED <<stage, hostVars, dbWas, healthy, misses, ending, slow>>

DbFails ==
  /\ dbUp
  /\ Outage
  /\ dbUp' = FALSE
  /\ dbWas' = IF running THEN dbWas \cup {FALSE} ELSE dbWas
  /\ UNCHANGED <<vars, stage, healthy, probeVars, slow>>

DbReturns ==
  /\ ~dbUp
  /\ dbUp' = TRUE
  /\ dbWas' = IF running THEN dbWas \cup {TRUE} ELSE dbWas
  /\ UNCHANGED <<vars, stage, outages, healthy, probeVars, slow>>

LoopStep == BeginPoll \/ (\E success \in BOOLEAN : EndPoll(success)) \/ EndLoop

LifeNext ==
  \/ Started
  \/ PingFails
  \/ LoopStep
  \/ Probe
  \/ SigKill
  \/ Restart
  \/ Passes
  \/ DbFails
  \/ DbReturns

LifeSpec == LifeInit /\ [][LifeNext]_lifeVars

\* The process, the kubelet and time go on; the database and the
\* system owe nothing.
LifeFair ==
  /\ LifeSpec
  /\ WF_lifeVars(Started \/ PingFails)
  /\ WF_lifeVars(LoopStep)
  /\ SF_lifeVars(EndLoop)
  /\ WF_lifeVars(Probe \/ SigKill \/ Restart)
  /\ WF_lifeVars(Passes)

-----------------------------------------------------------------------------
\* What the properties ask of the constants; the chart's values have both.  The
\* kubelet takes Deadline to kill a process that never answers.
First        == IF InitialDelay > Period THEN InitialDelay ELSE Period
Allowance(m) == (Threshold - 1 - m) * Period   \* from the next probe to the last
Slack        == Allowance(0)
Deadline     == First + Slack + Grace

\* An interval as long as the cap is asked for only after Deadline has passed
\* since the last interval but one began: in the chart both are 120 s.
CapIsLate ==
  /\ Base < MaxInterval
  /\ \A n \in 0 .. MaxFailures :
       Scaled(n) >= MaxInterval => n >= 2 /\ Deadline < Scaled(n - 2) + MinPoll

\* Two short polls, each after its interval, come before the last failed probe.
ShortPolls ==
  /\ Enabled
  /\ Base <= MaxInterval
  /\ Short < Base
  /\ Period < Base + MinPoll
  /\ Base + Short < Slack
  /\ 2 * (Base + Short) < InitialDelay + Slack

-----------------------------------------------------------------------------
\* One failed poll costs nobody the process: while polls are short the kubelet
\* ends an agent only after two of them in a row.  The first failure
\* leaves the interval at the base, so the next poll is back in time for the
\* third probe (strategy.go:65-67, daemonset.yaml:61-66, main.go:151-162).
KilledAfterTwoFailures ==
  [][Killed /\ stage = "serving" /\ ~slow /\ spent <= Short => level >= 2]_lifeVars

\* The kubelet ends an agent without a database long before its backoff has
\* reached the cap (strategy.go:69-72, health_service.go:148-153).
BackoffCutShort == asked < MaxInterval

\* Once the database stays up, and failures of the system have ended, the agent
\* serves, is healthy and stays so, whatever the kubelet did to it before
\* (main.go:150-162, container.go:87-90).
Recovery == <>[]dbUp => <>[](stage = "serving" /\ healthy /\ misses = 0)
=============================================================================
