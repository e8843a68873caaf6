# Verification of multinic-agent

TLA+ models of the agent, the TLC runs that check them on small instances, and
TLAPS proofs for every instance.  Paths are relative to `src/`; in the comments
of the modules a file is named without its directory.

## 1. The system

`multinic-agent` runs on every node of a Kubernetes cluster.  It polls a MySQL
table for the network interfaces the node should have, gives each a name
`multinic0` .. `multinic9`, writes a netplan or ifcfg file for it, applies it,
records the outcome in the table, and removes the files of interfaces that are
no longer in the table.

| component | state | operations | module |
|---|---|---|---|
| agent process (`cmd/agent/main.go`) | context, signal channel | start, poll, signal, exit | `AgentProcess`, `Lifecycle` |
| container (`infrastructure/container/container.go`) | wiring | ping of the database at the start | `Lifecycle` |
| polling controller and strategies (`application/polling/strategy.go`) | failures in a row, ticker | `Start`, `NextInterval` | `Polling` |
| configure use case (`application/usecases/configure_network.go`) | per poll: goroutines, semaphore, wait group, counters | `Execute` and what a worker does for one row | `WorkerPool`, `ConfigureNetwork` |
| interface naming (`domain/services/interface_naming.go`) | none; reads the devices | `GenerateNextNameForMAC`, `GenerateNextName` | `ConfigureNetwork` |
| drift detection (`configure_network.go:249-475`) | none; compares row and file | `isDrifted`, `isIfcfgDrifted` | `DriftDetection` |
| netplan adapter (`infrastructure/network/netplan_adapter.go`) | files of `/etc/netplan` | `Configure`, `Validate`, `Rollback` | `NetplanAdapter` |
| RHEL adapter (`rhel_adapter.go`) | ifcfg files, device names, links | the same three | `RHELAdapter` |
| delete use case (`delete_network.go`) | per poll: list of orphaned files | `Execute` | `DeleteNetwork` |
| repository (`infrastructure/persistence/mysql_repository.go`) | table `multi_interface` | `GetAllNodeInterfaces`, `UpdateInterfaceStatus` | `NodeState`, `ConfigureNetwork` |
| health service (`infrastructure/health/health_service.go`) | database flag, two counters | updates, `GET /` | `Lifecycle` |
| Helm chart (`deployments/helm`) | probe, times | restarts by the kubelet | `Lifecycle` |
| configuration, metrics, errors, OS detection | set once, or write-only | | constants, or none |

How they interact.  `main` builds the container, which pings the database,
starts the health server, a goroutine that cancels the context on SIGTERM, and
the polling controller.  Each tick runs one poll: first the configure use case,
then the delete use case; its outcome sets the flag of the health service.  The
configure use case reads the rows once, starts a goroutine for each and lets
`maxConcurrentTasks` of them work at a time; a worker names its interface,
compares the row with the file of that name, and when there is work calls
`Configure` and `Validate`, with `Rollback` when one fails.  The workers share
the directory of configuration files, the devices, and `netplan apply` or the
restart of NetworkManager, which always act on the whole directory.  The
controller edits the table meanwhile, devices come and go, and the kubelet asks
the health service and restarts the process when it ends.

What is hard here, and not reached by the unit tests, which mock the file system
and the commands and run one call at a time:

- workers of one poll that interleave between two file operations or commands;
- rows, devices and files that are read, and have changed when they are used;
- failures of any one of the steps, whose clean-up also is several steps;
- a kill or a cancelled context at any step, and what the next start finds;
- does the node come to agree with the table, and then stay as it is;
- backoff, ticker, liveness probe and kubelet, each with its own clock;
- the arithmetic of backoff and of addresses at its edges.

The hazards, with their lines and the properties that would catch them, are
listed in `PROJECT.json`.  What makes each component correct:

| component | properties |
|---|---|
| worker pool | never more workers than slots; a call returns, only after its last worker, with an exact count |
| worker, naming, adapters | what is reported configured is configured; no file of a working interface is touched for another row; a MAC has one file; a served row is left alone |
| delete use case | only files of MACs without a row are removed |
| node as a whole | from whatever state, once edits and failures stop, node and table agree for good; until then nothing is taken out of service but for a reason the table gave or a failure |
| drift detection | no edit goes unnoticed, but for one of an ifcfg file without a prefix; exactly which rows drift although nothing changed |
| polling | failures slow it down up to the cap; it never stops but for a signal, and then does |
| process and health service | one failed poll costs nobody the process; with the database up, the agent comes to serve and stays healthy |

## 2. Modules

    BoundedPool               what Execute promises (abstract)
      ^ implemented by
    WorkerPool                goroutines, semaphore, wait group, counters, gauge

    NodeState                 table, files, devices; faults; the surroundings
      |- Netplan              netplan (external)
      |- NetworkManager       kernel and NetworkManager (external)
      `- ConfigureNetwork     the poll and the worker, naming, check, status
           |- NetplanAdapter  (with Netplan)
           |- RHELAdapter     (with NetworkManager)
           `- DeleteNetwork   the cleanup
                `- AgentProcess      signal, exit, kill, restart
    NetplanAgent              NetplanAdapter + AgentProcess
    RHELAgent                 RHELAdapter + AgentProcess

    NodeSync                  what the agent promises the controller (abstract)
      ^ implemented by        NetplanAgent, with one worker

    DriftDetection            file generation against drift detection

    Polling                   ticker, backoff, signal
      `- Lifecycle            start, health service, probe, kubelet

Proofs: `WorkerPoolProofs`; `AgentLemmas` with `NetplanAgentProofs`, which
`NetplanSyncProofs` extends, and `RHELAgentProofs`; `DriftDetectionProofs`;
`PollingProofs`, which `LifecycleProofs` extends.  `MC*` modules and their `.cfg`
files are the instances.

### WorkerPool

Lines 87-152 of `configure_network.go`.  `phase` is where the caller is (idle,
in the loop, in `wg.Wait`), `pc` where each goroutine is, `wg`, `semaphore`,
`processed`, `failed` and `gauge` the shared variables, `seen` the length a
goroutine has read for the gauge.  `Spawn` is `wg.Add(1)` with the `go`
statement, `Acquire` the send on the channel, `ReadLen`/`SetGauge` the two steps
of `SetConcurrentTasks(len(semaphore))` (before the work and, in the deferred
function, after `Release`), `Work` all of `processInterfaceWithCheck` reduced to
how it counts, `Done` the deferred `wg.Done`, `Return` the end of `wg.Wait`.  A
second call may follow the first, with another batch.

`BoundedPool` is the promise: tasks start and end, at most `Cap` at a time, and
the call returns the exact count.  `WorkerPool` implements it with the mapping
of its `Pool` instance: a task is *running* while its goroutine holds a slot.

### NodeState and ConfigureNetwork

The state of a node of either kind.  `rows` is the table, by id; `file` the
file of each name (slots 0 .. NumSlots-1 stand for `multinic<n>`); `dev` the
name of each device, `live` the configuration it runs with.  Address, CIDR and
MTU of a row are one value of `Cfgs`: these modules only ask whether they are
equal, and `DriftDetection` is about what that comparison does.

A worker is a `pc` per row.  Each of its steps is one operation another worker
can come between:

| step | code |
|---|---|
| `Acquire` | the semaphore (`WorkerPool` has the detail) |
| `ReuseName`, `NextName` | `GenerateNextNameForMAC`: the name the device has, then the first free one |
| `CheckNeed`, `Skip` | `checkNetplanNeedProcessing` or `checkRHELNeedProcessing`, then `iface.Validate` |
| `OpenFile`, `FillFile` | `WriteFile`, which empties the file first |
| the steps of the adapter | see below |
| `MarkConfigured`, `MarkFailed` | `UpdateInterfaceStatus` |

Scanning the slots for a name is one step.  Names change only in `netplan
apply`, `ip link set ... name` and when a device appears, so a scan that is cut
by one of these sees what a scan before or after it could have seen, slot by
slot; the race that matters, two scans before either apply, is in the model.

Faults: any command, query or file operation may fail (`Faulty`, bounded by
`MaxFaults`).  A command or query also fails, without limit, while the context
is cancelled.  A netplan, ip or systemctl command that fails may have taken
effect; a query that fails may have been executed.

`DeleteRow` takes a row from the node, by a delete or by a move to another node.
A status update asks for the id only: for a deleted row it finds nothing, and the
worker fails; for a moved row it succeeds (both in `MarkConfigured`).

### NetplanAdapter and Netplan

| step | code |
|---|---|
| `TryNetplan`, `DropTried` | `netplan try`; on failure the file is removed |
| `ApplyNetplan` | `netplan apply`; on failure Configure rolls back itself, and its caller once more |
| `Validate` | `/sys/class/net/<name>` exists, `ip link show ... up` |
| `RollbackRemove`, `RollbackApply` | `Rollback`, for both callers; a failed `stat` counts as no file, which is not removed, and the apply follows |

*Netplan* (`Renames`, `Settings`) is external, and modelled from how the code
uses it: it gives each device that a file matches one of the names set for it
unless another device has that name, lets devices keep the name they have when
their file goes, and configures a device from the file that has its MAC and its
name; an empty file says nothing; a device that appears gets its name from the
same files.

### RHELAdapter and NetworkManager

The adapter renames the device itself before it writes the file.  `linkDown` is
the set of devices whose link it, or another worker, has set down; `found` is
the local `actualDevice`.

| step | code |
|---|---|
| `FindDevice` | `findDeviceByMAC`: under which name the device is; it is renamed unless it has the right one |
| `LinkDown`, `Rename`, `LinkUp` | the three `ip link set` commands |
| `BringBack` | the `up` after a rename that failed, its error dropped |
| `WriteStep`, `LookForFile` | `WriteFile` and the `Exists` after it |
| `RestartManager` | `systemctl restart NetworkManager` |
| `Validate`, `LookForFile` | `ip link show <name>`, then the file |
| `RollbackRemove`, `RollbackRestart` | `Rollback`, whose errors are logged and dropped |

External: the *kernel* renames no device whose link is up and gives no name
twice; a *restart of NetworkManager* brings every device up whose name and MAC
have a file, with the settings of that file, and may bring up others, or take
their settings, but renames none; *udev* may rename a device that appears.  Each
worker restarts NetworkManager, so the restart of one meets another between its
`down` and its rename.

### DeleteNetwork and AgentProcess

`DeleteNetwork` is `findOrphanedNetplanFiles` or `findOrphanedIfcfgFiles` and
one `Rollback` for each file found.  The use case lists the directory, reads the
table and then the files; no worker runs at that time, so the files do not
change in between and the three reads are one step.  The two kinds of node
differ in the error of `Remove`, which ends the rollback on netplan only; a
failed `stat` ends neither, and the file stays.

`AgentProcess` is the process around the polls: `Signal` cancels the context,
`Exit` is the return of `Start`, `Crash` ends the process at any step, and the
kubelet's `Restart` finds table, files and devices as they were left.

*The controller* (`InsertRow`, `EditRow`, `DeleteRow`) is external: it does not
insert a second row for a MAC.

### NodeSync

What is left of a node for the controller that fills the table: the `rows`, and
for each interface the configuration it is in force with (`runs`).  Names, files,
commands and workers are gone.  The agent acts on what it has `seen` of the table
and on the MACs the cleanup must leave alone (`spared`), both of which may be out
of date; `calm` is false once something failed or the context was cancelled.
The promises:

- `BringUp`: interfaces come into force together, since `netplan apply` acts on
  all files, and none that is in force is changed by it;
- `TakeDown`: an interface leaves service only because its row, as it was read,
  is pending or says something else (`Due`), because the cleanup did not see its
  MAC in the table, or because something failed (`Tried`);
- `ReportConfigured`: a row is reported configured only while its interface is in
  force with the settings of the row as it was read, though the report goes into
  the row as it is by then;
- `ReportFailed`: in calm, only while it is not.

`NetplanAgent` implements it with one worker, through its instance `Sync`:
`seen` is `snap`, `spared` the `listed` of the cleanup (elsewhere all MACs),
`runs` the configuration of a device that has the name of a file for its MAC and
runs with it (`InForce`), `calm` no fault so far and no signal.  Opening a file,
failed tries, most of the rollback and every step of naming are stutters.
With several workers it does not: the run `validate` shows a report that is not
true.

### DriftDetection

`generateNetplanConfig` and `generateIfcfgContent` against `isDrifted` and
`isIfcfgDrifted`: two pieces of code far apart that must agree on what a row
looks like in a file.  An address is a number of `Bits` bits; `net.ParseCIDR` is
modelled by what it does: the network of an address, or a refusal.  Rows take
every combination of address (also empty, or a word that is none), CIDR (also
empty, malformed, with host bits, with an impossible or an empty prefix) and MTU
(also NULL and negative).  Not represented: IPv6, two spellings of one address,
an address that brings a slash of its own.

### Polling and Lifecycle

`PollingController.Start` with the exponential backoff or a fixed interval.
Time passes in units, while the loop waits or a poll runs; a ready `select` is
served before time passes.  The ticker's channel holds one tick, `Reset` does
not empty it (`go.mod` says go 1.22, whose tickers behave so), and a period that
is not positive is a panic.  A float64 that no `Duration` can hold becomes the
least integer (amd64) or the greatest (arm64): the README of the repository
builds for both (line 275).

`Lifecycle` puts the process around the loop.  `Started` and `PingFails` are the
ping of `NewContainer`, which decides between `Run` and `Fatal`; `EndPoll` sets
`healthy` (`UpdateDBHealth`); `AnswersOk` is the 200 of `ServeHTTP`; `Probe` the
liveness probe of the chart; a third miss in a row is SIGTERM, which is the
`Cancel` of the loop, and `SigKill` follows after the grace period.  The database
goes down and comes back; a poll succeeds if the database was up when it read
its rows, at some time of the poll, unless the host name or the OS could not be
read (`Outage`, which counts both).  All clocks advance together (`Passes`).
That a poll ends within `MaxPoll` is an assumption: commands have timeouts, but
neither the connection (`container.go:158-162`) nor the queries
(`mysql_repository.go:172,320`) have a deadline.

## 3. Runs

| run | instance | shows |
|---|---|---|
| `pool` | 3 rows, limit 0 (raised to 1) | `ConcurrencyBound`; `NothingLeftBehind`: between calls no goroutine, an empty channel, a verdict for every row, and a report that is their tally; `ImplementsPool`; `EveryCallReturns` |
| `sequential` | netplan; 1 worker, 3 rows for 2 names; an edit, a fault, a kill | `ValidatedIsReal`: a row marked configured has its device under that name, with its file and its settings; `OthersKeepTheirFiles`; `OneFilePerMac`; `ServedUndisturbed`: until something fails nobody takes a served row out of service; `ImplementsNodeSync` |
| `converge` | netplan; 1 worker, 2 rows; an edit, a hot plug, a fault, a signal and restart | `Convergence`; `CleanupSparesListed`: no file of a MAC that was in the table when the cleanup read it is removed |
| `rhel` | ifcfg; 2 workers, 2 rows for 3 devices, one malformed; an edit, a hot plug, a signal, a kill | `ValidatedIsReal`, until the first hot plug; `CleanupSparesListed` |
| `rhel_converge` | ifcfg; 2 workers, 2 rows; an edit, a fault | `Convergence`, with every link up; `OneFilePerMac`, `ValidatedIsReal` |
| `drift` | 2-bit addresses, all rows, all edits, both formats | which edits are missed: of netplan none (`NetplanMissesNothing`), of ifcfg only one of the CIDR where row or file has no prefix (`IfcfgMissesNothingOfNetworks`); exactly which rows never settle (`NetplanSettles`, `IfcfgSettles`) |
| `polling` | base 4, cap 10, multiplier 3/2, 6 failures | `FailuresNeverSpeedUp`, `EarlyOnlyAfterALongPoll`, `SignalEndsPolling` |
| `lifecycle` | the times of the chart in units of 5 s, polls of up to 50 s, 2 outages (database or system) | `KilledAfterTwoFailures`, `BackoffCutShort`, `Recovery` |

Four more runs refute what the repository says of itself:

| run | refuted | because |
|---|---|---|
| `validate` | `ValidatedIsReal` with 2 workers on a netplan node | nothing reserves a free name: two workers choose the same one, the second overwrites the file of the first, and `Validate` asks only for the name |
| `scan` | `CleanupSparesListed` when a row fails to scan | the row is skipped, and to the cleanup a skipped row is a deleted one |
| `crash` | `Convergence` with one kill | killed between writing the file and applying it; after the restart the file equals the row, so nothing is done any more |
| `polling_overflow` | `IntervalIsATime` | the backoff is converted to an integer before it is capped |

For `polling_overflow`: with a base of 30 s and a multiplier of 2, 64 bits are
exceeded at the 30th failure in a row.  With the liveness probe of the chart the
kubelet restarts the pod earlier (below); without it the ticker panics on amd64.

### What the models showed besides

- The race that `validate` shows also breaks `OneFilePerMac` on a netplan node
  with two workers: the row that lost is given a second name, and files for both
  remain.  With one worker it cannot happen (proved).  On a RHEL node both
  properties hold with several workers (proved): the kernel gives a name to one device
  only, and a worker does not write before its device has it.
- Two failed polls in a row end the pod: the first failure leaves the interval
  at the base (`values.yaml:30` says it doubles), so the second comes 30 s later
  and is followed by a wait of 60 s, in which the third probe fails.  The
  interval never gets near the cap of 300 s that the chart sets
  (`BackoffCutShort`).  `KilledAfterTwoFailures` holds while polls last at most
  10 s and the start was prompt.
- The health flag is false until the first poll has ended.  With polls of up to
  50 s the agent recovers (`Recovery`).  A first poll of 60 s or more, or
  `pollInterval` of 90 s or more, is killed by the probe before it can report,
  at every start: `Recovery` fails if `MaxPoll` is 12.
- Before the health server listens, a slow ping of the database uses up probes:
  the process that follows then ends at an earlier miss.
- A rollback removes the file that worked before (`README.md:13` says it is
  restored); a failed lookup of a MAC gives a device a second name and file; the
  gauge of concurrent tasks can stay above zero after a call; an ifcfg node
  misses a CIDR that is taken away, or that a file without a prefix gets later
  (`README.md:114` lists it among the values compared); a tick of a long poll
  defeats the backoff (`EarlyOnlyAfterALongPoll` says when).
- On a RHEL node the rollback drops the error of `Remove`.  If the update of the
  status fails as well, the file equals the row and the status is still
  configured, and the settings are never applied.  The same state follows from a
  reboot or a hot plug that leaves the device under the kernel's name: the file
  of its former name is not looked at, but the row of an absent device restarts
  NetworkManager in every poll.

### Bounds

- Rows, names and MACs: two rows and two names are the least with a conflict,
  three rows for two names the least with a waiting one.
- Two configurations where drift matters: it needs one to change to another.
- Edits, hot plugs, faults, signals and kills are one each where a run has them:
  each is placed at every step of a poll.  Runs share them out so that each
  takes about two minutes at most; no run has all of them.
- `drift`: two bits are the least for which a network has two hosts and there
  are two networks.
- `polling`: six failures pass the cap by three.  Counters of time stop at the
  longest interval, which no property looks beyond.
- `lifecycle`: a unit is 5 s, which divides all times of the chart.  Polls last
  at least a unit and at most ten, so that they outlast the interval; the second
  outage begins at any time of the recovery from the first.  The instance meets
  the conditions of the two theorems about it (`ChartIsCovered`).
- Symmetry (`MacSymmetry`) is used in safety runs only, over MACs that are in no
  distinguished set.

### Fairness

Weak, for: the caller and each goroutine of the pool (the Go scheduler), each
step of the poll and of each worker, the return after a signal and the kubelet's
restart, the ticker, the end of a poll; in `Lifecycle` the start, the steps of the loop, the kubelet and time itself.
Strong only for the return of `Start` (`Polling`, `Lifecycle`): when both cases
of a `select` are ready Go picks one at random, so a case that is ready again
and again is taken.  Nothing is assumed of the controller, the devices, the
database and the faults; their bounds make them stop, as "when edits and
failures stop" needs.

One of these the code does not fully justify: every command has a timeout, but
no query has a deadline (see `Lifecycle` above), so a database that accepts a
connection and never answers can hold a worker, and with it the poll.  That a
query returns is an assumption of `EveryCallReturns`, `Convergence`,
`SignalEndsPolling` and `Recovery`.

On a netplan node `Convergence` is claimed for one worker.  With several, two
rows that choose the same name may undo each other in lock step in poll after
poll, and weak fairness does not exclude it.  On a RHEL node it is checked with
two: the one whose rename is refused fails, and the next poll finds the name
taken.

## 4. Proofs

All theorems hold for every value of the constants that the assumptions named
in the modules admit.

| module | theorem | property | besides |
|---|---|---|---|
| `WorkerPoolProofs` | `TypeCorrect` | `TypeOK` | |
| | `ConcurrencyBounded` | `ConcurrencyBound` | |
| | `ReturnsClean` | `NothingLeftBehind` | |
| | `PoolImplemented` | `ImplementsPool`, the refinement | |
| `NetplanAgentProofs` | `TypeCorrect` | `TypeOK` | |
| | `ListedSpared` | `CleanupSparesListed` | every row scans |
| | `ValidatedIsTrue` | `ValidatedIsReal` | one worker, no hot plug |
| | `OthersKept` | `OthersKeepTheirFiles` | one worker, no hot plug |
| | `FilesAreSingle` | `OneFilePerMac` | one worker, no hot plug |
| `NetplanSyncProofs` | `ServedKept` | `ServedUndisturbed` | one worker, no hot plug |
| | `SyncImplemented` | `ImplementsNodeSync`, the refinement | one worker, no hot plug, every row scans |
| `RHELAgentProofs` | `TypeCorrect` | `TypeOK` | |
| | `ListedSpared` | `CleanupSparesListed` | every row scans |
| | `ValidatedIsTrue` | `ValidatedIsReal` | |
| | `FilesAreSingle` | `OneFilePerMac` | |
| `DriftDetectionProofs` | `TypeCorrect` | `TypeOK` | |
| | `NetplanComplete` | `NetplanMissesNothing` | |
| | `IfcfgComplete` | `IfcfgMissesNothingOfNetworks` | |
| | `NetplanSettlesAlways` | `NetplanSettles` | |
| | `IfcfgSettlesAlways` | `IfcfgSettles` | |
| `PollingProofs` | `TypeCorrect` | `TypeOK` | |
| | `EarlyOnlyThen` | `EarlyOnlyAfterALongPoll` | |
| | `IntervalsAreTimes` | `IntervalIsATime` | cap > 0, no overflow |
| | `SlowerAndSlower` | `FailuresNeverSpeedUp` | cap >= base, no overflow |
| `LifecycleProofs` | `LifeTypeCorrect` | `LifeTypeOK` | |
| | `CapNeverReached` | `BackoffCutShort` | `CapIsLate` |
| | `TwoFailuresFirst` | `KilledAfterTwoFailures` | `ShortPolls` |

The conditions of the last column are assumptions of the theorem, and each is
there because a run, or a state outside it, refutes the property without it:
`scan`, `validate` and `polling_overflow`; nothing in `config.go:105-138` checks
the cap.  `CapIsLate` and `ShortPolls` relate the times of the chart, and are
defined in `Lifecycle`: with its values (base 30 s, cap 300 s, delay, period and
grace 30 s, three probes) the kubelet takes at most 120 s to kill a process that
never answers, and a poll that ends the streak long enough for the cap begins
more than 120 s after it; and two polls of less than 15 s, each after its
interval, come before the third failed probe.

**The pool.**  None of its properties is inductive.  `IInv` adds what the code
relies on without saying so: `CountersExact` (the wait group counts the
goroutines that live, the channel holds one item for each goroutine inside, the
counters count verdicts), `PcMeaning` (which goroutines can exist for which
rows, and have a verdict), `PhaseMeaning` (what is left to spawn, and that
nothing lives when idle) and `OutputExact` (what a call reported is the tally of
the verdicts until the next one begins).  Each action preserves each part
(theorem `Inductive`); a change of a cardinality is the arrival or departure of
one row, for which there are lemmas.  The bound then follows from the capacity
of the channel and the first counter; the clean return from `wg = 0`, since then
every row has its verdict and the counters are their tally; the refinement from `PcMeaning`, action by action: `Acquire` is `Start`, `Release` is
`End`, and what touches only the gauge or the wait group is a stutter.

**Types and cleanup of a node.**  `SharedInv` is the types with
`WorkersHoldRows` (a worker has a row, so what it writes is a file) and
`WorkersOnlyConfigure` (workers exist only while the poll configures).
`AgentLemmas` shows that the steps both kinds of node share preserve it; the
modules of the two nodes add the adapter.  `OrphansUnlisted` (what the cleanup
works off names no MAC that had a row) then carries `ListedSpared`: during the
cleanup only the cleanup touches a file.

**One worker on a netplan node.**  `SeqInv`: one worker runs; nobody but its own
device has its name (`NameHeld`: it was free, or the device's, when it was
chosen, and netplan gives a name only to the device of its file); what it has
written is still there (`FileOwn`; after a rollback also nothing, or the file
whose removal failed); after the apply, its device, if it has the
name, runs with its settings (`LiveOwn`).  For `FilesAreSingle` the question is
where a file can be whose device does not have its name: `PlacedInv` says, under
the least name that nobody has, which is the one the next worker chooses.

**What is served stays so.**  `ServedUndisturbed` speaks of every step of every
worker, the cleanup, netplan and the process; most leave the file and the device
of a served row alone because they concern another interface (`SeqInv`).  What
is left are the worker of the row and the cleanup.  `HistoryInv` says what a
snapshot proves of the row: MACs stay apart, a row without a snapshot, or whose
MAC the cleanup did not see, is new and so still pending (or it did not scan, which
is a failure), and a row whose snapshot was pending is configured by nobody else
before its worker has touched the file.
`NeedInv` says where a worker can be before anything fails: it goes to work on a
configured row only if the file is another one than the row prescribes, and it
gives up only where nothing can be done (the row or the device is gone, or the
MAC is malformed).

**The refinement of NodeSync** rests on the same two and on `NoSnaps` (nothing
has been read outside the configuring phase) and `MarksReal` (between the look and the
report the interface stays as it was found).  Netplan never takes out of force
what is in force, because a name belongs to one device and its file is the one
it was configured from; a file operation concerns at most the interface of the
worker, which is `Due` or `Tried`.  Each action is then one of `NodeSync` or a
stutter, a failed one with `calm` false after it.

**RHEL, any number of workers.**  `FullInv`: names, rows and snapshots are apart;
a device that a worker is about to rename is where it found it (`FoundIsThere`);
a worker past the rename has its name on its device (`NamedBeforeWrite`), so two
workers with the same name never both write; its file is its own or gone
(`FileIsOwn`), and after the restart, if it is there, in force (`FileIsLive`).
The last look at the file is what makes `Validate` sound.  `FilesAreSingle` rests
on `SingleInv`: a file is written only when the device of its MAC has its name
(`FilesNamed`), and only a device without a name of the agent's is renamed
(`NamedOnce`), so no MAC is given a second file before a fault or a hot plug.

**Drift.**  Which files there can be (`WellFormed`: a file without an address
has no prefix and, if it is netplan's, no MTU).
`NetOf` is never expanded: that generation and detection agree does not depend
on what the network of an address is.

**Polling.**  `Clockwork` relates the three clocks: whenever a poll begins a
whole period is left.  Powers are beyond the provers' arithmetic, so
`PowersGrow` (the interval begins with the base and grows) is an assumption of
`Polling`, which TLC evaluates in every run.

**Lifecycle.**  Two clocks that do not know of each other: the loop counts
failures, the kubelet probes.  Both arguments add the time the kubelet still
gives the process to the time that has passed.  `Streaking` bounds the sum from
above: since the first failure no probe is answered, so a streak cannot last
longer than `Deadline`, while the streak that asks for the cap needs more.
`Prompt0` and `Prompt1` bound it from below: before the first failure, and after
it, the next poll ends before the kubelet's patience does.  They need to know
that polls are regular (`Regular`), which is where `slow` comes in: a start that
took time, or a long poll, uses up probes.

Only model-checked are the liveness properties (`EveryCallReturns`,
`Convergence`, `SignalEndsPolling`, `Recovery`), which are out of the provers'
reach.  Every invariant, action property and refinement of the passing runs is
stated by a theorem, with the conditions above.

## 5. Not modelled

- The two counters of the health service and the degraded verdict, which is
  answered with 200 like a healthy one; the JSON of the answer.
- `AdaptiveStrategy`, `shutdown`, the other queries of the repository: no
  caller.
- A health server that cannot listen, which is only logged: every probe then
  fails, and the container is restarted as `Lifecycle` shows for a late poll.
- Parsing of environment, YAML and SQL, logging, metrics other than one gauge,
  wiring, OS detection: no state that a property could be about.  What
  `validate` of the configuration lets through is in the assumptions of
  `Polling` and `WorkerPool`, and in those the theorems add.
- IPv6 and other spellings of addresses, in the drift check.
- Database calls that never return: see the fairness above.
- More than one node: nodes share only the table, and each has its own rows.

## 6. Plan

1. `SyncImplemented` without the condition that every row scans: then the cleanup
   of `NodeSync` works off a list that a partial reading made.
2. `NodeSync` for a RHEL node: first with one worker, then with several.
3. `OthersKept` for several workers whose names differ.
