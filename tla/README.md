# Specification of the Pulse ingestors

The ingestors of this repository collect telemetry (metrics, events and states)
on a host, queue it on disk and deliver it to the Pulse API. This directory
holds TLA+ models of the code that decides what reaches Pulse, TLC runs that
check them on small instances, and TLAPS proofs for instances of any size.

Notation: `spool.go` is `src/internal/pulse/spool.go`, `agent.go` is
`src/internal/agent/agent.go`, `statecache.go` and `runner.go` are in
`src/internal/monitoring/`; a collector's files are in the directory of
`src/internal/modules/` that has its name. `PROJECT.json` maps every definition to the lines it
stands for, and lists components, runs, mutants, findings, hazards and theorems.

## 1. The system

| part | state it keeps | operations | correct when |
|---|---|---|---|
| Spool (`spool.go`) | queue of parts in memory, one `*.part` file per part, sequence number, split budget, quarantine | Open/load, Enqueue, Drain (peek, remove, reject, replace, quarantine), expire, evictFor | nothing vanishes without a notice, nothing is stored twice, FIFO order, healthy items are never given up, bounded size |
| Client (`client.go`) | none | Send: one attempt with a key derived from the body; outcomes Delivered, Retry, Paused, Rejected | an answer that is not a proof of delivery is never taken for one |
| SplitBatch (`split.go`) | none | cuts a batch into parts within Pulse's limits | nothing lost, order kept, every part within the limits |
| Stats (`stats.go`) | pending notices, blocked metrics, counters; memory only | addNotice, TakeNotices, blockMetric, MetricBlocked | each loss is reported |
| State cache (`statecache.go`) | hash and time of the value last sent per state, `.states` file | Load, Filter/commit, Reset, Save | what it suppresses is known to Pulse, or will be |
| Agent (`agent.go`) | lastCycle, queueMu, wake channel, backoff attempt | serve (fast loop, slow lane, delivery loop, watchdog), queue, once, close | collection never waits for Pulse; delivery resumes; clean shutdown |
| Runner (`runner.go`) | last run and last timeout per collector | Collect, CollectSlow, due | every due collector runs, failures are reported, one collector cannot starve the others |
| Watchdog (`notify.go`) | time of the fast lane's last completion | ping systemd while it is recent | a hung fast lane is killed, a slow one is not |
| Script collector (`script.go`, `builder.go`, `validation.go`) | none | run each script, complete, validate and merge its items | a failing script costs its own items only; every part is valid |
| Kernel collector (`kernel.go`) | OOM counter, whether the boot was checked, journal time or cursor file | Collect | nothing falls between two collections, nothing counts twice |
| Uptime collector (`uptime.go`, `checks.go`, `dns.go`, `icmp.go`) | none; a semaphore and a pool within one collection | one check per target | a result claims only what was measured |
| Docker collectors (`docker.go`) | none; a worker pool within one collection | list, inspect, statistics, images, update checks | the pool returns, every job has a result, one series per reference |
| Proxmox collector (`proxmox.go`) | tasks already reported, the last known cluster and Ceph IDs | status, election, three phases | one reporter, each event once, no absence claimed for a failed query |
| Backup server collector (`pbs.go`) | tasks and job runs already reported | four phases, the scan of groups | each event once and in the end, an incomplete scan says so |
| Configuration (`config.go`, `cmd/pulse-linux/main.go`) | none at run time | layers, checks, schedule | what runs is what the strongest layer said |
| Host and service collectors, wire formats, installer, mock server | none | parse, print | see section 8 |

How they interact. `serve` runs four activities: the fast loop and the slow lane
collect and call `queue()`; `deliverLoop` calls `Drain`; the watchdog reads a
timestamp. `queue()` holds `queueMu`: it takes pending notices (fast lane only),
filters states, splits the batch, calls `Enqueue`, commits and saves the cache.
`Enqueue` and `Drain` share the spool under `Spool.mu`, but `Drain` holds no lock
while a request is on the wire, so `expire` and `evictFor` may drop the very part
it is sending. A loss raises a notice in `Stats`, and the next fast cycle turns it
into an event and clears the state cache. The process may end at any point;
the directory and `.states` are what the next one starts from.

What is hard: the order of writes and removals in a split and its cleanup; the
three ways Pulse may have processed a request that the client gave up; parts
dropped while they are sent; budgets; the moments at which queue, cache and
notices disagree; the two lanes on one cache; waits that nothing may shorten and a
shutdown that must end them all; one budget shared by many collectors; collectors
that mark an event as reported before it is queued; counters and lists that move on
while they are read; a cluster in which every node decides for itself who speaks for
all; queries that fail one by one in a report that must not guess. `PROJECT.json`
lists each at its line.

## 2. Modules

| module | what it is |
|---|---|
| `TelemetryLog` | what the spool promises: a lossy FIFO of items (Accept, Store, Drop, Refuse) |
| `Spool` | `spool.go` with its callers, the Pulse API, disk faults, crashes and restarts |
| `SpoolProperties` | its properties, the inductive invariant, and the refinement mapping to `TelemetryLog` |
| `SpoolProofs` | the theorems about `Spool`: types, names, directory, nothing vanishes |
| `SpoolOrderProofs` | its order and its budget |
| `SpoolOnceProofs` | what is given up and what is stored, and the refinement of `TelemetryLog` |
| `SumTheorems` | laws of sums over finite sets and of folds over sequences, for all proofs |
| `MCSpool` | shapes of batches for TLC |
| `StateDelivery` | `statecache.go`, `queue()` and the notices, over an abstract spool, with restarts |
| `MCStateDelivery` | one fast and one slow state for TLC |
| `StateDeliveryProofs` | the theorems about `StateDelivery` |
| `DeliveryLoop` | `agent.go`: `serve` with its lanes, the delivery loop and the watchdog, and the single run; the spool is a count of parts |
| `DeliveryLoopProofs` | the theorems about `DeliveryLoop` |
| `MCDeliveryLoop` | small backoffs and queues for TLC |
| `Runner` | `runner.go` and `notify.go`: when collectors run, and what the watchdog makes of it |
| `Batches` | from the output of scripts to the parts of the spool: `script.go`, `builder.go`, `validation.go`, `queue()` of `agent.go`, `split.go` |
| `Config` | `config.go` and `cmd/pulse-linux/main.go`: layers, token, cadences |
| `Kernel` | `kernel.go` across collections, failures and restarts |
| `Uptime` | one collection of uptime checks of every kind |
| `Host` | the five modules above as one model |
| `HostProofs` | the theorems about `Host` |
| `MCHost` | small collectors, targets, journals, scripts and files for TLC |
| `Docker` | the worker pools of the Docker collectors, and which images are inspected |
| `Registry` | the update checks of one image |
| `PBS` | the task and job events of a backup server, cycle after cycle |
| `PBSGroups` | one scan of backup groups |
| `Proxmox` | the election of the reporting node in a cluster that falls apart |
| `ProxmoxHealth` | the task and backup events of a cluster, and Ceph |
| `ProxmoxBackups` | what one phase says of guests, jobs, storages and HA |
| `Servers` | the seven modules above as one model |
| `ServersProofs` | the theorems about `Servers` |
| `MCServers` | small clusters, lists, fleets and registries for TLC |

### Spool

Items are numbered in the order they are collected; a part is an interval
`first..last` with its creation time, its sequence number and the path of `a`/`b`
suffixes of its file name. Sizes are `Overhead` plus one byte an item, which keeps
what matters: two halves are larger than their parent.

| code | variables and actions |
|---|---|
| `Spool.parts`, `bytes`, `seq`, `splits`, `splitWindow` | `parts`, `bytes`, `seq`, `splits`, `window` |
| directory, quarantine directory | `files`, `quarantine` |
| `Spool.mu` | `mu` (who), `step` (where in the section) |
| `Enqueue` | `EnqueueCall`, `EnqueueLock`, `Expire`*, `EnqueueRefuse` or `StartEvict`, `Evict`*, `StartWrite`, `WritePart`* or `WritePartFails`, `EnqueueDone` |
| `Drain`, `peek` | `DrainNext`, `PeekLock`, `Expire`*, `PeekEmpty`, `PeekHead` or `PeekFails` |
| `Client.Send` and Pulse | `Send`, `SendFails`, `ReplyLost`, `LateArrival`, `Heal` |
| `remove` | `OnDelivered`, `Discard` |
| `reject`, `allowSplit` | `AllowSplit` |
| `replace` | `ReplaceLock`, `WriteHalfA`, `WriteHalfB`, `RemoveParent`, `Cleanup` |
| `quarantine`, `writeQuarantine` | `Quarantine`, `Discard` |
| `Open`, `load` | `Open`, `OpenFails`, `Scan`*, `ScanDone`, `Expire`*, `StartEvict`, `Evict`*, `OpenDone` |
| end of the process | `Crash` |

Every step that writes or removes a file is its own action, so a crash can fall
between any two; only `load`'s removals of orphans are one step, and `OpenFails`
stands for the ones that stop half-way; and the deferred cleanup of a failed `replace` is one
step, after which any of the halves may be left. A clock reading that the code takes before
it asks for the lock (`Enqueue`, `peek`) is kept (`stamp`, `dstamp`). `atomicWrite`
either writes nothing or, when only the directory sync fails, leaves the file and
returns an error. `Pulse` answers as `docs/en/configuration.md` and the tests
of the client describe: it stores a whole part or refuses it for one bad item, and
acknowledges a key again that it stored less than `KeyLife` ago.

`lost` counts an item from the moment its part is dropped. The code raises the notice when the loop
that drops is done, before it frees the mutex, and only in memory: a crash forgets a notice
whether it was raised or not, so `NothingVanishes` is about what a process does, and findings
3 and 5 about the notices that an end of the process takes along.

### StateDelivery

A state is an identity with a value; each identity belongs to one lane. The cache
maps identities to the value last sent and whether the refresh is over (`due`).
`Collect` is `Runner.Collect`/`CollectSlow`; `FilterStates` is the part of `queue()`
from the lock to `Filter` (with `noticeEvents` and `Reset` for the fast lane);
`Enqueue`, `EnqueueRefuses`, `EnqueueFails` are the outcomes of `Spool.Enqueue`;
`Commit` is `commit()` and `Save`. The three can be interrupted by a crash, and the
drain runs between them. The spool is abstract: a FIFO that may drop its oldest
parts with a notice whenever the real one may. `Stop` is a clean end: `close` saves
the cache, and when `Save` fails the file stays what it was, as the code only logs that. `Crash`
is any other end, `Start` is `newAgent`.

The history variable `exposed` records that a stop, crash or failed write fell
into one of the windows in which the code cannot keep cache and queue
together: a crash, or a stop whose `Save` fails, while the file is behind the cache; a stop with a
notice pending; a write that fails after a part of the batch. `SuppressedIsCovered` says that these windows are all there are;
the runs `state_lost` and `state_flip` show that two of them are real.

### DeliveryLoop

| code | variables and actions |
|---|---|
| context, signal | `ctx`, `Cancel` |
| main goroutine of `serve` | `fast`: `FastCollect`, `FastSignal`, `FastTick`, `FastEnds`, `Close` |
| slow lane's goroutine | `slow`: `SlowStart`, `SlowEmit`, `SlowSignal`, `SlowPassEnds`, `SlowTick`, `SlowEnds` |
| `watchdogLoop`'s goroutine | `watch`: `WatchdogReturns` |
| `deliverLoop` | `deliver`, `attempt`, `timer`: `WaitForParts`, `WakeUp`, `TimerFires`, `DeliverReturns` |
| channel `wake` of capacity one | `wake` |
| `Spool.Drain` and `Client.Send` | `wire`: `SendHead`, `Delivered`, `Rejected`, `Split`, `DrainBlocked`, `DrainDone` |
| what `Drain` returns when it is blocked | `Refusal`: an answer of Pulse (`Announced`), the limit of splits (`SplitsSpent`), an error of the transport, a file or the context (`Failed`) |
| `Spool.Enqueue` | `queued`, `halves`, `Enqueue`, `EnqueueFails`; a full spool evicts, perhaps the part on the wire |
| `once`, `drainWithRetries` | `once`: `OnceCollect`, `OnceBlocked`, `OnceWaited`, `OnceDrained`, `OnceGivesUp`, `OnceReported`, `OnceNotReported` |
| Pulse, the disk | `pulse`, `disk` (external) |
| a `Retry-After`, and the wait for a new split window | `hold` |

`select` picks any ready case: `FastTick` and `FastEnds` may both be enabled. The
notices of `Stats` are a count; `dropped` records that some were taken in vain. Batches keep
arriving for ever. A part that is split counts as one in `queued`, and `halves` says how many more
the splits of the oldest part have made of it.

### Runner, Batches, Config, Kernel, Uptime

`Runner` holds ages instead of instants, so a service that runs for ever has finitely
many states. A pass (`Begin`, `Start`, `Return`, `EndPass`) starts its collectors in
order; a collector succeeds, fails or runs into the deadline that its own timeout or the
pass sets; `Record` is the bookkeeping of `collect`. The collectors still to run are a set,
of which a pass takes the one that the list has first (`First`). `Tick` is the clock and
both tickers, with the one tick that a Go ticker keeps. `Alive` is `watchdogAlive`.

`Batches` takes scripts one by one: the output is completed (`Injected`), validated,
merged if the batch stays valid. `StartSplit` is `queue()` up to `SplitBatch`: metrics of blocked
names are taken out (any set of names: what Pulse refused lately is not in this module), the
agent's own signals join, without validation, and of the states those remain that are new
(any set: `StateDelivery` says which). Then the batch is cut up. `Add` keeps count of bytes as the
code does; `Bytes` in the property counts what a part really takes.

`Kernel` interleaves the three reads of one collection with kills, journal entries and
restarts. With a directory the cursor file decides what a query returns, without
one the boundary of the last collection.

`Uptime` has one target of each kind. The exchanges with a name, TCP, HTTP or TLS
server are one request that is answered or not; a port scan has its dispatcher and workers, a
blocklist lookup its reference query, a ping its summary, a records lookup the
aliases of its answer. `truth` is what the world answered, `result` what the check
claims.

`Config` follows the token and the cadences field by field and lets one field stand
for each other kind (a number, a switch).

### The servers

`Docker`, `Registry`, `PBSGroups` and `ProxmoxBackups` are one collection each, with a
context that can end and reads that can fail at any step. `PBS` and `ProxmoxHealth` go on
for ever: tasks fail, the batch is queued or lost, and the lists of limited length that the
server or cluster shows (`shown`, `runs`) take in new tasks, lose any and may hold them again
(`ListsChange`, `ListChanges`). Some tasks are listed without a UPID (`Nameless`); the code never
marks them as reported. `sent` is the history of the events that were queued and whose task has been
listed ever since.
`Proxmox` has one agent on each node; corosync changes the membership between an
agent's reading of the status and its report.

`PBSGroups` and `ProxmoxBackups` take datastores, namespaces and queries in the order of the
code; a query of `ProxmoxBackups` is `<<name>>`, or `<<"content", storage>>` for the backups of a
storage. `Docker` says which container a reference goes to by the
order that `uniqueImageJobs` sorts by (`Before`), not by a sort.

### Host and Servers

`Host` and `Servers` instantiate these modules side by side. The programs share no
state (in the agent they run one after the other within a lane, see `Runner`), so a
behaviour is of one `program`, chosen in the initial state: the variables of the same name
are the same variable, and those a program does not use stay "off". A property is stated of
the program it is about, and the fairness of each program is stated for it alone. What
`Host` and `Servers` prove and check of a program is what its module alone would: the steps of a
program are those of its module, and nothing else moves its variables.

## 3. Properties

Spool:

* `NothingVanishes` – an item `Enqueue` queued is in a file, or Pulse stored it, or
  it was dropped where the code raises a notice for it.
* `StoredOnce` – Pulse stores no item twice, in spite of retries, splits, crashes and
  requests that arrive late. It rests on `InTime` (the deadline of a request) and on
  `MaxAge < KeyLife`.
* `QueueOrdered`, `OldestLostFirst` – collection order, also through splits and
  restarts; only the oldest end is dropped.
* `HealthyNotQuarantined` – only items Pulse refuses are given up.
* `QueueOnDisk`, `NamesUnique`, `BytesExact` – the queue in memory, the directory and
  the byte count agree.
* `BudgetRestored` – a finished `Enqueue` or `Open` is within the budget.
* `ImplementsLog` – the spool implements `TelemetryLog`. The directory is the
  abstract queue; an item that Pulse stored counts as delivered even if its file is
  still there, which makes retries, lost replies, splits and restarts stutter.

States:

* `SuppressedIsCovered` – a state is suppressed only if Pulse has, or the queue
  holds, the value in the cache, or a notice is pending that clears it, unless an end of the
  process or a failed write fell into one of the windows of `exposed`.
* `EventuallyCurrent` – once values stop changing, Pulse holds them all, whatever was
  lost before.

Delivery:

* `NoLostWakeup` – when the delivery loop waits although parts are queued, a wake-up is in
  the channel or about to be sent.
* `RetryAfterHonoured` – no request starts before the `Retry-After` of the last one, or the pause of
  a spool that may split no more, is over, neither a retry nor one for parts that arrived meanwhile.
* `RecoveryDrains` – once Pulse takes requests and the disk works for good, the queue empties again
  and again or, while batches keep coming, parts keep leaving it. A queue that is never empty is
  possible: a lane may queue as fast as the loop delivers.
* `ClosedLast`, `ShutdownEnds` – a signal ends the process whatever its goroutines are doing,
  and the cache is saved and the spool closed after the last of them.
* `SuccessIsComplete` – a single run that exits with success has left nothing queued.

Runner and host:

* `NoStarvation`, `CadenceKept` – a slow collector starts again in time, and not before its time.
* `OnceRunsAll` – a single run starts every collector.
* `NoFalseAlarm` – the watchdog lets a fast lane that keeps its budget live.
* `PartsSound` – the parts are what was to be sent, within every limit in real bytes, each valid by
  itself but for metrics of the agent's own names (section 5).
* `ConfigSound` – the process follows the strongest layer; no source of a token survives
  in the shadow of another.
* `KernelCovered` – counts add up to what happened; no journal entry between two
  collections is missed and, with a cursor, none is counted twice across restarts.
* `ResultsHonest` – a check that was cut off or got a useless answer says so: a port that was
  not dialled is not closed, a list that fails its reference query lists nobody, a summary of
  pings that contradicts its lines counts for nothing, and addresses are those an answer's
  aliases really lead to.

Servers:

* `EventsOnce` – the failure of a task or job is queued at most once while it is listed, whatever
  reads fail in between. It may repeat after it left the lists and returned, as `module-pbs.md:93`
  and `module-proxmox.md:101` say, and in every batch if it has no UPID (`Nameless`).
* `CatchesUp` – once the lists are steady and can be read, every failure that is listed is taken up,
  also when more fail at once than a batch may hold; provided that the failures without a UPID,
  which take their places in every batch, are fewer than that.
* `OneReporter`, `TakesOver` – one node speaks for the cluster under one membership, and once
  the membership settles exactly one goes on to.
* `CephCurrent` – the resource of Ceph shows the last query, also the failing one.
* `NothingInvented` – groups, guests, backups, HA states and image updates are claimed only
  from an answer; what failed or was cut off is marked.
* `PoolReturns`, `ResultsComplete`, `OneSeries` – a pool ends wherever its context does, with one
  result per job unless the collection failed; a reference has one image.

## 4. Runs

| run | distinct states | what it shows |
|---|---|---|
| `spool_crash` | 1.07 million | crashes at any point, no disk faults |
| `spool_faults` | @F million | two steps with a fault of any kind and a crash |
| `spool_disk` | violated | `DiskWithinBudget`, finding 2 |
| `spool_budget` | violated | `QueueWithinBudget`, finding 1 |
| `state_safety` | 3.7 million | both lanes, two incidents of any kind |
| `state_current` | 0.12 million | liveness with two losses or crashes |
| `state_lost` | violated | `LossClearsCache`, finding 3 |
| `state_flip` | violated | `ChangesAreSent`, finding 4 |
| `delivery` | 0.16 million | the service and the single run, safety and liveness |
| `once_reports` | violated | `RejectionsReported`, finding 5 |
| `host` | 0.57 million | runner, watchdog, batches, configuration, kernel and uptime |
| `servers` | 0.16 million | Docker, registries, Proxmox and the backup server, safety and liveness |

Bounds of the spool runs. `spool_crash` has parts of up to four items, so a refused
item takes two levels of splits, five items in all, a budget of two small parts, a
lifetime of one tick, a split budget of one per tick: eviction, expiry, a
pause of the split budget and a second split window all happen; a batch larger
than the budget is in `spool_faults`. One crash
suffices to interrupt each operation once; a second failure in the same operation
is in `spool_faults`, with smaller parts and two steps with a fault (`MaxFaults`; a cleanup that
leaves both halves is one step). Pulse changes its mind
about an item in `spool_crash` (`CanHeal`) and not in `spool_faults`: a half
that survives a failed cleanup, or a late request for a part that was split, could
otherwise be stored beside its parent. This takes two independent failures in
a particular order; it is listed as a hazard.

Bounds of the state runs. One state in each lane, two values, two parts in the
queue (one in `state_current`, whose liveness check is expensive), two changes (one)
and two incidents: a value can change and change back, a loss can follow or
precede a stop, `Save` can fail in that stop, and both lanes meet. `state_current` has losses and crashes but no
failing writes.

Bounds of `delivery`. The first wait is one unit, the probe of a pausing Pulse and the cap
are two, a `Retry-After` has up to three: a backoff grows and is capped, and
a `Retry-After` is longer than either. Two parts fit the spool and batches arrive
without end, so one is evicted while it is sent; a part is split into two at most (`MaxHalves`), so
that a half is refused, delivered or evicted on its own; the single run retries once.

Bounds of `host`. A fast collector, and two slow ones with timeouts that together exceed the
interval of four units, so the second may have no time left; both are due every other pass
unless a timeout has moved one of them.
Two scripts, three items to a part and two to a collection, ten bytes to a request: each
limit is the first to be hit in some batch, and an item too large for any request occurs; the
agent adds a metric, a state and an event or nothing (`SelfSignals`), and a script may write a metric
of the same name with another definition.
Two ports and two scanners, two lists, two pings, answers of three records (two aliases and an
address, in any order). A clock of three units with entries before, at and after
a query's boundary, one OOM kill, and a restart at any step.

Bounds of `servers`. Three nodes, one without an ID, and two changes of the membership, so a
partition and its end; three tasks of the cluster and three of the backup server, with lists that
hold them all, so that no task has to leave and any may; one of them without a UPID;
two events to a batch, so that a third waits for the next while the nameless one repeats; three containers with two images and two
references; two datastores with nested namespaces and a limit of two groups; four kinds of
backup jobs, three guests and four storages; three references, one official, and up to
two repository digests.

Deadlock is checked in the runs of the spool and the states. The programs of the other
runs end (a collection, a closed service), so `CHECK_DEADLOCK` is off there, and that they do
not end early is what `ShutdownEnds`, `PoolReturns`, `CatchesUp` and `NoStarvation` say.

Fairness of `FairSpec`. The tickers call each lane again and again
(`Collect`), Go's mutex does not starve a waiter (`FilterStates`, strong since the
other lane takes the lock in between), a lane that holds `queueMu` goes on
(`LaneStep`, weak), Pulse answers the head in the end (`Deliver(TRUE)`), the service
manager starts the process again (`Start`), and time passes (`Age`). Nothing is
assumed of losses, faults or crashes.

Fairness of `DeliveryLoop`: goroutines that can go on do and time passes (weak); a
request ends, since its context has a deadline. While Pulse takes requests, a request that is made
again and again does not end with the limit of splits each time: a new window allows splits
(`Delivered \/ Rejected \/ Split`, strong). `FastEnds` and `SlowEnds` are strongly
fair: a `select` with a tick and an ended context picks either at random, so a
lane that comes back to it again and again does see the context. Fairness of the
servers: the runner starts each phase again and again (that is `NoStarvation`), and a step
that is enabled is taken; the reads that may fail (`CheckAvailable`, `CollectJobs`,
`Elected`, `ReadStatus`) are strongly fair, that is, each succeeds in the end if it can
succeed again and again. A worker's request ends with its context at the latest.

## 5. Findings

1. **A split exceeds the budget.** `replace` (spool.go:405) adds the halves, which
   are larger than their parent by one envelope, and does not evict. The queue is
   above `MaxBytes` until the next `Enqueue`.
2. **A file nobody counts.** When the directory sync of `atomicWrite` fails
   (spool.go:235), the renamed file stays while `Enqueue` reports an error; the
   directory exceeds its budget. The next start delivers it.
3. **Losses forgotten at a stop.** Notices are in memory, the cache is on disk. A stop
   between a loss and the next fast cycle leaves states suppressed that Pulse
   never got (agent.go:126), until their refresh after six hours or seven days.
4. **A change that is not sent.** After a crash between `Enqueue` and `Save`
   (agent.go:319) the queue is ahead of the cache; a state that changed back
   meanwhile is taken for unchanged and Pulse keeps the intermediate value.
5. **Rejections of a single run that nobody hears of.** `once` (agent.go:141) takes the notices
   and queues their events only if the first drain delivered everything; after a drain
   that rejects a part and is then blocked they are gone with the process, and so are
   those of the second drain, although the comment says they are reported now.

Observations without a run: `matchingLocalDigest` (docker.go:1040) takes a digest from
Docker Hub for a reference of another registry with the same path, which `UpdatesHonest`
excepts (`Twin`); the events of PBS and Proxmox are lost, not only when the batch is invalid
(pbs.go:902) but also when it cannot be queued (`Lose`); ten failed tasks without a UPID
fill the events of every batch as long as they are the newest that are listed, and others wait
(pbs.go:917); and `queue()` merges the agent's own signals without validation (agent.go:311), so a
script's metric of such a name with another unit or type is in a part that Pulse refuses, which
`PartsSound` excepts (`Own`).

## 6. Proofs

Every safety invariant and action property of a run that passes is stated by a theorem, for
every value of the constants that satisfies the assumptions of its module. All of them go the
same way: an inductive invariant that holds initially, is kept by every action, and implies the
property. TLC checks the properties on the instances of section 4.

`SpoolProofs` proves, for every value of the constants that satisfies the
assumptions in `Spool` (for any sizes, limits, shapes of batches and
numbers of faults and crashes):

* `TypeCorrect`: `Spec => []TypeOK`
* `SpoolInvariant`: `Spec => []SpoolInv`
* `NoTelemetryVanishes`: `Spec => []NothingVanishes`
* `QueueIsOnDisk`: `Spec => []QueueOnDisk`
* `NamesAreUnique`: `Spec => []NamesUnique`

Of these the last three are not inductive by themselves. `SpoolInv` adds what the code
relies on and never says:

* `LockInv` – whoever is inside a section holds `mu`, and while `replace` runs its part
  stays queued.
* `HalvesWritten` – the parent is removed only when both halves are files; with
  `HalvesPartition` (two halves hold exactly the items of their parent) nothing is lost.
* `AnsweredOnce` – `Drain` removes a part only when its items are stored or reported.
* `DirectHalves` – a part and a descendant of it lie in the directory together only
  as parent and half, only while that split is unfinished or was abandoned, and
  never while the descendant is queued. This is what makes it safe for `load` to
  delete every descendant of a surviving file (`OrphansCovered`): each is covered
  by a parent that is kept.
* `SeqAhead` – the sequence number is past those on disk once `load` has read them, so
  a new file has a new name.
* `PartsDistinct` – no part is queued twice, so removing one removes it.

The step lemmas (`DiskDrop`, `DiskAdd`, `DiskHalf`, `DiskCommit`, `DiskCleanup`,
`DiskQuiet`) each treat one way in which a step may change directory and queue;
`StepDiskInv` assigns every action to one of them.

`SpoolOrderProofs`, under the same assumptions:

* `QueueKeepsOrder` (`Spec => []QueueOrdered`) and `OldestIsLostFirst`
  (`Spec => OldestLostFirst`), from `OrderInv`. The order in memory is easy to keep while a
  process runs, and after a restart it is whatever the file names say; so the invariant relates
  names to items. Parts are not empty (`PartsFilled`), what `Enqueue` has yet to write is newer
  than all there is (`TodoNewest`), names grow as items do, for halves too (`NamesGrow`,
  `FilesRanked`), and what `load` has scanned comes before what it has not (`ScannedFirst`).
* `BytesAreExact` and `BudgetIsRestored`, from `BudgetInv`: the room that `Enqueue` made is
  the size of the bodies it has yet to write (`RoomMade`), and `bytes` is the sum over the queue.

`SumTheorems` is what the second rests on. A sum or a fold is defined by recursion, and its laws
(`SumOfPartialSums`; the folds' `FoldOver` and `StepsTaken`) are proved without an
induction theorem: if a law failed it would fail for a smallest subset, or at a least index, and
there one step of the recursion refutes it.

`SpoolOnceProofs`:

* `HealthyItemsAreKept` (`Spec => []HealthyNotQuarantined`): a part that is refused has an
  item Pulse may refuse (`RefusalFounded`), and only a part of one item is given up.
* `StoredAtMostOnce`: `SplitsDecided` implies `Spec => []StoredOnce`. Whatever can still be sent
  is apart from what was sent, or is the same body with a key that is still remembered, or
  was cut from what Pulse will never store (`SentOnce`, `HalvesHopeless`, `KeysRemembered`).
  `SplitsDecided` says that Pulse never comes to accept what it refused, or that every half
  left behind is removed and no request arrives after `Drain` gave it up. Without
  it the property can fail: a parent refused at first and accepted late, and a half of it that
  survived the cleanup, are two bodies with two keys (section 4, bounds of the spool runs).
  `spool_crash` is an instance of the second alternative, `spool_faults` of the first.
* `SpoolIsALog`: `DirectoryObeys` implies `Spec => ImplementsLog`, step by step: each action
  of `Spool` is an operation of `TelemetryLog` or a stutter under the mapping. It needs that the
  files are the queue up to halves in the making (`DiskIsQueue`), that `Drain` holds
  what is first (`HeadFirst`), and that nothing is in a file that was not accepted, in
  the order of acceptance (`AllAccepted`, `AcceptedOlder`). `DirectoryObeys` leaves writes
  and requests free to fail, but a file that was removed is gone and a
  failed `Enqueue` leaves none: finding 2 is that the code does not have this otherwise, and a
  file that outlives its part comes back as one that the log has already dropped.

`StateDeliveryProofs`, for any states, values, length of the queue and number of
incidents: `TypeCorrect`, and `SuppressionIsCovered` (`Spec => []SuppressedIsCovered`). That
the cache is covered is not inductive: `Commit` puts into it what `Enqueue` queued some steps
before, and `Start` what an earlier process saved. `IInv` adds

* `Exclusive` – one lane holds `queueMu`, so no other lane queues between `Enqueue` and `Commit`;
* `InFlight` – the states between these two steps are queued or a notice is pending;
* `SavedHeld`, `Down` – what a stopped agent has on disk is what Pulse will hold, unless `exposed`,
  and nothing is in memory.

`WithKeeps`, `WithLeads` and `DeliverKeeps` say what the ends of the queue do to the value Pulse
will hold; a notice vouches for every other change of the queue.

`DeliveryLoopProofs`, for any backoff, bound and number of parts with `BackoffAssumption` and
`LoopBoundsAssumption`: `TypeCorrect`, `PartsAreNoticed` (`NoLostWakeup`), `SuccessLeavesNothing`
(`SuccessIsComplete`), `HoldsAreKept` (`RetryAfterHonoured`), `CloseIsLast` (`ClosedLast`), all from
`Invariant`. It adds who may run beside whom in a service and a single run (`OneMode`), that only a
loop that drains has a request on the wire (`OnWire`), that a loop that will not look at the
queue again before it waits has its wake-up in the channel or on the way (`WokenLater`), that a timer
covers the rest of a `Retry-After` (`HoldCovered`), and what has ended when the agent is closed
(`ClosedAfter`).

`HostProofs` and `ServersProofs` each prove one `Invariant`, which is the inductive invariant of
the running program, and from it the properties. The invariants are in the programs' modules.

`HostProofs`, with the assumptions of `Host` (any collectors and timeouts, any journal, targets,
outputs, limits and files):

* `SlowCollectorsRun` (`NoStarvation`), `CadencesAreKept` (`CadenceKept`), `SingleRunIsComplete`
  (`OnceRunsAll`): that a collector is not starved is not inductive, as it waits behind others. `Fed`
  relates the age of its last start to the time the pass has used and the timeouts of those before it,
  and says why it was left out if it was; `FedOnce` does so for a single run. Both count with sums of
  timeouts (`SumTheorems`).
* `WatchdogIsFair` (`NoFalseAlarm`): `Watched` bounds the age of the fast lane's last completion by
  where the lane is in its pass.
* `KernelIsCovered` (`KernelCovered`): what lies before the boundary or the cursor was
  reported or is in hand (`Bounded`, `Followed`), and the counter is what was told (`Told`).
* `ResultsAreHonest` (`ResultsHonest`): what each stage of a check holds is what the world
  answered so far (`Answered`, `Scanned`, `LookedUp`, `Valued`). Part of it is
  `OwnersAreTheChain`: as many passes over the records as there are records find
  exactly the names that the aliases lead to, in whatever order they come.
* `PartsAreSound` (`PartsSound`): while a batch is cut up, the parts and the current one are a
  prefix of each collection, the rest is what is still ahead, and the size that is kept is the
  bytes that the current part takes (`Splitting`); what is merged is a valid batch (`IsBatch`,
  `Valid`), and what `queue()` makes of it is still one but for the agent's own names (`Sendable`).
* `ConfigIsResolved` (`ConfigSound`).

`ServersProofs`, with the assumptions of `Servers` (any number of tasks, nodes, guests,
containers, references, datastores and groups, any limits):

* `FailuresAreSentOnce` (`EventsOnce`), for the backup server and the cluster. The memory of reported
  tasks forgets what the lists no longer hold, and a list in hand may be older than what was queued
  since; so the invariant says that what was queued and listed ever since is remembered
  (`Tracked`), and that the jobs in hand have it, too (`ReadLately`).
* `OneAgentReports` (`OneReporter`): an agent that goes on to report was elected by a side
  with a quorum under the membership it read (`KnownEpochs`, `ElectedNow`), two such sides share a
  node, and one side elects one node.
* `CephIsCurrent` (`CephCurrent`).
* `NothingIsInvented` (`NothingInvented`). A scan of groups has counted what it read
  and nothing else, and while it calls itself complete nothing behind it is missing (`Counted`,
  `NothingMissing`); the claims about guests, jobs, storages and HA have an answer behind
  them, and each query is made in its turn (`Sound`, `InTurn`, `AllSaid`); what is said of a
  reference follows from the one answer for it (`Said`).
* `CollectionsAreComplete` (`ResultsComplete`): a job is unsent, with one worker or done, and in one of these
  places only (`NoneTwice`), and a pool that ended well had all of them (`Ends`).
* `ReferencesHaveOneSeries` (`OneSeries`): the jobs are
  `UniqueImages` without repetition (`Listed`), and the first container of a reference, running if one
  runs, is unique.

Assumptions on the constants that say something about the code: a collector's name is of one
collector, a slow cadence is above the interval, and queueing a batch takes no longer than the
interval and the watchdog's grace together (`RunnerAssumption`; the first two are what
`Config` and the registries of collectors give, the last is what a healthy host is taken to do); names of datastores, guests and storages do not repeat (the APIs' keys); ports
are a range.

## 7. Model-checked only

* Liveness, and with it ENABLED, which the prover cannot do: `EventuallyCurrent`, `RecoveryDrains`,
  `ShutdownEnds`, `CatchesUp`, `TakesOver`, `PoolReturns`.
* The properties that a finding violates: their counterexamples are TLC's.
* `StoredOnce` and `ImplementsLog` have hypotheses; TLC checks them only on instances where these
  hold (`spool_crash` and `spool_faults`, `spool_crash`).

## 8. Not modelled

Of the components that are modelled:

* The in-memory spool (no `spool_dir`), the binding file, the directory lock,
  `.pending-*` files and refusals to open (foreign entries, wrong modes).
* A clock that steps back. Parts that `load` refuses to index. In `DeliveryLoop`, a single file that
  stays unreadable while the rest of the disk works.
* A removal of a file that is undone by a power failure: `replace` and `drop` do not
  sync the directory after they remove a file.
* When and for how long a metric is blocked (`Batches` takes any set of names), counters, and the cap
  of 20 pending notices.
* In `StateDelivery`: a late request that overtakes newer states at Pulse.
* The arithmetic of container statistics (Docker), the metrics of nodes and pools (Proxmox)
  and of datastores (PBS): they are copied from one answer and converted.
* Configuration as text: TOML, URLs, durations and the checks of single fields.

Of the system:

* The collectors of the host and of services, and those of macOS: each reads files or the
  output of one command once, keeps no state between calls, and has no step another actor could
  come between. Their work is parsing.
* Entities, command execution and service probes, wire formats: construction of strings,
  or one bounded call that succeeds or fails for the modules that use it.
* The wiring of the other commands, the installer and the mock server.

## 9. Open ends

1. `Spool` interleaves one caller of `Enqueue` with one drain, `DeliveryLoop` counts parts: that
   the steps of `Spool` map to those of `DeliveryLoop` is argued by the table in section 2,
   not checked.
2. An unreadable head: `RecoveryDrains` in a spool whose `peek` fails for one file.
3. The cap of pending notices, and the event of a notice whose `Enqueue` fails.
4. A run of `Registry` without the exception `Twin`.
5. `StoredOnce` and `ImplementsLog` under weaker hypotheses than `SplitsDecided` and
   `DirectoryObeys` (section 6): counting the faults instead of naming their kinds.
