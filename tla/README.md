# mocop: a verification development in TLA+

[mocop](../src/README.md) watches the GPU servers of a team over SSH. One
process holds a collector that probes the hosts, a store that keeps what was
seen, an incident tracker, a history database, webhook workers and an HTTP
server with a dashboard. This directory models the parts of it whose
correctness depends on order: threads that interleave, results that come late,
restarts, full queues and clocks, and the algorithms whose input decides more than
a test can enumerate. TLC checks the models on small instances; TLAPS proves the
main safety properties for every instance.

Paths such as `service_scheduler.py` are relative to `src/src/mocop/`.

* [The system](#the-system): the inventory
* [Plan](#plan): modules, order, what composes what
* [Modules](#modules): state, actions, abstractions
* [Runs](#runs): what each run checks, and its bounds
* [Proofs](#proofs)
* [Findings](#findings)
* [What is not modelled](#what-is-not-modelled)

## The system

```
 SSH config ──▶ discovery ─┐          HTTP handlers ◀── dashboard, automation
                           ▼            │ manual probe, settings, actions
                     MonitorService ◀───┘ update_config, request_probe, stop
                      │  one thread
        worker pool ──┤ results
                      ▼
                  StateStore ──▶ IncidentTracker
                   │      └────▶ history writer ──▶ SQLite ──▶ (next start)
                   └──▶ webhook workers ──▶ receivers
```

| Component | State it keeps | Operations | Hard because of | Correct when |
|---|---|---|---|---|
| collector scheduler (`service_scheduler.py`) | discovered hosts, config and generation (config lock); runtime hosts, in-flight and manual sets (control lock); deadlines, failures, futures (loop) | `run`, `drain_completed`, `request_probe`, `update_config`, `stop` | the loop works on a snapshot that others replace; a wakeup flag that it clears; probes that outlive their host | one probe per host; no result of another incarnation is shown and none of a live host is lost; no lost wakeup; requests are served; a stop ends it |
| state store (`service.py`) | servers, incarnations, history rings, process tables, maintenance, actions, event bindings, versions | `apply`, `set_hosts`, `begin_poll`, `reconfigure`, `set_incident_actions`, `set_maintenance_windows` | everything is read and written by several threads; decisions leave the lock before they take effect | each check is repeated where it matters (incarnation, actionable); views are consistent |
| incident policy and tracker (`incidents.py`, `incident_domains.py`, `incident_types.py`, `incident_health.py`) | active conditions, candidates, severity changes, recoveries, opening times, event ring | `conditions`, `observed_domains`, `update`, `remove_hosts` | blind samples, delayed samples, clock steps, thresholds that move | transitions have the evidence they need; missing telemetry is neither trouble nor recovery |
| notification delivery (`notifications.py`, `webhook_transport.py`) | queue, seen ids, pairing table, saturation, counters | `publish`, worker `_run`, `close` | events wait while the world changes; answers are lost; tables are bounded | alerts of open conditions arrive, recoveries pair, nothing hangs |
| history writer (`persistence.py`, `persistence_batches.py`, ...) | bounded queue, admission flags, drop counters, criterion cache | `_enqueue`, `_write_loop`, `flush`, `close` | a full queue, a failing writer, barriers, a close that times out | FIFO without duplicates; every loss is counted once; a flush tells the truth |
| restore and retention (`persistence_restore.py`, `persistence_incidents.py`, `persistence_rollups.py`, ...) | tables on disk | restore, prune, rollup, backfill | retention must keep open generations; a rollup must equal its samples | what is restored is what was open; rollups agree with the raw data |
| GPU process inventory (`process_transitions.py`, `occupancy.py`, `usage.py`, `reports.py`) | process tables and transition rings | tracking, invalidation, reconciliation, pairing | observation gaps, PID reuse, restarts | no invented occupancy, no lost run |
| configuration controller (`inventory.py`) | the file, a thread lock and a file lock | `change`, `update_*` | read-modify-replace by threads and processes; the runtime follows by callback | file and runtime agree; no update is lost |
| discovery and topology (`discovery.py`, `ssh_topology.py`) | a cache of resolved routes | `resolve_host_discovery`, `cancel` | slow, fallible, cancelled | stale answers are not installed |
| resource probe (`probe.py`, `probe_process.py`) | rate baselines, process samples, registry of children | `probe`, `cancel` | a child started while cancel runs; one deadline for all I/O | no child survives a stop |
| self-update (`updates.py`) | status record, latest release | `check_now`, `apply`, worker | poll and apply threads share the record | one worker; a restart only into a verified version |
| lifecycle (`__main__.py`) | stop event, order of start and stop | `main` | time-outs of every join | late results reach the database or are known lost |
| HTTP, CLI, dashboard (`web.py`, `client.py`, `doctor.py`, `static/`) | sessions, browser state | routes, event stream, loaders | superseded answers, several tabs | the latest answer wins; one notification per edge |

Interactions: HTTP threads call `request_probe` and, through the configuration
controller, `update_config`; both wake the scheduler. The scheduler and
`update_config` call `set_hosts`, the scheduler alone calls `begin_poll` and
`apply`. `apply` updates the tracker and hands incident writes to the history
queue under the store's lock, and publishes notification events after releasing
it. The worker of an endpoint calls back into the store before each attempt.
At the end `main` stops the scheduler, joins it for a bounded time, closes the
history and then the notifications; the next start reads the database, primes
the tracker and the workers, and goes on.

## Plan

Modelled in this order, what the whole process hangs on first:

| # | Modules | Component |
|---|---|---|
| 1 | `Scheduler` | collector scheduler with the store's incarnations |
| 2 | `IncidentPolicy`, `IncidentTracker` | policy, tracker, its write queue, restart |
| 3 | `Delivery` | store, one webhook worker, operators, shutdown, restart |
| 4 | `Subsequences`, `LossyQueue`, `HistoryWriter` | what the history promises; the writer that implements it |
| 5 | `GpuHistory` | raw rows, rollups, retention, migration, crashes |
| 6 | `ProcessHistory`, `UsageReport` | process timeline and occupancy; the arithmetic of usage |
| 7 | `ConfigDocument`, `ConfigInventory` | what the loader accepts; the controller that writes it |
| 8 | `SshTopology` | resolution of routes and their projection |
| 9 | `ProbeRun`, `ProbePayload`, `ProbeCadence` | the child of a probe, its output, what it asks |
| 10 | `SelfUpdate` | poll thread, apply workers, restart |

`Scheduler` composes the scheduler with the part of the store it shares;
`Delivery` composes store, worker and shutdown, and abstracts from the tracker
(which confirms a condition "at any time" there, as `IncidentTracker` says when).
`IncidentTracker` EXTENDS `IncidentPolicy`, the pure part, and `ConfigInventory`
EXTENDS `ConfigDocument`, as does `SshTopology` for what the loader accepts as a
tree. Each component has a module of proofs beside it where there are
theorems: `SchedulerProofs`, `IncidentProofs`, `DeliveryProofs`, `HistoryWriterProofs`,
`GpuHistoryProofs`, `ConfigProofs`, `PayloadProofs`, and `ControlProofs` for `ProbeRun`,
`ProbeCadence` and `SelfUpdate`.

The abstract specification is `LossyQueue`: a FIFO that stores a write at most once
and in order, may lose it, and counts every loss. `HistoryWriter!Implements` is the
refinement. The other reference definitions are recounts that the properties
make: of contributions (`RollupExact`), of observations (`OccupancyExact`), of units of
time (`UsageCountsUnits`), of the change a request asks for (`NoChangeLost`).

What could follow: a composition of `ProbeRun` with the scheduler's stop.

## Modules

### Scheduler

| Variables | Code |
|---|---|
| `source`, `edits` | the SSH client configuration that discovery reads (environment) |
| `config`, `generation`, `discovered` | `_config`, `_config_generation`, `_discovered_hosts`, under `_config_lock` |
| `updating` | an `update_config` call between its discovery and the lock |
| `incarnation`, `nextIncarnation`, `shown`, `polling` | `StateStore`: host incarnations, the incarnation of the result shown, the polling flags |
| `runtimeHosts`, `runtimeInFlight`, `manualRequests`, `lastManual` | `_runtime_hosts`, ..., under `_probe_control_lock` |
| `wakeup`, `waking`, `stop` | `_scheduler_wakeup`; a thread that is about to set it; `stop_event` |
| `pc` ... `inventoryGeneration` | the position and the locals of `run` |
| `refreshDue`, `discovery`, `future` | `refresh_at` passed; `discovery`; `discovery_future` with its generation |
| `inFlight`, `inFlightHosts`, `completed`, `current`, `due` | the futures, the local set, what `drain_completed` iterates over, the batch being submitted |
| `deadline`, `failing`, `basis` | `_next_probe_at` as a class, `_failure_counts` as a set, the interval a deadline was computed with |

One action per stretch of the loop that holds no lock another thread could take
in between: `LoopTest`, `ClearWakeup`, `Discover`, `Install` (config lock),
`Collect`, `Drain`, `Apply` (store lock), `Select` and `StartProbe`/`StartFails`
(config lock, held over the batch: `UpdateInstall` is disabled at "start"),
`PlanWait`, `Awake`, `Retire`. The environment: `EditSource`, `UpdateResolve`,
`UpdateInstall`, `RequestProbe`, `Stop`, `Wake`, `FinishProbe`,
`FinishDiscovery`, `DeadlinePasses`, `RefreshPasses`.

Abstractions, each of which allows more than the code does or drops what no
property looks at:

* Time is what the loop can tell apart: "zero", "due", "later". Deadlines pass
  where the loop reads the clock. A rebase may leave any moved deadline due
  or later. Ties of `nsmallest` are arbitrary, "zero" comes first.
* An incarnation number is shared by the hosts that one `set_hosts` call adds.
* The cooldown of manual probes is a choice: a stamped host may be accepted.
* `basis` merges `_backoff_policies` and `healthy_intervals`; per-host intervals
  and the interval that the settings handler writes are `config.interval`.
* All threads that are about to call `set()` are one boolean `waking`: the
  flag is idempotent.
* Batches are left out: they only measure durations.
* `poll_once` (the `--once` command) is not modelled.

### IncidentPolicy and IncidentTracker

One host. `Sample` is a probe result: status, time, whether the GPU query
succeeded, an optional system section, the GPUs listed and their temperatures.
`Reading(s, k)` is the condition that a sample shows under a key, `Observed(s)`
its telemetry domains, `TelemetryUnknown` the blindness rule. One numeric policy
stands for those of CPU, memory, swap, pressure, disks and GPUs; the categories kept
are its three shapes ("cpu": a value that can be missing; "disk": a line that
moves; "gpu_temperature": a device that can depart), and the three immediate
conditions.

`active`, `candidates`, `changes`, `recoveries`, `openedAt` are the maps of
`IncidentTracker`; `incidentQueue`, `incidentsLost`, `saved` are the history queue, whether it
dropped something, and per condition what the database calls open, when it was
last opened and when it last changed. `Update` is the whole of
`IncidentTracker.update` with the `persist_incidents` that `apply` calls after it
under the same lock; `CommitIncident` is the writer, `Restart` loses queue and memory and
resumes from `saved`, `RemoveHost` is `remove_hosts`. `recent` (the last
`Window` samples) and `orphans` (open conditions that left with their host) exist for
the properties only.

Abstractions: counts stop at the required cycles; sample times are arbitrary, so
the clock may step back; event ids, values, details and `last_observed_at` are left
out; the criterion cache of the writer (which skips writes that change nothing)
is invisible here; items commit one by one; the queue of the database is shared with
other records, which is why it may be full at any length (`QueueSize`).

### Delivery

Conditions are `<<host, key>>`. The store's part: `active` (severity in the
tracker), `incarnation`, `maintenance`, `action`, `bound` (how many events were
bound to an incarnation; the latest `BindSize` are remembered), `pending`
(events between the store's lock and the queue), `saved` (the database, which
keeps up while it is open). The worker: `queue`, `paired`, `saturated`, `wpc`,
`current`, `attempt`. The shutdown: `phase` (running, stopping, flushed,
closing), `collector`, `probing` (probes that ran at the stop), `forced`. The
receiver: `received`. Properties only: `tainted` (conditions of which the receiver missed or
may have missed something: drops, failed or ambiguous sends, removals, losses
at a restart), `quiet` (open conditions that, since they opened, were muted or had an
event withdrawn that the store had forgotten) and `primed`.

The pairing logic, the gate with `StillActionable`, retries, eviction with
saturation, the order of shutdown with every join timing out or not, the forced stop
and the priming after a restart are as in the code. Left out: test deliveries, rate
limit delays, counters, payloads, and the `seen` set (event ids are unique, so it never
fires). Endpoints do not interact; one is modelled, with any of the
given subscriptions.

### HistoryWriter and LossyQueue

| Variables | Code |
|---|---|
| `queue`, `closed`, `writerFailed`, `dropped`, `flushedDrops` | `_queue`, `_closed`, `_writer_failed`, `_dropped_writes`, `_flushed_drops` |
| `offered`, `tracked` | the producers: writes offered so far, the critical line of the open condition |
| `calls` | the calls of `flush()`: where each is, the losses it started from, what its barrier reported |
| `companions`, `rollups` | which tables the start could create |
| `wpc`, `batch`, `pruned` | the position and the locals of `_write_loop` |
| `cache` | `_incident_criteria` of the condition |
| `stored`, `db`, `lost` | what was committed, the row of the condition, the losses in the order they were counted |

`Offer` is `_enqueue` under the admission lock; `FlushStart`, `FlushAdmit`,
`FlushTimesOut`, `FlushReturns` are the stretches of `flush` between which the
writer may run; `Close` ends admission. The writer opens, gets the first item,
fills the batch up to a barrier, commits (`Commit`: committed, with late points
dropped, or rolled back; `Retry`: a full database pruned once), and finishes.
`SeeEmpty` and `Idle` are apart because a write or a close may come between the
timeout of the queue and the look at the stop request. `Fail` is an exception that is no
SQLite error, wherever the loop lets one through.

Three kinds of writes are told apart, because the transaction does: "history",
"gpu" (needs the rollup tables, may be outside retention) and "incident" (a
transition and a critical line, with the criterion cache). The SQL of the other
records is the same for all of them.

`LossyQueue` is the promise; `Implements` maps `pending` to the writes in hand (`InHand`:
the batch, unless it was settled already, at "finish") and in the queue. Both take the
writes of a batch, the stored ones and the lost ones with `Picked` of `Subsequences`: the
elements at a set of places, in their order.

### GpuHistory

The tables of one device (`raw`, `busyRow`, `hourly`, `retired`, `cutoff`, and
`companionTables`: whether they are there), the flags of the current run, and where its start is (`phase`). A start is a
sequence of transactions (`OpenSchema`, `StartPrune`, `MigrateCompanions`,
`EnsureRollups`); `Down` is an end or a crash after any of them; `WriteSample`
replaces the sample of its second, as `write_gpu_points` does; `RunningPrune` and
the clock (which may be set back) come at any time. `contributed` and `unrecorded` exist
for the property: what every sample ever taken should count, and which ones were
replaced when no busy count of theirs was recorded. A sample is one number, since the sums
over utilization and memory behave alike.

### ProcessHistory

The table of the live processes, the ring of transitions and the rows in the file, of
one GPU. A step is one poll or one restart: `SampleTable` (a sample with a process
table; one action for the first table, for the reconciliation after a restart and
for the comparison of two tables), `SampleWithoutTable`, `SampleGone` (the GPU is not
in the payload), `ProbeFails` (stale after `StaleCycles`), `Restart` (`Restored` reads
the rows in the `EmissionOrder` of equal seconds). Workload start times tell two
instances behind a reused PID apart, unless one is unknown (0). `seen`, `tables`,
`bare`, `dark`, `twoStops` record what was observed, for the properties only.

### UsageReport

`merge_intervals`, `_classify` over prefix sums, `classify_hourly`, `_split_by_day`
and `aggregate_usage` as functions over inputs chosen in `UsageInit`; the property
counts units of time. Two samples in one second, one of them without a
class, make the sort in `_classify` compare `None` with a Boolean, and the request
fails: `Fails` names these inputs and the property leaves them out.

### ConfigDocument and ConfigInventory

`ConfigDocument` says which documents the loader accepts where sections refer
to each other (`Accepted`, with `IsTree` for the topology), what each change of the
dashboard makes of one, and what a migration writes (`Migrated`, with
`--auto-discover`, `--no-auto-discover` or neither, and with or without a display name)
or refuses before it writes (`Refused`). What was written is loaded once more, and removed
if the loader refuses it. That happens for one reason: the loader accepts a group of an alias
that is not listed as long as discovery is on, and `--no-auto-discover` does not look for
such groups (`GroupUnlisted`). `MigrationAccepted` says that there is no other reason. `ConfigInventory` is the controller: `Enter` takes the locks, `Load`
parses the configuration and refuses a file that is invalid, `Read` reads the raw document, `Replace` writes
and renames, `UpdateConfig` calls back the runtime and leaves, `WriteFails` and
`ApplyFails` end with an error before or after the file was replaced, `Pace` is what
the settings handler does after the lock was released, `Edit` an editor that knows no
lock. The set `Changed(r, config, data)` holds what a change may write from
the configuration it validated and the data it read, so that the two reads of the file are
not one. `since` records for the property how many edits by hand there were when a handler
loaded the file: only an edit after that excuses a lost change.

`WellFormed` is the shape of a document, what is left when the single sections have
been checked. The nodes that a tree reaches (`ReachedFrom`) are defined as the least set that
has the root and that no link leaves; the loops of the code compute it. How many
entries a section may have (1,024 aliases, for instance) is left out: at such a limit the
candidate is refused before the file is replaced, which is a `WriteFails`.

### SshTopology

`Discover` collects the aliases to ask, `NextBatch` starts a batch, `RouteFound` and
`RouteFails` are answers in any order, each of which may name further aliases,
`PublishTopology` projects the routes: the first hops, cycles cut, fleets drawn as one
infrastructure node, links cut at the limit. A route is the list of its hops, by
jumps or by a command, some of which are no alias; what parsing of `ssh -G` yields is
an input. The loops of the projection are recursive functions of the step: the walk along
the first hops (`FirstHops`), the way back (`Unwound`), the links of a path (`LinkedAlong`), the
hosts in order (`Projection`) and the nodes breadth first (`Retained`).

### ProbeRun

`_run_bounded_process` and its registry, for several threads: the check before anything
starts, `Spawn`, `Register` (refused after a cancellation, with the child killed), the
select loop (`LoopTop`, `SelectCancel`, `SelectTimeout`, `SelectOutput`,
`SelectEnd`), `Ended`, `Wait`, `Finally` and `Conclude` with the one retry over a
stale transport and the status of the probe, which for the local host is never
"unreachable". `Finally` gives a killed child one second to be reaped; one that takes longer
stays "dead". `cancel()` is four steps: the event, the wakeup byte, the copy of
the registry, the kill. A child may leave descendants outside its process
group that hold its streams open (`escaped`).

### ProbePayload

`Script` is what the remote script prints on a machine: sections between
markers, with tools that are missing or fail and rows that are odd. The parser reads it
line by line (`OpenSection`, `CloseSection`, one action per kind of row, `Finish`),
while `Lose`, `Repeat` and `Cut` damage what is on its way. Numbers and names
inside a sound row are left out. `cut` records for the property whether the end was cut off,
since a sample whose last marker is missing must be refused. The assumptions on
machines say what a real one is: GPUs and disks are lists, a UUID is never the empty
one of a row that has none.

### ProbeCadence

`_processes_due` and the merge of an answer: `Start` decides whether the process
query is asked, `QueryAnswered`, `QueryUnavailable`, `CoreOnly`, `ProbeFailed` end the
probe, `SetAttended`, `SetMode`, `Retain` come in between. `activeSince` and `unseen`
record for the property what the pacing must not forget.

### SelfUpdate

`PollFetch`/`PollPublish` and `WorkerFetch`/`WorkerPublish` are the two halves
of `_refresh_release`, the first without the lock; `Apply` accepts a request and
takes the state before the thread is started (`StartWorker`), which may fail
(`StartFails`); `Download`, `Install`, `Verify`, `RequestRestart` are the worker's, `Fail`
ends it at any of its steps. `FailInside` fails while the temporary directory is there still, which
`CleanedUp` removes; `CleanupFails` is the second failure when it cannot be removed. `Release` makes or withdraws a release, `NewProcess` is the
supervised restart. `offered` records for the property which releases were official since a
request was accepted, `disowned` whether a second failure has taken the state from another
attempt.

## Runs

| Run | Instance | Checks |
|---|---|---|
| `SchedulerRemoval` | one host, two workers, two configurations (one excludes the host, one discovers in the background), one edit of the source, two updates | `IInv` (types, one probe per host, in-flight sets, live results), `SubmittableHosts`, `OwnIncarnation`, `PollingTruthful`, `NoLostWakeup` |
| `SchedulerFleet` | two hosts, two workers, an update that lowers the limit to one and excludes a host | `WorkerLimit`, `RequestKept` |
| `SchedulerLiveness` | one host, one worker, one update, fairness | `ManualProbeServed`, `StopTerminates`, `ProbedAgain`, `InventoryConverges` |
| `IncidentDisk` | connectivity and one filesystem, values in all five bands, with and without headroom, two times, one removal, the last three samples remembered | `TrackerAgrees`, `OpenConfirmed`, `ChangeConfirmed`, `ResolveConfirmed` |
| `IncidentGpu` | GPU query, count, temperature and CPU, fairness | `ResolveConfirmed`, `Recovers`, `Opens` |
| `DeliveryFlow` | two conditions of one host, subscription to all states or to openings only, a queue of two, a pairing table of one, two attempts, three events, two troubles, fairness | `NoHangingAlert` (with the types), `AlertsArrive`, `RecoveriesPair`, `NoRepeatedOpen`, `Settles` |
| `Storage` | the machines of the history, see below | `CacheAgrees` (with the types), `BarriersHeld`, `Implements`, `FlushHonest`, `RollupExact`, `OccupancyExact`, `UsageCountsUnits`, `DurableAgrees` |
| `Control` | the machines of the dashboard and the probes, see below | `ChangesAccepted`, `MigrationAccepted`, `NoChangeLost`, `DiscoverySound`, `ScriptUnderstood`, `NothingInvented`, `NobodyLeftWaiting`, `SkippedOnlyWhenFresh`, `UpdatesOwned` |
| `SchedulerManual`, `IncidentEscalation`, `DeliveryAcknowledged`, `ConfigPace` | the smallest instances that show a [finding](#findings) | one property each, violated |

`MCStorage` and `MCControl` run several machines in one state graph. They share no
modelled state, so their product would only multiply: a behaviour picks one `machine`
at first, the others are parked in one state (the controller in the one where no process
comes up, since the loader refuses the file), and a property of a machine
speaks only where it runs. In `Storage` these are the writer, the GPU history, the process
timeline, the usage report and the tracker with its queue and a restart (which the two
incident runs leave out: `UnstoredSpec`); in `Control` the configuration, the topology,
the payload, the probe threads, the cadence and the self-update.

Why these bounds are enough to be interesting:

* A host can be removed and added again twice in `SchedulerRemoval` (an edit and
  two updates) while its first probe still runs, with a second worker for the new
  incarnation. With one host fewer interleavings of hosts occur;
  `SchedulerFleet` has two, and the proofs any number.
* `Threshold = 2`, `Critical = 4`, `Margin = 1` make 0 healthy, 1 inside the
  margin below the threshold, 2 a warning, 3 a warning near the critical line
  and 4 critical. Two cycles to open and two to recover are the smallest for which a
  streak can be broken. The value 3 with headroom short is critical below the
  critical line, and then a severity hold must not bridge the moved line.
* The tracker of `Storage` confirms at once, since what reaches the database is asked
  there; its queue of two fills up and drops, and the restart may come between any two
  commits.
* The writer has a queue of two and batches of two, so that it fills, splits a batch and
  meets a barrier inside one. `Room` bounds writes and flushes together: three writes and
  one flush, or two writes and two flushes. A second flush is needed for the losses that a
  first one acknowledged, a third write for a queue that is full behind a full batch.
* `PairSize = 1` with two conditions evicts; `QueueSize = 2` with three events
  and a stopped worker drops. `BindSize = 2` is less than what can wait (`QueueSize`
  plus one in the worker's hand), so that the store forgets the binding of an event
  that still waits. By default it keeps 2000 bindings for 1024 queued events, but every
  event is bound and only the subscribed ones are queued, and a short event history
  leaves 1024: nothing in the code rules the eviction out.
* `GpuHistory`: two samples in the first hour and one in the next, two values on
  either side of a threshold that a restart moves, and a clock that can be set back
  before what it had expired. Three written samples replace a row of an earlier
  release, a row that is counted, and that one again once its neighbour has expired, on
  top of what the file held at first; with two, a maximum that is recomputed without a
  legacy row does not occur.
* `ProcessHistory`: six polls or restarts allow a process to be seen, the host to become stale,
  a restart and a reconciliation with another instance of the PID; the ring of three
  overflows.
* `UsageReport`: every set of up to three samples over five units of time, with gaps beyond the
  limit, two owners, intervals that nest, touch and lie apart, days that cut them.
* `ConfigInventory`: two handlers and one edit by hand over a static and a discovered
  fleet (with a group for an alias that is not listed), a new installation and a file that the
  loader refuses, every kind of request, a write and a callback that fail. The interval, on
  which no section depends, changes in `ConfigPace` only.
* `SshTopology`: every configuration of four aliases that are direct, behind one jump, two
  jumps or a command, cycles included; one query fails, links exceed the limit.
* `ProbeRun`: two threads and one `cancel()` in four steps, at any place of either thread.
* `ProbePayload`: two GPUs with equal UUIDs or indices, odd rows in every section, one
  damaged line or an early end anywhere.
* `ProbeCadence`: seven instants reach the longest stretch of an unattended host (six).
* `SelfUpdate`: three versions and two attempts of a process, with the poll thread
  between any two steps and a release withdrawn.
* Every passing property is broken by a mutant of the code (a definition marked
  `Broken` beside the faithful one).

Symmetry (of workers, flush callers, handlers and probe threads) is used in runs
that check invariants and action properties, never in one that checks liveness. The
refinement in `Storage` is a safety property, and its mapping does not mention the callers.

`CHECK_DEADLOCK FALSE` in the runs of `Delivery`, in `Storage`, `Control` and
`ConfigPace`: a process that ended, with the budget of troubles used up, does nothing
more; a clock that reached its bound, a discovery, a payload and a
cancelled probe end; handlers that are refused are idle. That the writer leaves nobody
behind is `BarriersHeld`. The scheduler has an explicit `Ended` step; the tracker
alone always accepts another sample.

### Fairness

* Scheduler: the thread runs (`WF(Loop)`); a thread that changed something calls
  `set()` (`WF(Wake)`); an update that resolved its inventory takes the lock
  (`WF(UpdateInstall)`); probes and discoveries end, because `_run_bounded_process`
  has a deadline (`WF(FinishProbe)`, `WF(FinishDiscovery)`); time passes
  (`SF(DeadlinePasses)`, `SF(RefreshPasses)`: strong, because the model lets
  time pass only where the loop reads the clock); a host source that can be read is
  eventually read (`SF` of a successful discovery). Nobody is obliged to
  request, update, edit or stop.
* Tracker: probes go on and the writer runs. `Recovers` and `Opens` put the
  condition on the samples in their hypothesis.
* Delivery: the publishing thread and the worker run, and a request ends
  (`WF(Publish)`, `WF(Worker)`). No success is assumed.

The other machines are checked for safety only. What a waiting flush or a waiting
probe is owed is stated as safety (`BarriersHeld`, `NobodyLeftWaiting`): who must act is
in a position to act, which does not depend on how fast.

## Proofs

Every theorem holds for every value of the constants under the named assumptions of its
module. The properties alone are not inductive; each module states the strengthening that
is, shows that `Init` implies it, and has one lemma for every action or group of
actions that can disturb it.

* `SchedulerProofs` (`HostsAssumption`, `ConfigsAssumption`, `BoundsAssumption`): the
  properties of `SchedulerRemoval`, `RequestKept` and `WorkerLimit`, from `IInv`, which TLC checks in the same
  run. It adds `InventoryInv` (the discovered hosts are exactly the hosts of the
  store, incarnations come from the past, a snapshot of the current generation carries the
  current configuration: why a result of a live host finds it in `active_host_set`),
  `TaskInv` (what the program counter says about `completed`, `current` and `due`, and that a
  batch under submission is current, active and idle: why a second probe cannot
  start) and `WakeupInv` (a loop that sleeps and that nobody is about to wake has seen the
  latest generation, every finished probe, a finished discovery and no stop). `WorkerLimit`
  counts, and needs `BatchFits` besides: the batch under submission and what is in flight
  are together within the limit of the configuration under whose lock it was
  selected. Only a start adds to what is in flight, and it takes its host from the batch.
* `IncidentProofs`: `TrackerAgrees` for any categories, GPUs, thresholds and samples. A restart
  takes its open conditions from what was stored, and what was stored comes from
  the queue, so `TrackerInv` adds `HistoryAgrees`: an item of the queue and a row of
  the database hold at most one state of a condition. The lemmas on the
  policy show that a sample shows at most one condition under a key.
  The action properties look at the samples that `recent` remembers, so their invariants
  say what the counts of the tracker stand for: `RecoveriesBacked`, that a recovery count is
  at most the number of healthy samples since the condition was last shown;
  `StreaksBacked`, that behind every candidate and every pending severity there is an unbroken
  streak of samples of that severity at the end of `recent`, as long as the count and as
  old as its first time. `OpenConfirmed` and `ChangeConfirmed` have the hypothesis
  `OpenCycles <= Window`: it is about the memory of the property, not about the code.
  `DurableAgrees` is `TrackerAgrees`, since a restart resumes from the database, and what
  follows from `DurableInv`: there is a history of the database, one state for each
  item queued (`Replay`), that starts with what is saved and ends with what the tracker
  holds, unless something was dropped; `CommitIncident` cuts off its head, `Update` adds at
  its end.
* `DeliveryProofs` (`DeliveryAssumption`): `NoHangingAlert`,
  `AlertsArrive`, `RecoveriesPair` and `NoRepeatedOpen` for any set of conditions, any
  subscription and any sizes. What the receiver knows, what it was sent, what is bound for it
  and what the store holds are one story: `Story` says, for one condition, that the
  events under way about it lead from the receiver's state to the store's, `Pairing` what the
  worker remembers of it, `Store` and `Ordered` what the ring and the two queues hold.
* `HistoryWriterProofs`: four theorems for any capacity, batch size, number of callers and
  number of writes. `BarriersHeld` follows from `BarrierInv`: where a waiting barrier is (batch
  or queue), that the batch is empty wherever the loop gets or ends, and that after a
  failure nobody waits. The others share `IInv`. `Fifo`: identities rise through batch
  and queue, every write offered is stored, lost, in hand or queued, and `dropped`
  is the length of `lost`. `Promises`: the writes offered before a waiting barrier are
  settled, in hand or ahead of it in the queue, so that the release finds them stored or among
  the losses it reports, and a call's base never exceeds the acknowledged losses. From these
  `FlushHonest`, an action property, and `Implements`: each step of the writer is one
  step of `LossyQueue` or none; a transaction settles the identities of its batch, which are
  distinct because they rise, so that as many are lost as were counted.
  `CacheAgrees` needs that a transaction keeps cache and row together
  (`OneWriteAgrees`), for a batch of any length: `AfterExists` and `PreparedAgrees` are
  inductions along the recursive function `After`. The lemmas on `Picked` (`PlaceEnumerates`,
  `EnumerationUnique`, `PickedConcat`, `IdsOfConcat`) say what is picked from a concatenation.
* `GpuHistoryProofs` (`TimesAssumption`, `ValuesAssumption`): `RollupExact` for any sample
  times, values, thresholds and clocks. The sums are cardinalities (`Total`), so that one
  sample that counts differently changes the sum of its hour by the difference
  (`TotalChange`, `ExactChange`). `GpuInv` adds, for each sample, that a recorded busy
  count belongs to what was contributed (`Recorded`: why a subtraction undoes exactly that),
  that a sample which counted and is gone lies below the cutoff (`Final`: why it is not
  counted again), and that the raw row or the retired maximum of the hour bears its
  maximum out (`BorneOut`: why a recomputed maximum forgets none). The theorem has the
  hypothesis `Retention + HourLength <= RollupHours`: an hour's rollup outlives its
  samples. It holds by default (168 and 2160 hours) and up to 2159 hours of
  retention; [below](#findings) is what happens beyond.
* `ConfigProofs`, of the controller (`HandlersAssumption`, `DocumentsAssumption`,
  `RequestsAssumption`): `NoChangeLost`, `ChangesAccepted` and `MigrationAccepted` for any handlers, requests and
  documents, which may be invalid, and for any options of a migration. `LockInv`: whoever is
  inside holds the lock, and what it loaded and read is what the file is, as long as no editor
  came in since it loaded it (`since`).
  `DocumentInv`: what a handler has loaded has passed its checks, and still has when
  it is written; the file is a document. The rest is about documents, not about states:
  each edit of an accepted document that allows it is accepted (`AddIsAccepted`,
  `RemoveIsAccepted`, `RegroupIsAccepted`, `RestIsAccepted`), all by way of the pruning
  of overrides (`PrunedIsAccepted`). That a removal leaves a tree (`CutIsTree`)
  and a migration, too (`RenamedIsTree`), follows from two facts about what is reached
  from the root: it is closed (`ReachIsClosed`), and it is in every set that is
  (`ReachIsLeast`); no induction is needed.
* `ConfigProofs`, of the discovery (`AliasesAssumption`, `SetupsAssumption`,
  `WaysAssumption`, `LinksAssumption`): `DiscoverySound` for any aliases, any SSH
  configuration and any limit. `AskingInv`: an alias that was asked has answered, has
  failed or is in the running batch, and when it is asked again it has answered or failed
  before, so that it is not queued a third time. Of the routes the tree needs
  only that they are sequences (`Routed`): chains leave out the root and their own host
  (`ChainsAreChained`), so a path starts at the root and comes to it no more, each link of it
  starts at a node that is in the tree, and a node that has a parent gets no
  other (`LinkedAlongIsTree`, `ProjectionIsTree`). What is kept at the limit is taken from the
  root on (`RetainedIsTree`). That these recursive functions have the values
  their definitions say takes `StepsExist`, and what each step keeps is kept
  (`StepsKeep`).
* `PayloadProofs` (`MachinesAssumption`, `SamplesAssumption`, `DisksAssumption`):
  `NothingInvented` and `ScriptUnderstood` for any machine, with any number of GPUs,
  processes and disks, and any limits. The first needs to know what may still come.
  `LinesInv`: the unread lines are lines of the host in the order of the script, whatever
  was lost or repeated. `LeftInv`: what was read says what is left, no row of a closed section
  and nothing after the last end. `ProcessesInv`: unless a marker was lost (and then the
  verdict is a refusal), the processes that were read are the host's. The second is about
  undamaged outputs. `ReadInv`: the parser is after the first `p` lines of the script, and
  what it has seen and told are the markers and rows among these; lemmas on each
  section say where its lines stand, so that at the end every section is whole.
* `ControlProofs`: `NobodyLeftWaiting` for any number of probe threads. `CancelInv` follows
  `cancel()`: its wakeup byte stays, a thread that waits for its child is registered,
  hence in the copy, hence killed.
  `SkippedOnlyWhenFresh` for any interval and any stretch (`CadenceAssumption`).
  `CadenceInv`: activity that was seen, or a viewer who came, is remembered by a hint, by
  the forced retry, or by an empty cache, so that the stretch the property allows is one the
  code computes (`StretchIsBounded`). That the doubled stretch is a number takes
  `PowersAreNat`: a power of two counts the subsets of a set.
  `UpdatesOwned`, that is `UpdatingOwned` and `FreshRelease`, for any
  number of requests. `UpdateInv`: at most one attempt has the state, exactly while it says
  so and until a cleanup disowns it, and what a worker holds was official since its request.

Inductions over data are done in set form: a set of numbers that holds 0 and with n also n + 1
is all of them (`NatSet`, by counting: a bounded part of it without its least
element would have as many elements as with it).

Only model-checked: all liveness and everything about ENABLED; `Settles` and
`ActionableSent` of `Delivery`; `UsageCountsUnits`, which compares prefix sums and folds with
counting, and `OccupancyExact`, which pairs the sorted rows of a file: both are
inductions over data in which each step sums or sorts. `OpenConfirmed`, `ChangeConfirmed` and `RollupExact` are proved under the
hypotheses named above and checked on instances that satisfy them.

## Findings

1. **A manual probe can be slept on** (`SchedulerManual`,
   `service_scheduler.py:527`). The rebase of the cadence after an interval change
   overwrites the deadline 0.0 of a manual request of the same iteration.
2. **A filesystem below its threshold can be escalated** (`IncidentEscalation`,
   `incidents.py:266`). With absolute headroom short the critical line is 0, and
   the rule that a dip into the margin confirms nothing is not applied to open
   conditions.
3. **An acknowledged event is still sent** (`DeliveryAcknowledged`,
   `service.py:989`), contrary to the API reference.
4. **The store may keep an interval that nothing else has** (`ConfigPace`, `web.py:910`). The
   settings handler writes it after the controller released its lock; of two saves, the
   one applied first may write last.

Smaller disagreements and gaps met on the way, without a run of their own:

* A stall is an "error", so that it says less than unreachable (`probe.py:1170`), but
  opens a connectivity incident like any status that is not online (`incidents.py:142`).
* A host that is removed and added again between two iterations keeps its retry
  deadline and manual cooldown.
* A removal writes no transition, so that a restart may resume what the process
  had forgotten and a receiver is not told. An ambiguous answer leaves an alert hanging.
* Writes still queued when the writer thread ends at a close are neither stored nor
  counted (`persistence.py:479`), although OPERATIONS.md says that `droppedWrites` counts
  lost queue items; a `flush` that waits then runs into its timeout.
* Two stops of one process key in one second are one row; the order of other transitions of a
  second is restored by `EmissionOrder`.
* Two live samples of one second, one of them without a class, make a usage request fail
  (`usage.py:65`).
* A filesystem count beyond the limit rejects the whole payload, where other
  malformed rows cost only their section (`ProbePayload.DiskLine`).
* After a file was renamed into place, an error of the directory's `fsync` is reported as a
  failed write although the new file is there (`inventory.py:640`), while ADR 0005 says that a
  write failure leaves the previous configuration.
* A rollup is deleted when its hour began before the horizon of `max(retention_hours, 2160)`
  hours. With a retention of 2160 hours or more (8760 are allowed) the samples of the
  end of that hour are still there; one of them that is written once more, by a clock that
  was set back that far, is counted in a row without the others
  (`persistence_rollups.py:140`).
* A sample aggregated by an earlier release and replaced by a smaller one keeps its
  contribution, but a later replacement in its hour recomputes the maximum from the rows that
  are left and forgets it, while the comment says that legacy aggregates "keep their
  historical floor" (`persistence_gpu.py:124`): hence `unrecorded`.
* A supervised restart may find an installation of the old process under way: `UpdatesOwned`
  does not say that it finds a verified one.
* `apply` says "updating" before it starts its thread (`updates.py:260`). If `Thread.start()`
  raises, nobody takes the state back, and every further request is refused until the next
  process ("unstarted" in `SelfUpdate`).
* An attempt that failed inside its temporary directory fails once more if that directory cannot
  be removed (`updates.py:308`); if another attempt was accepted in between, its state is
  overwritten and a third one may be accepted beside it. `UpdatingOwned` leaves these behaviours out by
  name (`disowned`).
* `migrate --no-auto-discover` does not check for groups of aliases that are discovered only:
  the target is written, refused by the loader and removed again, with its message
  (`migration.py:249`).

## What is not modelled

The table of components in `PROJECT.json` gives the reason for each. In short:

* Projections of one snapshot (capacity, brief, correlation, diagnostics, OpenMetrics,
  CSV) have no state; they are pure functions that unit tests reach well.
* Parsing of single fields and texts (JSON syntax and ranges, recurrence of maintenance
  windows, `ssh -G`, numbers of the remote script, HTTP requests) is left to
  unit tests; what the parsed parts owe each other is modelled.
* One-shot commands (doctor, deployment, migration on disk) are sequential and keep no state
  but the files that `ConfigInventory` covers.
* The dashboard is JavaScript behind the HTTP interface: request loaders, notifications by
  tab, rendering.
* Sockets, DNS pinning, TLS and SQLite's own transactions are I/O: a send and a
  transaction succeed, fail, or (a send) leave it open.
* Inside the modelled components: page reclaim and the size quota, pruning of incidents and
  process events, rate limits and test deliveries, rate baselines of the probe, chart
  rings and snapshot versions, signal handling. Each row of the component table says which.
