------------------------------- MODULE MCStorage --------------------------------
(*****************************************************************************)
(* Instances for TLC of what stands between a sample and the history file    *)
(* and is read from it again: the writer thread, the GPU history, the        *)
(* process timeline, the incidents across a restart, and the usage report.   *)
(* They share no state that is modelled, so each behaviour is one of a       *)
(* single machine, chosen at first; the others stay in an initial state.     *)
(*****************************************************************************)
EXTENDS HistoryWriter, GpuHistory, IncidentTracker, TLC

CONSTANTS f1, f2

FlushCalls == {f1, f2}
Flushers == Permutations(FlushCalls)

VARIABLES
  machine,                                             \* the one that runs
  tick, failures, table, initialized, pending, lastSeen, gpuLast, ring, rows,
  seen, tables, bare, dark, twoStops,                           \* ProcessHistory
  spans, points, buckets                                           \* UsageReport

\* one process whose PID is reused, six polls or restarts
P == INSTANCE ProcessHistory WITH
  Procs <- {1}, Starts <- {1, 2}, StaleCycles <- 2, RingSize <- 3, MaxTick <- 6

Interval(a, b, o) == [start |-> a, end |-> b, owner |-> o]

\* one, two or three intervals of two owners: nested, touching and apart
U == INSTANCE UsageReport WITH
  Horizon <- 5, MaxGap <- 2, HourUnits <- 2, DayUnits <- 3, MaxPoints <- 3,
  Occupancies <- {<<Interval(1, 4, 1), Interval(0, 2, 2)>>,
                  <<Interval(0, 3, 1), Interval(1, 2, 1)>>,
                  <<Interval(2, 4, 1), Interval(0, 2, 1), Interval(1, 5, 2)>>,
                  <<Interval(0, 1, 1), Interval(2, 3, 1), Interval(4, 5, 1)>>}

\* a sample of one filesystem: 0 healthy, 2 and 3 warnings, 4 critical
Disk(v, starved, t) ==
  [status |-> "online", at |-> t, query |-> TRUE, gpus |-> {}, temperature |-> <<>>,
   system |-> {[cpu |-> {}, disk |-> v, starved |-> starved]}]

\* openings, criterion changes, escalations and recoveries to be stored
DiskSamples == {Disk(0, FALSE, 2), Disk(2, FALSE, 1), Disk(3, TRUE, 2), Disk(4, FALSE, 2)}

-------------------------------------------------------------------------------

\* one initial state of a machine that does not run
WriterParked == companions = FALSE /\ rollups = FALSE /\ Init
GpuParked ==
  /\ now = 0 /\ threshold = 2 /\ hourlyTable = FALSE
  /\ raw = [t \in Times |-> 0] /\ GpuInit
UsageParked ==
  /\ spans = <<Interval(0, 3, 1), Interval(1, 2, 1)>> /\ points = {}
  /\ buckets = [h \in {0, 2, 4} |-> [samples |-> 0, busy |-> 0]]

StorageInit ==
  /\ machine \in {"writer", "gpu", "processes", "usage", "incidents"}
  /\ IF machine = "writer" THEN Init ELSE WriterParked
  /\ IF machine = "gpu" THEN GpuInit ELSE GpuParked
  /\ IF machine = "usage" THEN U!UsageInit ELSE UsageParked
  /\ P!ProcessInit /\ TrackerInit

processState == <<tick, failures, table, initialized, pending, lastSeen, gpuLast,
                  ring, rows, seen, tables, bare, dark, twoStops>>
usageState == <<spans, points, buckets>>

storageVars == <<machine, vars, gpuVars, processState, usageState, incidentVars>>

Only(m) == machine = m /\ UNCHANGED machine

\* bound: three writes and one flush, or two writes and two flushes
Room == offered + Cardinality({c \in Calls : calls[c].state # "idle"}) < 4

OnlyWriter ==
  Only("writer") /\ UNCHANGED <<gpuVars, processState, usageState, incidentVars>>
OnlyGpu ==
  Only("gpu") /\ UNCHANGED <<vars, processState, usageState, incidentVars>>
OnlyProcesses ==
  Only("processes") /\ UNCHANGED <<vars, gpuVars, usageState, incidentVars>>
OnlyUsage ==
  Only("usage") /\ UNCHANGED <<vars, gpuVars, processState, incidentVars>>
OnlyIncidents ==
  Only("incidents") /\ UNCHANGED <<vars, gpuVars, processState, usageState>>

StorageNext ==
  \/ \E w \in Offers : OnlyWriter /\ Room /\ Offer(w)
  \/ \E c \in Calls : OnlyWriter /\ Room /\ FlushStart(c)
  \/ \E c \in Calls : OnlyWriter /\ FlushAdmit(c)
  \/ \E c \in Calls : OnlyWriter /\ FlushTimesOut(c)
  \/ \E c \in Calls : OnlyWriter /\ FlushReturns(c)
  \/ OnlyWriter /\ Close
  \/ OnlyWriter /\ Open
  \/ OnlyWriter /\ Get
  \/ OnlyWriter /\ Fill
  \/ OnlyWriter /\ SeeEmpty
  \/ OnlyWriter /\ Idle
  \/ OnlyWriter /\ Commit
  \/ OnlyWriter /\ Retry
  \/ OnlyWriter /\ Finish
  \/ OnlyWriter /\ Fail
  \/ \E t \in Clock : OnlyGpu /\ SetClock(t)
  \/ \E pct \in Thresholds : OnlyGpu /\ OpenSchema(pct)
  \/ OnlyGpu /\ StartPrune
  \/ OnlyGpu /\ MigrateCompanions
  \/ OnlyGpu /\ EnsureRollups
  \/ OnlyGpu /\ Down
  \/ OnlyGpu /\ RunningPrune
  \/ \E t \in Times, v \in Values : OnlyGpu /\ WriteSample(t, v)
  \/ \E f \in [{1} -> {-1, 1, 2}] : OnlyProcesses /\ P!SampleTable(f)
  \/ \E sampled \in BOOLEAN : OnlyProcesses /\ P!SampleWithoutTable(sampled)
  \/ OnlyProcesses /\ P!SampleGone
  \/ OnlyProcesses /\ P!ProbeFails
  \/ OnlyProcesses /\ P!Restart
  \/ OnlyUsage /\ U!Answer
  \/ \E s \in Samples : OnlyIncidents /\ Update(s)
  \/ OnlyIncidents /\ CommitIncident
  \/ OnlyIncidents /\ Restart
  \/ OnlyIncidents /\ RemoveHost

StorageSpec == StorageInit /\ [][StorageNext]_storageVars

-------------------------------------------------------------------------------
(* The properties of the machines that run here *)

\* ProcessHistory.NoInventedOccupancy and OccupancyComplete: what the file and
\* the ring say of a process is what was observed of it, no more and no less
\* (update of the state store, emission_order, pair_intervals).
OccupancyExact ==
  machine = "processes" => P!NoInventedOccupancy /\ P!OccupancyComplete

\* UsageReport.UsageCountsUnits: a report bills every unit of GPU time to its
\* owner once and classifies it as the samples say (aggregate_usage).
UsageCountsUnits == machine = "usage" => U!UsageCountsUnits

===============================================================================
