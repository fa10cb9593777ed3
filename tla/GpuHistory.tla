------------------------------ MODULE GpuHistory -------------------------------
(*****************************************************************************)
(* The GPU history of one device in the SQLite file: raw samples, the hourly *)
(* rollups kept beside them, the metadata that lets a sample be replaced, and *)
(* the durable cutoff below which nothing is admitted again.  The start of   *)
(* the backend is modelled transaction by transaction: schema, pruning, cap, *)
(* companion tables, rollups; it may stop after any of them and a crash may  *)
(* come at any time.                                                         *)
(*                                                                           *)
(* A sample is one number, its utilization and its total memory alike; the   *)
(* sums over used memory behave as the one over utilization does.            *)
(*****************************************************************************)
EXTENDS Integers, FiniteSets, FiniteSetsExt

CONSTANTS
  Times,        \* observation times of samples
  Clock,        \* instants that the wall clock shows
  HourLength,   \* instants per UTC hour
  Retention,    \* retention_hours, in instants
  RollupHours,  \* ROLLUP_RETENTION_HOURS, in instants
  Values,       \* values of a sample
  Thresholds,   \* busy thresholds that runs are configured with
  MaxSamples    \* bound: samples written

ASSUME TimesAssumption ==
  /\ Times \subseteq Nat /\ IsFiniteSet(Times) /\ Clock \subseteq Nat
  /\ HourLength \in Nat \ {0} /\ Retention \in Nat /\ RollupHours \in Nat
ASSUME ValuesAssumption == Values \subseteq Nat \ {0} /\ Thresholds \subseteq Nat

VARIABLES
  now, threshold,      \* the wall clock; _busy_pct of the current run
  phase,               \* where the backend is in its start
  companionsOn, rollupsOn,     \* _companions_enabled, _rollups_enabled
  raw,                 \* gpu_history: time -> value, 0 if there is no row
  busyRow,             \* gpu_rollup_busy: time -> 0, 1 or NoRow
  hourlyTable, hourly, \* gpu_hourly: hour -> aggregate, Empty if no row
  companionTables,     \* the four companion tables exist
  retired,             \* gpu_retired_memory: hour -> maximum, 0 if no row
  cutoff,              \* gpu_retention, NoRow if there is no row
  samples,             \* samples written so far
  contributed,         \* observed: what each sample ever taken should count
  unrecorded           \* observed: samples replaced while no busy count was
                       \* recorded for them

gpuConfig == <<now, threshold>>
gpuFlags  == <<companionsOn, rollupsOn>>
gpuTables == <<raw, busyRow, hourlyTable, hourly, companionTables, retired, cutoff>>
observed  == <<contributed, unrecorded>>
gpuVars   == <<gpuConfig, phase, gpuFlags, gpuTables, samples, observed>>

NoRow == -1

-------------------------------------------------------------------------------
(* Rows *)

Hour(t) == t \div HourLength
Hours == {Hour(t) : t \in Times}
TimesOf(h) == {t \in Times : Hour(t) = h}

Largest(S) == IF S = {} THEN 0 ELSE Max(S)

Empty == [samples |-> 0, busy |-> 0, sum |-> 0, max |-> 0]

\* what a sample adds to its hour
Contribution(v, busy) == [samples |-> 1, busy |-> busy, sum |-> v, max |-> v]

\* rollup_row: the busy threshold of the run that writes decides
IsBusy(v) == IF v >= threshold THEN 1 ELSE 0

Added(row, c) ==
  [samples |-> row.samples + c.samples, busy |-> row.busy + c.busy,
   sum |-> row.sum + c.sum, max |-> Largest({row.max, c.max})]

\* the counts have an inverse, the maximum has none
Subtracted(row, v, busy) ==
  IF row = Empty THEN row
  ELSE [row EXCEPT !.samples = @ - 1, !.busy = @ - busy, !.sum = @ - v]

\* the sum of the naturals n[t]: the number of the <<t, i>> with i up to n[t]
Total(n) == Cardinality(UNION {{t} \X (1 .. n[t]) : t \in DOMAIN n})

\* The aggregate of the contributions c[t] of an hour
Aggregate(c, h) ==
  LET T == TimesOf(h)
  IN [samples |-> Total([t \in T |-> c[t].samples]),
      busy    |-> Total([t \in T |-> c[t].busy]),
      sum     |-> Total([t \in T |-> c[t].sum]),
      max     |-> Largest({c[t].max : t \in T})]

RawContributions ==
  [t \in Times |-> IF raw[t] = 0 THEN Empty
                   ELSE Contribution(raw[t], IsBusy(raw[t]))]

-------------------------------------------------------------------------------
(* Retention *)

\* gpu_cutoff: never moves backward when the wall clock does
Boundary(c) == IF cutoff = NoRow THEN c ELSE Largest({cutoff, c})

ExpiredAt(b) == {t \in Times : raw[t] # 0 /\ t < b}

\* the maximum that the samples expiring now leave behind
Archived(h, b) == Largest({retired[h]} \cup {raw[t] : t \in ExpiredAt(b) \cap TimesOf(h)})

\* prune_rollups: hours that began before the horizon
Outlived(h) == h * HourLength < now - Largest({Retention, RollupHours})

\* what prune_gpu archives, and prune_rollups deletes after it
RetiredAfter(b) == [h \in Hours |-> IF rollupsOn /\ Outlived(h) THEN 0 ELSE Archived(h, b)]

\* prune_gpu
PruneGpu(b) ==
  /\ cutoff' = b
  /\ raw' = [t \in Times |-> IF t < b THEN 0 ELSE raw[t]]
  /\ busyRow' = [t \in Times |-> IF t < b THEN NoRow ELSE busyRow[t]]

\* bootstrap_gpu_retention: a legacy file gets its cutoff and loses what
\* expired, or keeps both as they are if the new table does not fit.
Bootstrap(c) ==
  \/ /\ cutoff' = Boundary(c)
     /\ raw' = [t \in Times |-> IF t < Boundary(c) THEN 0 ELSE raw[t]]
     /\ UNCHANGED busyRow
  \/ UNCHANGED <<cutoff, raw, busyRow>>

\* prune_rollups, of the hourly rows
PruneRollups ==
  IF rollupsOn
  THEN /\ hourly' = [h \in Hours |-> IF Outlived(h) THEN Empty ELSE hourly[h]]
       /\ contributed' = [t \in Times |-> IF Outlived(Hour(t)) THEN Empty
                                          ELSE contributed[t]]
  ELSE UNCHANGED <<hourly, contributed>>

\* SqliteTelemetryPersistence._prune, with the flags of the process
PruneAll(companionsNow) ==
  /\ IF companionsNow
     THEN /\ PruneGpu(Boundary(now - Retention))
          /\ retired' = RetiredAfter(Boundary(now - Retention))
     ELSE Bootstrap(now - Retention) /\ UNCHANGED retired
  /\ PruneRollups
  /\ UNCHANGED unrecorded

-------------------------------------------------------------------------------
(* The file found at first: new, or written by an earlier release *)

GpuInit ==
  /\ now \in Clock /\ threshold \in Thresholds /\ phase = "down"
  /\ companionsOn = FALSE /\ rollupsOn = FALSE
  /\ raw \in [Times -> Values \cup {0}]
  /\ Cardinality({t \in Times : raw[t] # 0}) <= 2
  /\ busyRow = [t \in Times |-> NoRow]
  /\ hourlyTable \in BOOLEAN
  /\ contributed = IF hourlyTable THEN RawContributions
                                  ELSE [t \in Times |-> Empty]
  /\ hourly = [h \in Hours |-> Aggregate(contributed, h)]
  /\ companionTables = FALSE /\ retired = [h \in Hours |-> 0]
  /\ cutoff = NoRow /\ samples = 0 /\ unrecorded = {}

\* the clock runs, jumps over a downtime or is set back
SetClock(t) ==
  /\ phase \in {"down", "running"} /\ t # now
  /\ now' = t
  /\ UNCHANGED <<threshold, phase, gpuFlags, gpuTables, samples, observed>>

-------------------------------------------------------------------------------
(* The start, one committed transaction after the other *)

\* _apply_schema: tables of the schema and its stamp, together or not at all
OpenSchema(pct) ==
  /\ phase = "down"
  /\ phase' = "schema" /\ threshold' = pct
  /\ UNCHANGED <<now, gpuFlags, gpuTables, samples, observed>>

\* the first pruning decides by the tables it finds
StartPrune ==
  /\ phase = "schema"
  /\ companionsOn' = companionTables
  /\ PruneAll(companionTables)
  /\ phase' = "pruned"
  /\ UNCHANGED <<gpuConfig, rollupsOn, hourlyTable, companionTables, samples>>

\* The four tables, the maxima of the hours rolled up before and the deferred
\* pruning in one transaction, or nothing of it if the file is full.
MigrateCompanions ==
  /\ phase = "pruned" /\ phase' = "companions"
  /\ \/ /\ PruneGpu(Boundary(now - Retention))
        /\ LET floor(h) == IF ~companionTables /\ hourlyTable THEN hourly[h].max
                                                              ELSE retired[h]
           IN retired' = [h \in Hours |->
                Largest({floor(h), Archived(h, Boundary(now - Retention))})]
        /\ companionTables' = TRUE /\ companionsOn' = TRUE
     \/ /\ companionsOn' = companionTables
        /\ UNCHANGED <<cutoff, raw, busyRow, retired, companionTables>>
  /\ UNCHANGED <<gpuConfig, rollupsOn, hourlyTable, hourly, samples, observed>>

\* INSERT OR IGNORE from the last hour that the table knows
Unseen(h) ==
  /\ hourly[h] = Empty
  /\ \A k \in Hours : hourly[k] # Empty => k <= h

\* ensure_rollups
EnsureRollups ==
  /\ phase = "companions" /\ phase' = "running"
  /\ \/ /\ companionsOn
        /\ rollupsOn' = TRUE /\ hourlyTable' = TRUE
        /\ LET seen(t) == Unseen(Hour(t)) /\ raw[t] # 0
           IN /\ hourly' = [h \in Hours |-> IF Unseen(h)
                                            THEN Aggregate(RawContributions, h)
                                            ELSE hourly[h]]
              /\ contributed' = [t \in Times |->
                   IF seen(t) THEN RawContributions[t] ELSE contributed[t]]
     \/ rollupsOn' = FALSE /\ UNCHANGED <<hourlyTable, hourly, contributed>>
  /\ UNCHANGED <<gpuConfig, companionsOn, raw, busyRow, companionTables, retired,
                 cutoff, samples, unrecorded>>

\* a crash, an orderly stop, or a start refused over the size limit
Down ==
  /\ phase # "down"
  /\ phase' = "down" /\ companionsOn' = FALSE /\ rollupsOn' = FALSE
  /\ UNCHANGED <<gpuConfig, gpuTables, samples, observed>>

-------------------------------------------------------------------------------
(* The writer *)

RunningPrune ==
  /\ phase = "running"
  /\ PruneAll(companionsOn)
  /\ UNCHANGED <<gpuConfig, phase, gpuFlags, hourlyTable, companionTables, samples>>

\* Broken: a replaced sample stays counted.
ReplacedNever(t) == hourly[Hour(t)]
\* the hour without the contribution that the sample had so far
Replaced(t) ==
  IF raw[t] = 0 THEN hourly[Hour(t)]
  ELSE Subtracted(hourly[Hour(t)], raw[t], busyRow[t])

\* write_gpu_points: the sample of a time replaces an earlier one.  A row
\* written before its busy count was recorded keeps its contribution.
Store(t, v) ==
  LET legacy == raw[t] # 0 /\ busyRow[t] = NoRow
      h == Hour(t)
      c == Contribution(v, IsBusy(v))
      added == Added(Replaced(t), c)
      kept == {raw'[u] : u \in TimesOf(h)} \cup {retired[h]}
  IN /\ raw' = [raw EXCEPT ![t] = v]
     /\ unrecorded' = IF legacy THEN unrecorded \cup {t} ELSE unrecorded
     /\ IF legacy THEN UNCHANGED <<busyRow, hourly, contributed>>
        ELSE /\ busyRow' = [busyRow EXCEPT ![t] = IsBusy(v)]
             /\ hourly' = [hourly EXCEPT ![h] =
                  IF raw[t] = 0 THEN added ELSE [added EXCEPT !.max = Largest(kept)]]
             /\ contributed' = [contributed EXCEPT ![t] = c]

\* A sample in a batch that commits: without rollups the batch is rejected, a
\* sample below the cutoff is dropped.
WriteSample(t, v) ==
  /\ phase = "running" /\ companionsOn /\ rollupsOn
  /\ samples < MaxSamples /\ samples' = samples + 1
  /\ cutoff' = Boundary(now - Retention)
  /\ IF t < Boundary(now - Retention)
     THEN UNCHANGED <<raw, busyRow, hourly, observed>>
     ELSE Store(t, v)
  /\ UNCHANGED <<gpuConfig, phase, gpuFlags, hourlyTable, companionTables, retired>>

-------------------------------------------------------------------------------

GpuNext ==
  \/ \E t \in Clock : SetClock(t)
  \/ \E pct \in Thresholds : OpenSchema(pct)
  \/ StartPrune \/ MigrateCompanions \/ EnsureRollups \/ Down \/ RunningPrune
  \/ \E t \in Times, v \in Values : WriteSample(t, v)

GpuSpec == GpuInit /\ [][GpuNext]_gpuVars

-------------------------------------------------------------------------------
(* Properties *)

\* Every hourly rollup is the aggregate of what the samples of its hour last
\* contributed, whether they were replaced, expired, aggregated at a start or
\* written under another busy threshold, and whatever the clock and the crashes
\* did: no sample is counted twice or forgotten.  The maximum, which has no
\* inverse, covers every one of them except those that were replaced without a
\* recorded busy count (persistence_gpu.py, "recompute it from retained rows
\* plus the expired maximum").
RollupExact ==
  \A h \in Hours :
    LET true == Aggregate(contributed, h)
    IN /\ hourly[h].samples = true.samples
       /\ hourly[h].busy = true.busy
       /\ hourly[h].sum = true.sum
       /\ \A t \in TimesOf(h) \ unrecorded : hourly[h].max >= contributed[t].max

===============================================================================
