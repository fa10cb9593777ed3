---------------------------- MODULE ProcessHistory -----------------------------
(*****************************************************************************)
(* The process timeline of one GPU: the live table that the state store      *)
(* keeps between samples, the transitions it derives, the rows that the      *)
(* history file holds of them, their restoration after a restart, and the    *)
(* occupancy that the usage views compute from them.                         *)
(*                                                                           *)
(* A process key stands for (pid, name); its workload start time tells two   *)
(* instances behind one reused PID apart.  Every step is one poll or one     *)
(* restart and takes one unit of time.                                       *)
(*****************************************************************************)
EXTENDS Integers, Sequences, FiniteSets, SequencesExt, FiniteSetsExt

CONSTANTS
  Procs,        \* process keys, in their sorting order
  Starts,       \* workload start times; 0: workload metadata is disabled
  StaleCycles,  \* collection_stale_cycles
  RingSize,     \* incident_history_points
  MaxTick       \* bound: polls and restarts

VARIABLES
  tick,                \* time
  failures,            \* consecutive_failures; 0: the host is online
  table,               \* _active_gpu_processes: key -> instance or NoProcess
  initialized,         \* the GPU is in _process_inventory_initialized
  pending,             \* the GPU is in _process_reconciliation_pending
  lastSeen, gpuLast,   \* _process_last_observed_at, time of the last GPU
                       \* sample; 0: none
  ring,                \* _process_events
  rows,                \* process_events in the history file
  seen, tables, bare,  \* observed: <<key, time>>; times of GPU samples
                       \* with and without a process table
  dark,                \* units of time without observation
  twoStops             \* a key was stopped twice in one second

processVars == <<tick, failures, table, initialized, pending, lastSeen, gpuLast,
                 ring, rows, seen, tables, bare, dark, twoStops>>

NoProcess == [start |-> -1, first |-> 0]
Listed(t) == {k \in Procs : t[k] # NoProcess}
EmptyTable == [k \in Procs |-> NoProcess]

-------------------------------------------------------------------------------
(* Transitions *)

\* process_transition
Transition(at, event, k, p, visible) ==
  [at |-> at, event |-> event, key |-> k, start |-> p.start, first |-> p.first,
   visible |-> visible]

\* the elements of S in the strict total order Before
Sorted(S, Before(_, _)) ==
  [i \in 1..Cardinality(S) |->
     CHOOSE e \in S : Cardinality({x \in S : Before(x, e)}) = i - 1]

\* the transitions of the keys S, in the order of the keys
PerKey(S, T(_)) ==
  LET order == Sorted(S, LAMBDA a, b : a < b)
  IN [i \in DOMAIN order |-> T(order[i])]

\* same_process_instance, transition_matches_process
Same(a, b) == a = 0 \/ b = 0 \/ a = b

Replaceable(t, f) ==
  {k \in Listed(t) : f[k] # -1 /\ ~Same(t[k].start, f[k])}

\* the live table after a sample f: first-seen times are carried over
Carried(t, f, at) ==
  [k \in Procs |-> IF f[k] = -1 THEN NoProcess
                   ELSE [start |-> f[k],
                         first |-> IF k \in Listed(t) /\ Same(t[k].start, f[k])
                                   THEN t[k].first ELSE at]]

\* open_transitions: key -> index of the start that nothing closed, or 0
OpenStarts(s) ==
  [k \in Procs |->
     LET mine == {i \in DOMAIN s : s[i].key = k}
     IN IF mine = {} \/ s[Max(mine)].event = "stopped" THEN 0 ELSE Max(mine)]

OpenKeys(s) == {k \in Procs : OpenStarts(s)[k] # 0}

\* close_restored_start
CloseRestored(e, at, visible) ==
  [e EXCEPT !.at = at, !.event = "stopped", !.visible = visible,
            !.first = IF e.first # 0 THEN e.first ELSE e.at]

\* reconcile_restored_processes: the restored starts against the first table
Reconciled(s, current, at, closeAt) ==
  LET open(k) == s[OpenStarts(s)[k]]
      continued == {k \in OpenKeys(s) \cap Listed(current) :
                      Same(open(k).start, current[k].start)}
      Closing(k) == CloseRestored(open(k), closeAt, open(k).visible)
      Starting(k) == Transition(at, "started", k, current[k], TRUE)
  IN [table |-> [k \in Procs |-> IF k \in continued
                                 THEN [current[k] EXCEPT !.first = open(k).at]
                                 ELSE current[k]],
      events |-> PerKey(OpenKeys(s) \ continued, Closing)
                   \o PerKey(Listed(current) \ continued, Starting)]

\* the ring keeps the latest, the file everything but a repeated key
Kept(s) == SubSeq(s, Max({1, Len(s) - RingSize + 1}), Len(s))

\* the primary key of process_events
RowKey(e) == <<e.at, e.event, e.key, e.visible>>

Record(events) ==
  /\ ring' = Kept(ring \o events)
  /\ LET older(i) == rows \cup {events[j] : j \in 1..(i-1)}
         taken(i) == \E r \in older(i) : RowKey(r) = RowKey(events[i])
     IN rows' = rows \cup {events[i] : i \in {j \in DOMAIN events : ~taken(j)}}
  /\ LET stops == {r \in rows \cup ToSet(events) : r.event = "stopped"}
     IN twoStops' = (twoStops \/ \E a, b \in stops :
                       a # b /\ a.at = b.at /\ a.key = b.key)

-------------------------------------------------------------------------------

ProcessInit ==
  /\ tick = 1 /\ failures = 0
  /\ table = EmptyTable /\ initialized = FALSE /\ pending = FALSE
  /\ lastSeen = 0 /\ gpuLast = 0
  /\ ring = <<>> /\ rows = {}
  /\ seen = {} /\ tables = {} /\ bare = {} /\ dark = {} /\ twoStops = FALSE

Advance == tick < MaxTick /\ tick' = tick + 1

\* the units since the last sample, if nothing bridges them any more
Darken(is) ==
  dark' = IF is THEN dark \cup {u \in 1..tick : \A t \in tables : t <= u}
                ELSE dark

-------------------------------------------------------------------------------
(* Samples of an online host *)

\* a process table f, key -> start time or -1
SampleTable(f) ==
  LET current == Carried(table, f, tick)
      old == Reconciled(ring, current, tick, IF gpuLast = 0 THEN tick ELSE gpuLast)
      new == {k \in Procs : f[k] # -1} \ Listed(table)
      gone == Listed(table) \ {k \in Procs : f[k] # -1}
      Start(k) == Transition(tick, "started", k, current[k], TRUE)
      Seed(k) == Transition(tick, "started", k, current[k], FALSE)
      Stop(k) == Transition(tick, "stopped", k, table[k], TRUE)
      reused == PerKey(Replaceable(table, f), LAMBDA k : <<Stop(k), Start(k)>>)
  IN /\ Advance /\ failures' = 0
     /\ initialized' = TRUE /\ pending' = FALSE
     /\ table' = IF ~initialized /\ pending THEN old.table ELSE current
     /\ Record(IF initialized THEN PerKey(new, Start) \o PerKey(gone, Stop)
                                     \o FlattenSeq(reused)
               ELSE IF pending THEN old.events
               ELSE PerKey(Listed(current), Seed))
     /\ lastSeen' = tick /\ gpuLast' = tick
     /\ seen' = seen \cup {<<k, tick>> : k \in Listed(current)}
     /\ tables' = tables \cup {tick}
     /\ UNCHANGED <<bare, dark>>

\* Broken: the closing stop is dated with the failure, not the last sample.
ClosedAtFailure == tick
\* the last time that the process table was confirmed
ClosedAt == lastSeen

\* _close_unobservable_inventory_locked: hidden stops at the last table
CloseLive ==
  IF lastSeen = 0 THEN <<>>
  ELSE PerKey(Listed(table),
              LAMBDA k : Transition(ClosedAt, "stopped", k, table[k], FALSE))

\* _close_restored_inventory_locked: restored starts end with the last sample
CloseOpen ==
  IF ~pending THEN <<>>
  ELSE PerKey(OpenKeys(ring),
         LAMBDA k : CloseRestored(ring[OpenStarts(ring)[k]],
                                  IF gpuLast # 0 THEN gpuLast ELSE Last(ring).at,
                                  FALSE))

Closed(events) ==
  /\ Record(events)
  /\ table' = EmptyTable /\ lastSeen' = 0 /\ initialized' = FALSE

\* a GPU whose processes were not sampled, or whose process query failed
SampleWithoutTable(sampled) ==
  /\ Advance /\ failures' = 0 /\ gpuLast' = tick
  /\ IF sampled THEN Closed(CloseLive)
     ELSE UNCHANGED <<table, initialized, lastSeen, ring, rows, twoStops>>
  /\ bare' = bare \cup {tick}
  /\ UNCHANGED <<pending, seen, tables, dark>>

\* an online host without the GPU
SampleGone ==
  /\ Advance /\ failures' = 0
  /\ pending' = FALSE
  /\ IF initialized THEN Closed(CloseLive \o CloseOpen)
     ELSE /\ Record(CloseOpen)
          /\ UNCHANGED <<table, lastSeen, initialized>>
  /\ UNCHANGED <<gpuLast, seen, tables, bare, dark>>

-------------------------------------------------------------------------------
(* Failures and restarts *)

Stale == failures + 1 >= StaleCycles

\* A failed probe keeps the table; the failure that makes the host stale closes
\* what was confirmed at its last sample.
ProbeFails ==
  /\ Advance /\ failures' = failures + 1
  /\ IF ~Stale
     THEN UNCHANGED <<table, initialized, pending, lastSeen, ring, rows, twoStops>>
     ELSE /\ pending' = FALSE
          /\ IF initialized THEN Closed(CloseLive \o CloseOpen)
             ELSE /\ Record(CloseOpen)
                  /\ UNCHANGED <<table, lastSeen, initialized>>
  /\ Darken(failures + 1 >= StaleCycles)
  /\ UNCHANGED <<gpuLast, seen, tables, bare>>

\* The start time of the opposite transition of that second differs; of two
\* such transitions the visible one, which is read later, is looked at.
Reused(e, twins) ==
  \E o \in twins :
    /\ o.visible \/ \A x \in twins : ~x.visible
    /\ o.start # 0 /\ e.start # 0 /\ o.start # e.start

\* emission_order: start before stop, save for a reused PID
Rank(e, s) ==
  LET twins == {o \in s : o.at = e.at /\ o.key = e.key /\ o.event # e.event}
  IN IF (e.event = "stopped") # Reused(e, twins) THEN 1 ELSE 0

\* The rows are read partition by partition, hidden ones first; the sort is
\* stable.
EmissionOrder(s) ==
  LET place(e) == <<e.at, e.key, Rank(e, s), IF e.visible THEN 1 ELSE 0>>
      Before(a, b) == \E i \in 1..4 : /\ place(a)[i] < place(b)[i]
                                     /\ \A j \in 1..(i-1) : place(a)[j] = place(b)[j]
  IN Sorted(s, Before)

\* the newest rows of each partition: hidden rows lie under a host of their own
Newest(s) ==
  LET order == Sorted(s, LAMBDA a, b :
        \/ a.at < b.at
        \/ a.at = b.at /\ a.event = "stopped" /\ b.event = "started"
        \/ a.at = b.at /\ a.event = b.event /\ a.key < b.key)
  IN ToSet(Kept(order))

Restored == Kept(EmissionOrder(Newest({r \in rows : r.visible})
                                 \cup Newest({r \in rows : ~r.visible})))

\* a crash or a stop, and a start that knows only the file
Restart ==
  /\ Advance /\ failures' = 0
  /\ table' = EmptyTable /\ initialized' = FALSE /\ lastSeen' = 0
  /\ ring' = Restored
  /\ pending' = (Restored # <<>>)
  /\ Darken(TRUE)
  /\ UNCHANGED <<gpuLast, rows, seen, tables, bare, twoStops>>

-------------------------------------------------------------------------------

ProcessNext ==
  \/ \E f \in [Procs -> Starts \cup {-1}] : SampleTable(f)
  \/ \E sampled \in BOOLEAN : SampleWithoutTable(sampled)
  \/ SampleGone \/ ProbeFails \/ Restart

ProcessSpec == ProcessInit /\ [][ProcessNext]_processVars

-------------------------------------------------------------------------------
(* Occupancy: pair_intervals *)

\* live processes count to the last sample, of an online host to now
ActiveUntil == IF failures = 0 \/ lastSeen = 0 THEN tick ELSE lastSeen

\* The units of time that events s and the live table occupy with key k.
Occupied(s, k) ==
  LET mine == SelectSeq(s, LAMBDA e : e.key = k)
      Units(a, b) == {u \in 1..MaxTick : a <= u /\ u < b}
      isStart(i) == i \in DOMAIN mine /\ mine[i].event = "started"
      ofEvent(i) ==
        IF isStart(i) THEN IF i < Len(mine) THEN Units(mine[i].at, mine[i+1].at)
                           ELSE IF k \in Listed(table) THEN Units(mine[i].at, ActiveUntil)
                           ELSE {}
        ELSE IF isStart(i-1) \/ mine[i].first = 0 THEN {}
        ELSE Units(mine[i].first, mine[i].at)
  IN UNION {ofEvent(i) : i \in DOMAIN mine}
     \cup (IF k \in Listed(table) /\ ~isStart(Len(mine))
           THEN Units(table[k].first, ActiveUntil) ELSE {})

-------------------------------------------------------------------------------
(* Properties *)

Observed(k) == {t \in tables : <<k, t>> \in seen}

\* Somebody saw the process before or when the unit began, and no process table
\* since then was without it.
Anchored(k, u) ==
  \E a \in Observed(k) : a <= u /\ \A t \in tables : a < t /\ t <= u => t \in Observed(k)

\* The file and the ring never claim occupancy that nobody observed: every unit
\* is anchored in an observation, and a unit of darkness (the host stale or the
\* monitor down) counts only if the process was there again afterwards, or up to
\* a GPU sample that came without a process table.  Two stops of one key in one
\* second are set aside: the file cannot tell them apart.
NoInventedOccupancy ==
  ~twoStops => \A k \in Procs, s \in {ring, EmissionOrder(rows)} :
    \A u \in Occupied(s, k) :
      /\ Anchored(k, u)
      /\ u \in dark => \E t \in Observed(k) \cup bare : t > u

\* What two successive process tables agree on is never lost from the file,
\* whatever happened later, once the restored starts are reconciled.
OccupancyComplete ==
  ~pending /\ ~twoStops => \A k \in Procs : \A t \in Observed(k) :
    t + 1 \in Observed(k) => t \in Occupied(EmissionOrder(rows), k)

===============================================================================
