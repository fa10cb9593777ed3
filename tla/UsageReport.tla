------------------------------ MODULE UsageReport ------------------------------
(*****************************************************************************)
(* The arithmetic of the usage views over one GPU: the intervals of an       *)
(* owner's processes are merged, split into sampled and idle time by prefix  *)
(* sums over the utilization samples (the memory view) or by hourly buckets  *)
(* (the history report), split by day, and added up per owner.  The inputs   *)
(* are chosen in UsageInit; UsageCountsUnits compares the algorithms with    *)
(* counting the units of time one by one.                                    *)
(*****************************************************************************)
EXTENDS Integers, Sequences, FiniteSets, FiniteSetsExt

CONSTANTS
  Horizon,      \* times are 0..Horizon, the window of the report
  MaxGap,       \* MAX_SAMPLE_GAP_SECONDS
  HourUnits,    \* units per hour bucket
  DayUnits,     \* units per day
  MaxPoints,    \* bound on the samples of an input
  Occupancies   \* sequences of [start, end, owner]: the processes' intervals

VARIABLES
  spans,        \* the intervals of the processes, as pair_intervals returns them
  points,       \* the samples <<time, "busy" | "idle" | "unknown">>
  buckets       \* hour -> [samples, busy], or NoBucket

usageVars == <<spans, points, buckets>>

NoBucket == [samples |-> 0, busy |-> 0]
HoursOf == {h \in 0..Horizon : h % HourUnits = 0}
Moments == (0..Horizon) \X {"busy", "idle", "unknown"}

\* One view reads samples, the other buckets.
UsageInit ==
  /\ spans \in Occupancies
  /\ \/ /\ points \in UNION {kSubset(n, Moments) : n \in 0..MaxPoints}
        /\ buckets = [h \in HoursOf |-> NoBucket]
     \/ /\ points = {}
        /\ buckets \in [HoursOf -> {NoBucket, [samples |-> 2, busy |-> 0],
                                    [samples |-> 2, busy |-> 1]}]

NotNegative(n) == IF n < 0 THEN 0 ELSE n

\* S in the order of Before
SortedBy(S, Before(_, _)) ==
  [i \in 1..Cardinality(S) |->
     CHOOSE e \in S : Cardinality({x \in S : Before(x, e)}) = i - 1]

-------------------------------------------------------------------------------
(* One owner's intervals *)

Owners == {spans[i].owner : i \in DOMAIN spans}

IntervalsOf(o) ==
  {<<spans[i].start, spans[i].end>> : i \in {j \in DOMAIN spans : spans[j].owner = o}}

EarlierSpan(a, b) == a[1] < b[1] \/ (a[1] = b[1] /\ a[2] < b[2])

\* Broken: the later of two overlapping intervals decides where they end.
JoinedToLatest(s, last) == s
\* the end of two intervals that become one
Joined(s, last) == Max({s, last})

\* merge_intervals: the wall-clock union, as a sequence
Merged(o) ==
  LET s == SortedBy(IntervalsOf(o), EarlierSpan)
      M[i \in 0..Len(s)] ==
        IF i = 0 THEN <<>>
        ELSE LET m == M[i-1]
             IN IF m # <<>> /\ s[i][1] <= m[Len(m)][2]
                THEN [m EXCEPT ![Len(m)] = <<@[1], Joined(s[i][2], @[2])>>]
                ELSE Append(m, s[i])
  IN M[Len(s)]

-------------------------------------------------------------------------------
(* Sampled and idle time from samples *)

\* Sorting pairs compares the classes of equal times: an unknown one (None) does
\* not compare with a known one, and the request fails with a TypeError.
Fails ==
  \E p, q \in points : p[1] = q[1] /\ p[2] = "unknown" /\ q[2] # "unknown"

EarlierPoint(a, b) ==
  a[1] < b[1] \/ (a[1] = b[1] /\ a[2] = "busy" /\ b[2] = "idle")

OrderedPoints == SortedBy(points, EarlierPoint)

\* the classified segments between two consecutive samples of s
Segments(s) ==
  LET usable == {i \in 1..(Len(s) - 1) :
                   s[i][2] # "unknown" /\ s[i+1][1] - s[i][1] \in 1..MaxGap}
      At(index) == [j \in DOMAIN index |-> [start |-> s[index[j]][1],
                                            end |-> s[index[j] + 1][1],
                                            idle |-> s[index[j]][2] = "idle"]]
  IN At(SortedBy(usable, <))

\* sampled_prefix and idle_prefix over the segments g
Prefix(g) ==
  LET P[n \in 0..Len(g)] ==
        IF n = 0 THEN [sampled |-> 0, idle |-> 0]
        ELSE LET d == g[n].end - g[n].start
             IN [sampled |-> P[n-1].sampled + d,
                 idle |-> P[n-1].idle + IF g[n].idle THEN d ELSE 0]
  IN P

\* what of the last segment lies after the interval
RightTrim(end, g) == NotNegative(g.end - end)

\* _classify: sampled and idle time of the interval a..b over the segments g,
\* whose prefix sums are in P
Classified(g, P, a, b) ==
  LET first == Cardinality({i \in DOMAIN g : g[i].end <= a}) + 1
      last == Cardinality({i \in DOMAIN g : g[i].start < b})
      left == NotNegative(a - g[first].start)
      right == RightTrim(b, g[last])
      IfIdle(i, n) == IF g[i].idle THEN n ELSE 0
  IN IF Cardinality(points) < 2 \/ first > last THEN [sampled |-> 0, idle |-> 0]
     ELSE [sampled |-> NotNegative(P[last].sampled - P[first-1].sampled - left - right),
           idle |-> NotNegative(P[last].idle - P[first-1].idle
                                  - IfIdle(first, left) - IfIdle(last, right))]

-------------------------------------------------------------------------------
(* Sampled and idle time from hourly buckets *)

Hours == SortedBy({h \in HoursOf : buckets[h] # NoBucket}, <)

Overlap(a, b, h) == NotNegative(Min({b, h + HourUnits}) - Max({a, h}))

\* where the scan of the hours begins
FirstBucket(hours, a) == Max({1, Cardinality({i \in DOMAIN hours : hours[i] < a})})

\* classify_hourly, times the two samples of a bucket
ClassifiedHourly(hours, a, b) ==
  LET read == {i \in DOMAIN hours : i >= FirstBucket(hours, a) /\ hours[i] < b}
      Sampled(i) == 2 * Overlap(a, b, hours[i])
      Idle(i) == (2 - buckets[hours[i]].busy) * Overlap(a, b, hours[i])
  IN [sampled |-> MapThenSumSet(Sampled, read), idle |-> MapThenSumSet(Idle, read)]

-------------------------------------------------------------------------------
(* The report *)

\* _split_by_day: day -> units of the merged intervals m
ByDay(m) ==
  [d \in 0..(Horizon \div DayUnits) |->
     MapThenSumSet(LAMBDA i : NotNegative(Min({m[i][2], (d + 1) * DayUnits})
                                            - Max({m[i][1], d * DayUnits})),
                   DOMAIN m)]

\* aggregate_usage: what the intervals m of one owner add up to
Total(m, g, P, hours) ==
  LET Sum(Of(_, _)) == MapThenSumSet(LAMBDA i : Of(m[i][1], m[i][2]), DOMAIN m)
  IN [gpu |-> Sum(LAMBDA a, b : b - a),
      sampled |-> Sum(LAMBDA a, b : Classified(g, P, a, b).sampled),
      idle |-> Sum(LAMBDA a, b : Classified(g, P, a, b).idle),
      sampledByHour |-> Sum(LAMBDA a, b : ClassifiedHourly(hours, a, b).sampled),
      idleByHour |-> Sum(LAMBDA a, b : ClassifiedHourly(hours, a, b).idle),
      days |-> ByDay(m)]

UsageOf(o) == Total(Merged(o), Segments(OrderedPoints), Prefix(Segments(OrderedPoints)), Hours)

\* A report is computed from a copy of the store and changes nothing.
Answer == UNCHANGED usageVars

UsageNext == Answer

UsageSpec == UsageInit /\ [][UsageNext]_usageVars

-------------------------------------------------------------------------------
(* Properties *)

\* the units of time in which some process of o held the GPU
Held(o) == {u \in 0..(Horizon - 1) :
              \E s \in IntervalsOf(o) : s[1] <= u /\ u < s[2]}

\* What is known of a unit: the samples around it must be close, and the earlier
\* one says it; of two samples in one second the idle one counts.
UnitClass(u) ==
  LET before == {p \in points : p[1] <= u}
      after == {p[1] : p \in {q \in points : q[1] > u}}
      latest == Max({p[1] : p \in before})
      said == {p[2] : p \in {q \in before : q[1] = latest}}
  IN IF before = {} \/ after = {} \/ Min(after) - latest > MaxGap
     THEN "unknown"
     ELSE IF "idle" \in said THEN "idle" ELSE CHOOSE c \in said : TRUE

Bucket(u) == buckets[u - (u % HourUnits)]

\* Every second of a GPU is billed to an owner once, however many of the owner's
\* processes overlap in it, and is sampled or idle exactly as the samples around
\* it, or the bucket of its hour, say; the days of a report add up to the total.
\* (aggregate_usage with merge_intervals, _classify, classify_hourly and
\* _split_by_day)
UsageCountsUnits ==
  ~Fails =>
    \A o \in Owners : \E r \in {UsageOf(o)} :
      LET Count(P(_)) == Cardinality({u \in Held(o) : P(u)})
      IN /\ r.gpu = Cardinality(Held(o))
         /\ r.sampled = Count(LAMBDA u : UnitClass(u) # "unknown")
         /\ r.idle = Count(LAMBDA u : UnitClass(u) = "idle")
         /\ r.sampledByHour = 2 * Count(LAMBDA u : Bucket(u) # NoBucket)
         /\ r.idleByHour = 2 * Count(LAMBDA u : Bucket(u) # NoBucket)
                             - Count(LAMBDA u : Bucket(u).busy = 1)
         /\ \A d \in DOMAIN r.days : r.days[d] = Count(LAMBDA u : u \div DayUnits = d)

===============================================================================
