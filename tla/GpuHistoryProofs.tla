--------------------------- MODULE GpuHistoryProofs ----------------------------
(*****************************************************************************)
(* The hourly rollups of GpuHistory are exact, for every set of sample times *)
(* and every clock, as long as a rollup outlives the samples of its hour.    *)
(*****************************************************************************)
EXTENDS GpuHistory, FiniteSetTheorems, TLAPS

-------------------------------------------------------------------------------
(* Sums and maxima *)

\* A finite set of integers has a maximum: the SQL max() of a few rows.
LEMMA MaxExists ==
  ASSUME NEW S \in SUBSET Int, IsFiniteSet(S), S # {}
  PROVE  \E x \in S : \A y \in S : x >= y
<1> DEFINE bad == {U \in SUBSET S : U # {} /\ ~ \E x \in U : \A y \in U : x >= y}
<1>1. SUFFICES ASSUME bad # {} PROVE FALSE
  OBVIOUS
<1>2. PICK U \in bad : \A V \in bad : <<V, U>> \notin StrictSubsetOrdering(S)
  <2>1. FiniteSubsetsOf(S) = SUBSET S
    BY FS_FiniteSubsetsOfFinite
  <2>2. IsWellFoundedOn(StrictSubsetOrdering(S), SUBSET S)
    BY <2>1, FS_StrictSubsetOrderingWellFounded
  <2>3. bad \subseteq SUBSET S
    OBVIOUS
  <2> HIDE DEF bad
  <2> QED
    BY <1>1, <2>2, <2>3, WFMin
<1>3. PICK x \in U : TRUE
  OBVIOUS
<1>4. CASE U = {x}
  BY <1>4
<1>5. CASE U # {x}
  <2>1. U \ {x} \in SUBSET S /\ U \ {x} # {} /\ U \ {x} # U
    BY <1>3, <1>5
  <2>2. <<U \ {x}, U>> \in StrictSubsetOrdering(S)
    BY <2>1 DEF StrictSubsetOrdering
  <2>3. U \ {x} \notin bad
    BY <1>2, <2>2
  <2>4. PICK m \in U \ {x} : \A y \in U \ {x} : m >= y
    BY <2>1, <2>3
  <2>5. U \subseteq Int /\ m \in Int /\ x \in Int
    OBVIOUS
  <2>6. \E z \in U : \A y \in U : z >= y
    <3>1. CASE m >= x
      BY <2>4, <2>5, <3>1
    <3>2. CASE ~(m >= x)
      <4>1. \A y \in U : x >= y
        BY <2>4, <2>5, <3>2
      <4> QED
        BY <4>1, <1>3
    <3> QED
      BY <3>1, <3>2
  <2> QED
    BY <2>6
<1> QED
  BY <1>4, <1>5

\* Largest is an upper bound, and one of the numbers if there are any.
LEMMA LargestBounds ==
  ASSUME NEW S \in SUBSET Int, IsFiniteSet(S)
  PROVE  /\ Largest(S) \in Int
         /\ \A y \in S : y <= Largest(S)
         /\ S # {} => Largest(S) \in S
         /\ S = {} => Largest(S) = 0
<1>1. CASE S = {}
  BY <1>1 DEF Largest
<1>2. CASE S # {}
  <2>1. \E x \in S : \A y \in S : x >= y
    BY <1>2, MaxExists
  <2>2. Max(S) \in S /\ \A y \in S : Max(S) >= y
    BY <2>1 DEF Max
  <2> QED
    BY <1>2, <2>2 DEF Largest
<1> QED
  BY <1>1, <1>2

\* The larger of two numbers.
LEMMA LargestOfTwo ==
  ASSUME NEW a \in Int, NEW b \in Int
  PROVE  /\ Largest({a, b}) \in {a, b}
         /\ a <= Largest({a, b}) /\ b <= Largest({a, b})
<1>1. IsFiniteSet({a, b})
  <2>1. IsFiniteSet({a})
    BY FS_Singleton
  <2>2. IsFiniteSet({a} \cup {b})
    BY <2>1, FS_AddElement
  <2>3. {a, b} = {a} \cup {b}
    OBVIOUS
  <2> QED
    BY <2>2, <2>3
<1> QED
  BY <1>1, LargestBounds

Cells(n) == UNION {{t} \X (1 .. n[t]) : t \in DOMAIN n}

\* The values of a function on a finite set are finitely many: the samples of
\* an hour.
LEMMA ImageFinite ==
  ASSUME NEW T, IsFiniteSet(T), NEW f, DOMAIN f = T
  PROVE  IsFiniteSet({f[t] : t \in T})
<1>1. PICK R : R = {f[t] : t \in T}
  OBVIOUS
<1>2. PICK g : g = [t \in T |-> f[t]]
  OBVIOUS
<1>3. g \in [T -> R] /\ \A r \in R : \E t \in T : g[t] = r
  BY <1>1, <1>2
<1>4. g \in Surjection(T, R)
  BY <1>3 DEF Surjection
<1>5. IsFiniteSet(R)
  BY <1>4, FS_Surjection
<1> QED
  BY <1>1, <1>5

\* The cells of one sample are as many as it counts.
LEMMA CellsOfOne ==
  ASSUME NEW t, NEW k \in Nat
  PROVE  IsFiniteSet({t} \X (1 .. k)) /\ Cardinality({t} \X (1 .. k)) = k
<1>1. IsFiniteSet({t}) /\ Cardinality({t}) = 1
  BY FS_Singleton
<1>2. IsFiniteSet(1 .. k) /\ Cardinality(1 .. k) = k
  <2>1. IsFiniteSet(1 .. k) /\ Cardinality(1 .. k) = IF 1 > k THEN 0 ELSE k - 1 + 1
    BY FS_Interval
  <2> QED
    BY <2>1
<1>3. /\ IsFiniteSet({t} \X (1 .. k))
      /\ Cardinality({t} \X (1 .. k)) = Cardinality({t}) * Cardinality(1 .. k)
  BY <1>1, <1>2, FS_Product
<1> QED
  BY <1>1, <1>2, <1>3

\* The cells of the samples of an hour are finitely many.
LEMMA CellsFinite ==
  ASSUME NEW T, IsFiniteSet(T), NEW n \in [T -> Nat]
  PROVE  IsFiniteSet(Cells(n))
<1>1. PICK f : f = [t \in T |-> {t} \X (1 .. n[t])]
  OBVIOUS
<1>2. IsFiniteSet({f[t] : t \in T})
  <2>1. DOMAIN f = T
    BY <1>1
  <2> QED
    BY <2>1, ImageFinite
<1>3. ASSUME NEW t \in T PROVE IsFiniteSet(f[t])
  <2>1. n[t] \in Nat
    OBVIOUS
  <2> QED
    BY <1>1, <2>1, CellsOfOne
<1>4. PICK R : R = {f[t] : t \in T}
  OBVIOUS
<1>5. IsFiniteSet(UNION R)
  BY <1>2, <1>3, <1>4, FS_UNION
<1>6. {{t} \X (1 .. n[t]) : t \in DOMAIN n} = R
  BY <1>1, <1>4
<1> QED
  BY <1>5, <1>6 DEF Cells

\* Total is a natural number.
LEMMA TotalNat ==
  ASSUME NEW T, IsFiniteSet(T), NEW n \in [T -> Nat]
  PROVE  Total(n) \in Nat
BY CellsFinite, FS_CardinalityType DEF Total, Cells

\* Total counts one number apart from the others.
LEMMA TotalSplit ==
  ASSUME NEW T, IsFiniteSet(T), NEW n \in [T -> Nat], NEW t \in T
  PROVE  Total(n) = n[t] + Total([u \in T \ {t} |-> n[u]])
<1> DEFINE m == [u \in T \ {t} |-> n[u]]
           C == {t} \X (1 .. n[t])
<1>1. Cells(n) = C \cup Cells(m)
  BY DEF Cells
<1>2. C \cap Cells(m) = {}
  BY DEF Cells
<1>3. IsFiniteSet(C) /\ Cardinality(C) = n[t]
  <2>1. n[t] \in Nat
    OBVIOUS
  <2> QED
    BY <2>1, CellsOfOne
<1>4. IsFiniteSet(T \ {t})
  BY FS_RemoveElement
<1>5. m \in [T \ {t} -> Nat]
  OBVIOUS
<1> HIDE DEF m, C
<1>6. IsFiniteSet(Cells(m)) /\ Total(m) \in Nat
  BY <1>4, <1>5, CellsFinite, TotalNat
<1>7. Total(n) = Cardinality(Cells(n)) /\ Total(m) = Cardinality(Cells(m))
  BY DEF Total, Cells
<1>8. Cardinality(C \cup Cells(m)) = Cardinality(C) + Cardinality(Cells(m)) - Cardinality({})
  BY <1>2, <1>3, <1>6, FS_Union
<1>9. Cardinality({}) = 0
  BY FS_EmptySet
<1> QED
  BY <1>1, <1>3, <1>6, <1>7, <1>8, <1>9 DEF m

\* A sample that changes its count changes the count of its hour alike.
LEMMA TotalChange ==
  ASSUME NEW T, IsFiniteSet(T), NEW n \in [T -> Nat], NEW k \in [T -> Nat],
         NEW t \in T, \A u \in T \ {t} : k[u] = n[u]
  PROVE  Total(k) = Total(n) - n[t] + k[t]
<1>1. [u \in T \ {t} |-> n[u]] = [u \in T \ {t} |-> k[u]]
  OBVIOUS
<1>2. Total([u \in T \ {t} |-> n[u]]) \in Nat
  BY FS_RemoveElement, TotalNat
<1>3. n[t] \in Nat /\ k[t] \in Nat
  OBVIOUS
<1>4. Total(n) = n[t] + Total([u \in T \ {t} |-> n[u]])
  BY TotalSplit
<1>5. Total(k) = k[t] + Total([u \in T \ {t} |-> n[u]])
  BY <1>1, TotalSplit
<1> QED
  BY <1>2, <1>3, <1>4, <1>5

\* The total of no samples is zero, and only that of none.
LEMMA TotalZero ==
  ASSUME NEW T, IsFiniteSet(T), NEW n \in [T -> Nat]
  PROVE  Total(n) = 0 <=> \A t \in T : n[t] = 0
<1>1. ASSUME \A t \in T : n[t] = 0 PROVE Total(n) = 0
  <2>1. Cells(n) = {}
    BY <1>1 DEF Cells
  <2> QED
    BY <2>1, FS_EmptySet DEF Total, Cells
<1>2. ASSUME Total(n) = 0, NEW t \in T PROVE n[t] = 0
  <2>1. Total([u \in T \ {t} |-> n[u]]) \in Nat
    BY FS_RemoveElement, TotalNat
  <2>2. n[t] \in Nat
    OBVIOUS
  <2>3. Total(n) = n[t] + Total([u \in T \ {t} |-> n[u]])
    BY TotalSplit
  <2> QED
    BY <1>2, <2>1, <2>2, <2>3
<1> QED
  BY <1>1, <1>2

-------------------------------------------------------------------------------
(* Hours *)

\* Rows of gpu_hourly, and contributions to them.
Rows == [samples : Nat, busy : Nat, sum : Nat, max : Nat]

SamplesOf(c, h) == Total([t \in TimesOf(h) |-> c[t].samples])
BusyOf(c, h)    == Total([t \in TimesOf(h) |-> c[t].busy])
SumOf(c, h)     == Total([t \in TimesOf(h) |-> c[t].sum])

\* a row counts what the samples of its hour contributed
Exact(row, c, h) ==
  row.samples = SamplesOf(c, h) /\ row.busy = BusyOf(c, h) /\ row.sum = SumOf(c, h)

\* and its maximum is none below a sample that is not in u
Covers(row, c, u, h) == \A t \in TimesOf(h) \ u : row.max >= c[t].max

LEMMA RowFields ==
  /\ Empty \in Rows
  /\ Empty.samples = 0 /\ Empty.busy = 0 /\ Empty.sum = 0 /\ Empty.max = 0
  /\ \A v \in Nat, b \in {0, 1} :
       /\ Contribution(v, b) \in Rows
       /\ Contribution(v, b).samples = 1 /\ Contribution(v, b).busy = b
       /\ Contribution(v, b).sum = v /\ Contribution(v, b).max = v
  /\ \A row \in Rows : row.samples \in Nat /\ row.busy \in Nat
                       /\ row.sum \in Nat /\ row.max \in Nat
BY DEF Empty, Contribution, Rows

\* Every sample is in an hour that has a row to be.
LEMMA HourType ==
  ASSUME NEW t \in Times
  PROVE  Hour(t) \in Hours /\ t \in TimesOf(Hour(t))
BY DEF Hours, TimesOf

LEMMA TimesFinite ==
  ASSUME NEW h
  PROVE  IsFiniteSet(TimesOf(h)) /\ TimesOf(h) \subseteq Times
<1>1. TimesOf(h) \in SUBSET Times
  BY DEF TimesOf
<1> QED
  BY <1>1, TimesAssumption, FS_Subset

\* The counts of an hour are functions on its samples.
LEMMA CountsType ==
  ASSUME NEW h, NEW c \in [Times -> Rows]
  PROVE  /\ [t \in TimesOf(h) |-> c[t].samples] \in [TimesOf(h) -> Nat]
         /\ [t \in TimesOf(h) |-> c[t].busy] \in [TimesOf(h) -> Nat]
         /\ [t \in TimesOf(h) |-> c[t].sum] \in [TimesOf(h) -> Nat]
<1>1. \A t \in TimesOf(h) : c[t] \in Rows
  BY TimesFinite
<1> QED
  BY <1>1, RowFields

\* The aggregate of an hour is a row, it counts each sample and its maximum
\* covers them all: what the backfill of a start inserts.
LEMMA AggregateExact ==
  ASSUME NEW h, NEW c \in [Times -> Rows]
  PROVE  /\ Aggregate(c, h) \in Rows
         /\ Exact(Aggregate(c, h), c, h)
         /\ \A u : Covers(Aggregate(c, h), c, u, h)
<1>1. PICK f : f = [t \in TimesOf(h) |-> c[t].max]
  OBVIOUS
<1>2. \A t \in TimesOf(h) : c[t] \in Rows
  BY TimesFinite
<1>3. PICK M : M = {c[t].max : t \in TimesOf(h)}
  OBVIOUS
<1>4. M \in SUBSET Nat
  BY <1>2, <1>3, RowFields
<1>5. IsFiniteSet(M)
  <2>1. DOMAIN f = TimesOf(h) /\ M = {f[t] : t \in TimesOf(h)}
    BY <1>1, <1>3
  <2>2. IsFiniteSet({f[t] : t \in TimesOf(h)})
    BY <2>1, TimesFinite, ImageFinite
  <2> QED
    BY <2>1, <2>2
<1>6. Largest(M) \in Nat /\ \A y \in M : y <= Largest(M)
  <2>1. M \in SUBSET Int
    BY <1>4
  <2>2. /\ \A y \in M : y <= Largest(M)
        /\ Largest(M) \in M \/ Largest(M) = 0
    BY <2>1, <1>5, LargestBounds
  <2>3. Largest(M) \in Nat
    <3>1. CASE Largest(M) \in M
      BY <3>1, <1>4
    <3>2. CASE Largest(M) = 0
      BY <3>2
    <3> QED
      BY <3>1, <3>2, <2>2
  <2> QED
    BY <2>2, <2>3
<1>7. SamplesOf(c, h) \in Nat /\ BusyOf(c, h) \in Nat /\ SumOf(c, h) \in Nat
  BY TimesFinite, CountsType, TotalNat DEF SamplesOf, BusyOf, SumOf
<1>8. Aggregate(c, h) = [samples |-> SamplesOf(c, h), busy |-> BusyOf(c, h),
                         sum |-> SumOf(c, h), max |-> Largest(M)]
  BY <1>3 DEF Aggregate, SamplesOf, BusyOf, SumOf
<1>9. Aggregate(c, h) \in Rows
  BY <1>6, <1>7, <1>8 DEF Rows
<1>10. Exact(Aggregate(c, h), c, h)
  BY <1>8 DEF Exact
<1>11. ASSUME NEW t \in TimesOf(h) PROVE Aggregate(c, h).max >= c[t].max
  <2>1. c[t].max \in M /\ c[t].max \in Nat
    BY <1>2, <1>3, RowFields
  <2> QED
    BY <2>1, <1>6, <1>8
<1> QED
  BY <1>9, <1>10, <1>11 DEF Covers

\* An hour whose samples contribute the same has the same counts.
LEMMA ExactFrame ==
  ASSUME NEW h, NEW row, NEW c, NEW d,
         \A t \in TimesOf(h) : d[t] = c[t]
  PROVE  Exact(row, c, h) => Exact(row, d, h)
<1>1. /\ [t \in TimesOf(h) |-> c[t].samples] = [t \in TimesOf(h) |-> d[t].samples]
      /\ [t \in TimesOf(h) |-> c[t].busy] = [t \in TimesOf(h) |-> d[t].busy]
      /\ [t \in TimesOf(h) |-> c[t].sum] = [t \in TimesOf(h) |-> d[t].sum]
  OBVIOUS
<1> QED
  BY <1>1 DEF Exact, SamplesOf, BusyOf, SumOf

\* An hour without a row is one in which no sample counts.
LEMMA EmptyHour ==
  ASSUME NEW h, NEW c \in [Times -> Rows],
         \A t \in Times : c[t].samples = 0 => c[t] = Empty
  PROVE  Exact(Empty, c, h) <=> \A t \in TimesOf(h) : c[t] = Empty
<1>1. ASSUME Exact(Empty, c, h), NEW t \in TimesOf(h) PROVE c[t] = Empty
  <2>1. SamplesOf(c, h) = 0
    BY <1>1, RowFields DEF Exact
  <2>2. c[t].samples = 0
    BY <2>1, TimesFinite, CountsType, TotalZero DEF SamplesOf
  <2> QED
    BY <2>2, TimesFinite
<1>2. ASSUME \A t \in TimesOf(h) : c[t] = Empty PROVE Exact(Empty, c, h)
  <2>1. \A t \in TimesOf(h) : c[t].samples = 0 /\ c[t].busy = 0 /\ c[t].sum = 0
    BY <1>2, RowFields
  <2>2. SamplesOf(c, h) = 0 /\ BusyOf(c, h) = 0 /\ SumOf(c, h) = 0
    BY <2>1, TimesFinite, CountsType, TotalZero DEF SamplesOf, BusyOf, SumOf
  <2> QED
    BY <2>2, RowFields DEF Exact
<1> QED
  BY <1>1, <1>2

\* One sample that contributes something else changes the counts by the
\* difference: what Subtracted and Added are for.
LEMMA ExactChange ==
  ASSUME NEW h, NEW c \in [Times -> Rows], NEW d \in [Times -> Rows],
         NEW t \in TimesOf(h), \A u \in TimesOf(h) \ {t} : d[u] = c[u]
  PROVE  /\ SamplesOf(d, h) = SamplesOf(c, h) - c[t].samples + d[t].samples
         /\ BusyOf(d, h) = BusyOf(c, h) - c[t].busy + d[t].busy
         /\ SumOf(d, h) = SumOf(c, h) - c[t].sum + d[t].sum
<1>1. /\ \A u \in TimesOf(h) \ {t} : d[u].samples = c[u].samples
      /\ \A u \in TimesOf(h) \ {t} : d[u].busy = c[u].busy
      /\ \A u \in TimesOf(h) \ {t} : d[u].sum = c[u].sum
  OBVIOUS
<1>2. SamplesOf(d, h) = SamplesOf(c, h) - c[t].samples + d[t].samples
  <2>1. PICK n : n = [u \in TimesOf(h) |-> c[u].samples]
    OBVIOUS
  <2>2. PICK k : k = [u \in TimesOf(h) |-> d[u].samples]
    OBVIOUS
  <2>3. n \in [TimesOf(h) -> Nat] /\ k \in [TimesOf(h) -> Nat]
    BY <2>1, <2>2, CountsType
  <2>4. \A u \in TimesOf(h) \ {t} : k[u] = n[u]
    BY <2>1, <2>2, <1>1
  <2>5. Total(k) = Total(n) - n[t] + k[t]
    BY <2>3, <2>4, TimesFinite, TotalChange
  <2> QED
    BY <2>1, <2>2, <2>5 DEF SamplesOf
<1>3. BusyOf(d, h) = BusyOf(c, h) - c[t].busy + d[t].busy
  <2>1. PICK n : n = [u \in TimesOf(h) |-> c[u].busy]
    OBVIOUS
  <2>2. PICK k : k = [u \in TimesOf(h) |-> d[u].busy]
    OBVIOUS
  <2>3. n \in [TimesOf(h) -> Nat] /\ k \in [TimesOf(h) -> Nat]
    BY <2>1, <2>2, CountsType
  <2>4. \A u \in TimesOf(h) \ {t} : k[u] = n[u]
    BY <2>1, <2>2, <1>1
  <2>5. Total(k) = Total(n) - n[t] + k[t]
    BY <2>3, <2>4, TimesFinite, TotalChange
  <2> QED
    BY <2>1, <2>2, <2>5 DEF BusyOf
<1>4. SumOf(d, h) = SumOf(c, h) - c[t].sum + d[t].sum
  <2>1. PICK n : n = [u \in TimesOf(h) |-> c[u].sum]
    OBVIOUS
  <2>2. PICK k : k = [u \in TimesOf(h) |-> d[u].sum]
    OBVIOUS
  <2>3. n \in [TimesOf(h) -> Nat] /\ k \in [TimesOf(h) -> Nat]
    BY <2>1, <2>2, CountsType
  <2>4. \A u \in TimesOf(h) \ {t} : k[u] = n[u]
    BY <2>1, <2>2, <1>1
  <2>5. Total(k) = Total(n) - n[t] + k[t]
    BY <2>3, <2>4, TimesFinite, TotalChange
  <2> QED
    BY <2>1, <2>2, <2>5 DEF SumOf
<1> QED
  BY <1>2, <1>3, <1>4

-------------------------------------------------------------------------------
(* The inductive invariant *)

GpuTypeOK ==
  /\ now \in Nat /\ threshold \in Nat
  /\ phase \in {"down", "schema", "pruned", "companions", "running"}
  /\ companionsOn \in BOOLEAN /\ rollupsOn \in BOOLEAN
  /\ hourlyTable \in BOOLEAN /\ companionTables \in BOOLEAN
  /\ raw \in [Times -> Nat]
  /\ busyRow \in [Times -> {NoRow, 0, 1}]
  /\ hourly \in [Hours -> Rows]
  /\ retired \in [Hours -> Nat]
  /\ cutoff \in Int
  /\ contributed \in [Times -> Rows]

\* what the flags of the process say of the tables
FlagsAgree ==
  /\ rollupsOn => companionsOn /\ hourlyTable /\ phase = "running"
  /\ phase \in {"pruned", "companions", "running"} => companionsOn = companionTables
  /\ ~companionTables => \A t \in Times : busyRow[t] = NoRow
  /\ ~hourlyTable => \A t \in Times : contributed[t] = Empty

\* a sample with no row either never counted or cannot come again
Final(r, c, b, t) == r = 0 /\ c # Empty => t < b

\* a sample whose busy count is recorded is counted as it stands
Recorded(r, busy, c) == busy # NoRow => r # 0 /\ c = Contribution(r, busy)

\* the raw row or the retired maximum of the hour bears a contribution out
BorneOut(r, m, c) == c.max <= r \/ c.max <= m

SamplesAgree ==
  \A t \in Times :
    /\ contributed[t].samples = 0 => contributed[t] = Empty
    /\ Final(raw[t], contributed[t], cutoff, t)
    /\ Recorded(raw[t], busyRow[t], contributed[t])
    /\ companionTables /\ t \notin unrecorded =>
         BorneOut(raw[t], retired[Hour(t)], contributed[t])

HoursAgree ==
  \A h \in Hours : /\ Exact(hourly[h], contributed, h)
                   /\ Covers(hourly[h], contributed, unrecorded, h)

GpuInv == GpuTypeOK /\ FlagsAgree /\ SamplesAgree /\ HoursAgree

\* The last part is what the runs check.
LEMMA HoursAgreeRollup == HoursAgree <=> RollupExact
BY DEF HoursAgree, RollupExact, Exact, Covers, Aggregate, SamplesOf, BusyOf, SumOf

\* What the raw rows contribute when they are aggregated at a start.
LEMMA RawContributionsType ==
  ASSUME raw \in [Times -> Nat]
  PROVE  /\ RawContributions \in [Times -> Rows]
         /\ \A t \in Times :
              /\ raw[t] = 0 => RawContributions[t] = Empty
              /\ raw[t] # 0 => /\ RawContributions[t].samples = 1
                               /\ RawContributions[t].max = raw[t]
<1>1. ASSUME NEW t \in Times
      PROVE  raw[t] \in Nat /\ IsBusy(raw[t]) \in {0, 1}
  BY DEF IsBusy
<1>2. ASSUME NEW t \in Times
      PROVE  /\ RawContributions[t] \in Rows
             /\ raw[t] = 0 => RawContributions[t] = Empty
             /\ raw[t] # 0 => /\ RawContributions[t].samples = 1
                              /\ RawContributions[t].max = raw[t]
  BY <1>1, RowFields DEF RawContributions
<1>3. RawContributions \in [Times -> Rows]
  BY <1>2 DEF RawContributions
<1> QED
  BY <1>2, <1>3

\* A file of an earlier release agrees with itself.
LEMMA InitAgrees == GpuInit => GpuInv
<1> SUFFICES ASSUME GpuInit PROVE GpuInv
  OBVIOUS
<1>1. /\ now \in Nat /\ threshold \in Nat
      /\ raw \in [Times -> Nat]
      /\ busyRow \in [Times -> {NoRow, 0, 1}]
      /\ retired \in [Hours -> Nat]
      /\ cutoff \in Int
  <2>1. now \in Nat /\ threshold \in Nat
    BY TimesAssumption, ValuesAssumption DEF GpuInit
  <2>2. raw \in [Times -> Nat]
    <3>1. Values \cup {0} \subseteq Nat
      BY ValuesAssumption
    <3>2. raw \in [Times -> Values \cup {0}]
      BY DEF GpuInit
    <3> QED
      BY <3>1, <3>2
  <2>3. busyRow \in [Times -> {NoRow, 0, 1}] /\ retired \in [Hours -> Nat] /\ cutoff \in Int
    BY DEF GpuInit, NoRow
  <2> QED
    BY <2>1, <2>2, <2>3
<1>2. /\ RawContributions \in [Times -> Rows]
      /\ \A t \in Times :
           /\ raw[t] = 0 => RawContributions[t] = Empty
           /\ raw[t] # 0 => /\ RawContributions[t].samples = 1
                            /\ RawContributions[t].max = raw[t]
  BY <1>1, RawContributionsType
<1>3. /\ contributed \in [Times -> Rows]
      /\ \A t \in Times :
           /\ contributed[t] \in {Empty, RawContributions[t]}
           /\ ~hourlyTable => contributed[t] = Empty
           /\ raw[t] = 0 => contributed[t] = Empty
  <2>1. CASE hourlyTable
    BY <1>2, <2>1 DEF GpuInit
  <2>2. CASE ~hourlyTable
    BY <2>2, RowFields DEF GpuInit
  <2> QED
    BY <2>1, <2>2
<1>4. /\ hourly \in [Hours -> Rows]
      /\ \A h \in Hours : /\ Exact(hourly[h], contributed, h)
                          /\ Covers(hourly[h], contributed, unrecorded, h)
  <2>1. \A h \in Hours : /\ Aggregate(contributed, h) \in Rows
                         /\ Exact(Aggregate(contributed, h), contributed, h)
                         /\ Covers(Aggregate(contributed, h), contributed, unrecorded, h)
    BY <1>3, AggregateExact
  <2>2. hourly = [h \in Hours |-> Aggregate(contributed, h)]
    BY DEF GpuInit
  <2> QED
    BY <2>1, <2>2
<1>5. GpuTypeOK
  BY <1>1, <1>3, <1>4 DEF GpuTypeOK, GpuInit
<1>6. FlagsAgree
  BY <1>3 DEF FlagsAgree, GpuInit
<1>7. SamplesAgree
  <2>1. \A t \in Times :
          /\ contributed[t].samples = 0 => contributed[t] = Empty
          /\ raw[t] = 0 => contributed[t] = Empty
          /\ busyRow[t] = NoRow
    <3>1. \A t \in Times : busyRow[t] = NoRow
      BY DEF GpuInit
    <3> QED
      BY <1>1, <1>2, <1>3, <3>1
  <2>2. ~companionTables
    BY DEF GpuInit
  <2> QED
    BY <2>1, <2>2 DEF SamplesAgree, Final, Recorded
<1>8. HoursAgree
  BY <1>4 DEF HoursAgree
<1> QED
  BY <1>5, <1>6, <1>7, <1>8 DEF GpuInv

-------------------------------------------------------------------------------
(* Pruning *)

\* The cutoff never moves back: gpu_cutoff.
LEMMA BoundaryBounds ==
  ASSUME GpuTypeOK, NEW c \in Int
  PROVE  /\ Boundary(c) \in Int /\ c <= Boundary(c)
         /\ \A t \in Nat : t < cutoff => t < Boundary(c)
<1>1. cutoff \in Int
  BY DEF GpuTypeOK
<1>2. CASE cutoff = NoRow
  BY <1>2 DEF Boundary, NoRow
<1>3. CASE cutoff # NoRow
  <2>1. Boundary(c) = Largest({cutoff, c})
    BY <1>3 DEF Boundary
  <2>2. Boundary(c) \in Int /\ cutoff <= Boundary(c) /\ c <= Boundary(c)
    BY <1>1, <2>1, LargestOfTwo
  <2> QED
    BY <1>1, <2>2
<1> QED
  BY <1>2, <1>3

\* What prune_gpu archives is no less than what was, nor than what expires.
LEMMA ArchivedBounds ==
  ASSUME GpuTypeOK, NEW b \in Int, NEW h \in Hours
  PROVE  /\ Archived(h, b) \in Nat /\ retired[h] <= Archived(h, b)
         /\ \A t \in TimesOf(h) : raw[t] # 0 /\ t < b => raw[t] <= Archived(h, b)
<1>1. PICK E : E = ExpiredAt(b) \cap TimesOf(h)
  OBVIOUS
<1>2. PICK S : S = {retired[h]} \cup {raw[t] : t \in E}
  OBVIOUS
<1>3. Archived(h, b) = Largest(S)
  BY <1>1, <1>2 DEF Archived
<1>4. /\ \A t \in E : t \in TimesOf(h) /\ t \in Times /\ raw[t] \in Nat
      /\ retired[h] \in Nat
  BY <1>1, TimesFinite DEF GpuTypeOK
<1>5. IsFiniteSet(S)
  <2>1. E \in SUBSET TimesOf(h)
    BY <1>1
  <2>2. IsFiniteSet(E)
    BY <2>1, TimesFinite, FS_Subset
  <2>3. PICK f : f = [t \in E |-> raw[t]]
    OBVIOUS
  <2>4. DOMAIN f = E /\ {f[t] : t \in E} = {raw[t] : t \in E}
    BY <2>3
  <2>5. IsFiniteSet({f[t] : t \in E})
    BY <2>2, <2>4, ImageFinite
  <2>6. IsFiniteSet({raw[t] : t \in E} \cup {retired[h]})
    BY <2>4, <2>5, FS_AddElement
  <2>7. S = {raw[t] : t \in E} \cup {retired[h]}
    BY <1>2
  <2> QED
    BY <2>6, <2>7
<1>6. S \in SUBSET Nat /\ S \in SUBSET Int
  BY <1>2, <1>4
<1>7. Largest(S) \in S /\ \A y \in S : y <= Largest(S)
  <2>1. S # {}
    BY <1>2
  <2> QED
    BY <2>1, <1>5, <1>6, LargestBounds
<1>8. ASSUME NEW t \in TimesOf(h), raw[t] # 0, t < b PROVE raw[t] <= Archived(h, b)
  <2>1. t \in E
    BY <1>1, <1>8, TimesFinite DEF ExpiredAt
  <2>2. raw[t] \in S
    BY <1>2, <2>1
  <2> QED
    BY <2>2, <1>3, <1>7
<1>9. retired[h] \in S
  BY <1>2
<1> QED
  BY <1>3, <1>6, <1>7, <1>8, <1>9

\* A rollup is deleted when the samples of its hour have all expired: the
\* horizon of prune_rollups is an hour behind the cutoff of prune_gpu.
LEMMA OutlivedExpired ==
  ASSUME Retention + HourLength <= RollupHours, now \in Nat,
         NEW t \in Times, Outlived(Hour(t))
  PROVE  t < now - Retention
<1>1. /\ t \in Nat /\ HourLength \in Nat /\ HourLength > 0
      /\ Retention \in Nat /\ RollupHours \in Nat
  BY TimesAssumption
<1>2. t < Hour(t) * HourLength + HourLength
  <2>1. /\ t = HourLength * (t \div HourLength) + (t % HourLength)
        /\ t % HourLength < HourLength
        /\ t \div HourLength \in Int /\ t % HourLength \in Int
    BY <1>1
  <2>2. HourLength * (t \div HourLength) = (t \div HourLength) * HourLength
    BY <1>1, <2>1
  <2>3. HourLength * (t \div HourLength) \in Int
    BY <1>1, <2>1
  <2> QED
    BY <1>1, <2>1, <2>2, <2>3 DEF Hour
<1>3. Hour(t) * HourLength \in Int
  <2>1. Hour(t) \in Int
    BY <1>1 DEF Hour
  <2> QED
    BY <1>1, <2>1
<1>4. Hour(t) * HourLength < now - RollupHours
  <2>1. RollupHours <= Largest({Retention, RollupHours})
        /\ Largest({Retention, RollupHours}) \in Int
    BY <1>1, LargestOfTwo
  <2> QED
    BY <1>1, <1>3, <2>1 DEF Outlived
<1>5. PICK begin \in Int : begin = Hour(t) * HourLength
  BY <1>3
<1> QED
  BY <1>1, <1>2, <1>4, <1>5

\* prune_gpu leaves no sample below its boundary and says so.
LEMMA PruneGpuKeeps ==
  ASSUME GpuTypeOK, SamplesAgree, NEW b \in Int,
         \A t \in Nat : t < cutoff => t < b,
         PruneGpu(b)
  PROVE  /\ raw' \in [Times -> Nat] /\ busyRow' \in [Times -> {NoRow, 0, 1}]
         /\ cutoff' \in Int
         /\ \A t \in Times :
              /\ t < b => raw'[t] = 0 /\ busyRow'[t] = NoRow
              /\ Final(raw'[t], contributed[t], cutoff', t)
              /\ Recorded(raw'[t], busyRow'[t], contributed[t])
              /\ busyRow[t] = NoRow => busyRow'[t] = NoRow
              /\ \A m \in Nat :
                   /\ BorneOut(raw[t], retired[Hour(t)], contributed[t])
                   /\ Archived(Hour(t), b) <= m
                   => BorneOut(raw'[t], m, contributed[t])
<1>1. cutoff' = b /\ cutoff' \in Int
  BY DEF PruneGpu
<1>2. ASSUME NEW t \in Times
      PROVE  /\ raw'[t] = (IF t < b THEN 0 ELSE raw[t])
             /\ busyRow'[t] = (IF t < b THEN NoRow ELSE busyRow[t])
             /\ t \in Nat /\ raw[t] \in Nat /\ busyRow[t] \in {NoRow, 0, 1}
             /\ contributed[t] \in Rows /\ retired[Hour(t)] \in Nat
  BY HourType, TimesAssumption DEF PruneGpu, GpuTypeOK
<1>3. raw' \in [Times -> Nat] /\ busyRow' \in [Times -> {NoRow, 0, 1}]
  <2>1. /\ raw' = [t \in Times |-> IF t < b THEN 0 ELSE raw[t]]
        /\ busyRow' = [t \in Times |-> IF t < b THEN NoRow ELSE busyRow[t]]
    BY DEF PruneGpu
  <2> QED
    BY <1>2, <2>1
<1>4. ASSUME NEW t \in Times
      PROVE  /\ t < b => raw'[t] = 0 /\ busyRow'[t] = NoRow
             /\ Final(raw'[t], contributed[t], cutoff', t)
             /\ Recorded(raw'[t], busyRow'[t], contributed[t])
             /\ busyRow[t] = NoRow => busyRow'[t] = NoRow
  <2>1. /\ Final(raw[t], contributed[t], cutoff, t)
        /\ Recorded(raw[t], busyRow[t], contributed[t])
    BY DEF SamplesAgree
  <2>2. CASE t < b
    BY <1>1, <1>2, <2>2 DEF Final, Recorded
  <2>3. CASE ~(t < b)
    <3>1. raw'[t] = raw[t] /\ busyRow'[t] = busyRow[t]
      BY <1>2, <2>3
    <3>2. ~(t < cutoff)
      BY <1>2, <2>3
    <3> QED
      BY <2>1, <2>3, <3>1, <3>2 DEF Final, Recorded
  <2> QED
    BY <2>2, <2>3
<1>5. ASSUME NEW t \in Times, NEW m \in Nat,
             BorneOut(raw[t], retired[Hour(t)], contributed[t]),
             Archived(Hour(t), b) <= m
      PROVE  BorneOut(raw'[t], m, contributed[t])
  <2>1. /\ Archived(Hour(t), b) \in Nat /\ retired[Hour(t)] <= Archived(Hour(t), b)
        /\ raw[t] # 0 /\ t < b => raw[t] <= Archived(Hour(t), b)
    BY HourType, ArchivedBounds
  <2>2. contributed[t].max \in Nat /\ raw[t] \in Nat /\ retired[Hour(t)] \in Nat
    BY <1>2, RowFields
  <2>3. CASE contributed[t].max <= retired[Hour(t)]
    BY <1>5, <2>1, <2>2, <2>3 DEF BorneOut
  <2>4. CASE contributed[t].max <= raw[t] /\ ~(t < b)
    BY <1>2, <2>4 DEF BorneOut
  <2>5. CASE contributed[t].max <= raw[t] /\ t < b
    <3>1. CASE raw[t] = 0
      BY <1>2, <2>2, <2>5, <3>1 DEF BorneOut
    <3>2. CASE raw[t] # 0
      <4>1. contributed[t].max <= m
        BY <1>5, <2>1, <2>2, <2>5, <3>2
      <4> QED
        BY <4>1 DEF BorneOut
    <3> QED
      BY <3>1, <3>2
  <2> QED
    BY <1>5, <2>3, <2>4, <2>5 DEF BorneOut
<1> QED
  BY <1>1, <1>3, <1>4, <1>5

\* prune_rollups deletes whole hours: their rows and all that was in them.
LEMMA PruneRollupsKeeps ==
  ASSUME GpuInv, PruneRollups, unrecorded' = unrecorded
  PROVE  /\ hourly' \in [Hours -> Rows] /\ contributed' \in [Times -> Rows]
         /\ HoursAgree'
         /\ \A t \in Times :
              contributed'[t] = IF rollupsOn /\ Outlived(Hour(t)) THEN Empty
                                ELSE contributed[t]
<1> USE DEF GpuInv
<1>1. CASE ~rollupsOn
  <2>1. hourly' = hourly /\ contributed' = contributed
    BY <1>1 DEF PruneRollups
  <2> QED
    BY <1>1, <2>1 DEF GpuTypeOK, HoursAgree
<1>2. CASE rollupsOn
  <2>1. /\ hourly' = [h \in Hours |-> IF Outlived(h) THEN Empty ELSE hourly[h]]
        /\ contributed' = [t \in Times |-> IF Outlived(Hour(t)) THEN Empty
                                           ELSE contributed[t]]
    BY <1>2 DEF PruneRollups
  <2>2. /\ hourly' \in [Hours -> Rows] /\ contributed' \in [Times -> Rows]
        /\ \A h \in Hours : hourly'[h] = IF Outlived(h) THEN Empty ELSE hourly[h]
        /\ \A t \in Times : contributed'[t] = IF Outlived(Hour(t)) THEN Empty
                                              ELSE contributed[t]
    BY <2>1, RowFields DEF GpuTypeOK
  <2>3. \A t \in Times : contributed'[t].samples = 0 => contributed'[t] = Empty
    BY <2>2 DEF SamplesAgree
  <2>4. ASSUME NEW h \in Hours
        PROVE  /\ Exact(hourly'[h], contributed', h)
               /\ Covers(hourly'[h], contributed', unrecorded', h)
    <3>1. \A t \in TimesOf(h) : t \in Times /\ Hour(t) = h
      BY DEF TimesOf
    <3>2. CASE Outlived(h)
      <4>1. hourly'[h] = Empty /\ \A t \in TimesOf(h) : contributed'[t] = Empty
        BY <2>2, <3>1, <3>2
      <4>2. Exact(Empty, contributed', h)
        BY <2>2, <2>3, <4>1, EmptyHour
      <4>3. Covers(Empty, contributed', unrecorded', h)
        BY <4>1, RowFields DEF Covers
      <4> QED
        BY <4>1, <4>2, <4>3
    <3>3. CASE ~Outlived(h)
      <4>1. hourly'[h] = hourly[h] /\ \A t \in TimesOf(h) : contributed'[t] = contributed[t]
        BY <2>2, <3>1, <3>3
      <4>2. /\ Exact(hourly[h], contributed, h)
            /\ Covers(hourly[h], contributed, unrecorded, h)
        BY DEF HoursAgree
      <4>3. Exact(hourly[h], contributed', h)
        BY <4>1, <4>2, ExactFrame
      <4>4. Covers(hourly[h], contributed', unrecorded', h)
        BY <4>1, <4>2 DEF Covers
      <4> QED
        BY <4>1, <4>3, <4>4
    <3> QED
      BY <3>2, <3>3
  <2>5. HoursAgree'
    BY <2>4 DEF HoursAgree
  <2> QED
    BY <1>2, <2>2, <2>5
<1> QED
  BY <1>1, <1>2

\* A pruning keeps the rollups exact, with or without companion tables.
LEMMA PruneAllKeeps ==
  ASSUME Retention + HourLength <= RollupHours,
         GpuInv, PruneAll(companionTables), UNCHANGED companionTables
  PROVE  /\ raw' \in [Times -> Nat] /\ busyRow' \in [Times -> {NoRow, 0, 1}]
         /\ hourly' \in [Hours -> Rows] /\ contributed' \in [Times -> Rows]
         /\ retired' \in [Hours -> Nat] /\ cutoff' \in Int
         /\ SamplesAgree' /\ HoursAgree'
         /\ \A t \in Times : busyRow[t] = NoRow => busyRow'[t] = NoRow
         /\ \A t \in Times : contributed[t] = Empty => contributed'[t] = Empty
<1> USE DEF GpuInv
<1>1. PICK b : b = Boundary(now - Retention)
  OBVIOUS
<1>2. /\ b \in Int /\ now - Retention <= b /\ now \in Nat /\ Retention \in Nat
      /\ \A t \in Nat : t < cutoff => t < b
  <2>1. now \in Nat /\ Retention \in Nat /\ now - Retention \in Int
    BY TimesAssumption DEF GpuTypeOK
  <2> QED
    BY <1>1, <2>1, BoundaryBounds
<1>3. unrecorded' = unrecorded /\ PruneRollups
  BY DEF PruneAll
<1>4. /\ hourly' \in [Hours -> Rows] /\ contributed' \in [Times -> Rows] /\ HoursAgree'
      /\ \A t \in Times : contributed'[t] = IF rollupsOn /\ Outlived(Hour(t)) THEN Empty
                                            ELSE contributed[t]
  BY <1>3, PruneRollupsKeeps
<1>5. \A t \in Times : /\ contributed[t].samples = 0 => contributed[t] = Empty
                       /\ contributed[t] = Empty => contributed'[t] = Empty
                       /\ contributed'[t].samples = 0 => contributed'[t] = Empty
  BY <1>4 DEF SamplesAgree
<1>6. CASE companionTables
  <2>1. PruneGpu(b) /\ retired' = RetiredAfter(b)
    BY <1>1, <1>6 DEF PruneAll
  <2>2. /\ raw' \in [Times -> Nat] /\ busyRow' \in [Times -> {NoRow, 0, 1}]
        /\ cutoff' \in Int
        /\ \A t \in Times :
             /\ t < b => raw'[t] = 0 /\ busyRow'[t] = NoRow
             /\ Final(raw'[t], contributed[t], cutoff', t)
             /\ Recorded(raw'[t], busyRow'[t], contributed[t])
             /\ busyRow[t] = NoRow => busyRow'[t] = NoRow
             /\ \A m \in Nat :
                  /\ BorneOut(raw[t], retired[Hour(t)], contributed[t])
                  /\ Archived(Hour(t), b) <= m
                  => BorneOut(raw'[t], m, contributed[t])
    BY <1>2, <2>1, PruneGpuKeeps
  <2>3. /\ retired' \in [Hours -> Nat]
        /\ \A h \in Hours : /\ Archived(h, b) \in Nat
                            /\ retired'[h] = IF rollupsOn /\ Outlived(h) THEN 0
                                             ELSE Archived(h, b)
    <3>1. \A h \in Hours : Archived(h, b) \in Nat
      BY <1>2, ArchivedBounds
    <3> QED
      BY <2>1, <3>1 DEF RetiredAfter
  <2>4. ASSUME NEW t \in Times
        PROVE  /\ Final(raw'[t], contributed'[t], cutoff', t)
               /\ Recorded(raw'[t], busyRow'[t], contributed'[t])
               /\ t \notin unrecorded' =>
                    BorneOut(raw'[t], retired'[Hour(t)], contributed'[t])
    <3>1. CASE rollupsOn /\ Outlived(Hour(t))
      <4>1. t < now - Retention
        BY <1>2, <3>1, OutlivedExpired
      <4>2. t < b
        BY <1>2, <4>1, TimesAssumption
      <4>3. busyRow'[t] = NoRow /\ contributed'[t] = Empty /\ raw'[t] = 0
        BY <1>4, <2>2, <3>1, <4>2
      <4> QED
        BY <4>3, RowFields DEF Final, Recorded, BorneOut
    <3>2. CASE ~(rollupsOn /\ Outlived(Hour(t)))
      <4>1. contributed'[t] = contributed[t]
        BY <1>4, <3>2
      <4>2. ASSUME t \notin unrecorded'
            PROVE  BorneOut(raw'[t], retired'[Hour(t)], contributed'[t])
        <5>1. BorneOut(raw[t], retired[Hour(t)], contributed[t])
          BY <1>3, <1>6, <4>2 DEF SamplesAgree
        <5>2. retired'[Hour(t)] = Archived(Hour(t), b) /\ retired'[Hour(t)] \in Nat
          BY <2>3, <3>2, HourType
        <5>3. Archived(Hour(t), b) <= retired'[Hour(t)]
          BY <5>2
        <5> QED
          BY <2>2, <4>1, <5>1, <5>2, <5>3
      <4> QED
        BY <2>2, <4>1, <4>2
    <3> QED
      BY <3>1, <3>2
  <2>5. SamplesAgree'
    BY <1>5, <2>4 DEF SamplesAgree
  <2> QED
    BY <1>4, <1>5, <2>2, <2>3, <2>5
<1>7. CASE ~companionTables
  <2>1. Bootstrap(now - Retention) /\ retired' = retired
    BY <1>7 DEF PruneAll
  <2>2. ~rollupsOn /\ \A t \in Times : busyRow[t] = NoRow
    BY <1>7 DEF FlagsAgree, GpuTypeOK
  <2>3. busyRow' = busyRow
    BY <2>1 DEF Bootstrap
  <2>4. /\ raw' \in [Times -> Nat] /\ cutoff' \in Int
        /\ \A t \in Times : Final(raw'[t], contributed[t], cutoff', t)
    <3>1. CASE raw' = raw /\ cutoff' = cutoff
      BY <3>1 DEF GpuTypeOK, SamplesAgree
    <3>2. CASE /\ cutoff' = b
               /\ raw' = [t \in Times |-> IF t < b THEN 0 ELSE raw[t]]
      <4>1. raw' \in [Times -> Nat]
        BY <3>2 DEF GpuTypeOK
      <4>2. ASSUME NEW t \in Times PROVE Final(raw'[t], contributed[t], b, t)
        <5>1. t \in Nat /\ Final(raw[t], contributed[t], cutoff, t)
          BY TimesAssumption DEF SamplesAgree
        <5>2. t < cutoff => t < b
          BY <1>2, <5>1
        <5> QED
          BY <3>2, <5>1, <5>2 DEF Final
      <4> QED
        BY <1>2, <3>2, <4>1, <4>2
    <3> QED
      BY <1>1, <2>1, <3>1, <3>2 DEF Bootstrap
  <2>5. \A t \in Times : contributed'[t] = contributed[t]
    BY <1>4, <2>2
  <2>6. SamplesAgree'
    BY <1>5, <1>7, <2>2, <2>3, <2>4, <2>5 DEF SamplesAgree, Recorded
  <2> QED
    BY <1>4, <1>5, <2>1, <2>3, <2>4, <2>6 DEF GpuTypeOK
<1> QED
  BY <1>6, <1>7

-------------------------------------------------------------------------------
(* The start *)

\* The first pruning of a start, with the tables it finds.
LEMMA StartPruneAgrees ==
  Retention + HourLength <= RollupHours /\ GpuInv /\ StartPrune => GpuInv'
<1> SUFFICES ASSUME Retention + HourLength <= RollupHours, GpuInv, StartPrune
             PROVE  GpuInv'
  OBVIOUS
<1> USE DEF GpuInv
<1>1. /\ phase = "schema" /\ phase' = "pruned" /\ companionsOn' = companionTables
      /\ PruneAll(companionTables) /\ companionTables' = companionTables
      /\ now' = now /\ threshold' = threshold /\ rollupsOn' = rollupsOn
      /\ hourlyTable' = hourlyTable
  BY DEF StartPrune, gpuConfig
<1>2. /\ raw' \in [Times -> Nat] /\ busyRow' \in [Times -> {NoRow, 0, 1}]
      /\ hourly' \in [Hours -> Rows] /\ contributed' \in [Times -> Rows]
      /\ retired' \in [Hours -> Nat] /\ cutoff' \in Int
      /\ SamplesAgree' /\ HoursAgree'
      /\ \A t \in Times : busyRow[t] = NoRow => busyRow'[t] = NoRow
      /\ \A t \in Times : contributed[t] = Empty => contributed'[t] = Empty
  BY <1>1, PruneAllKeeps
<1>3. GpuTypeOK'
  BY <1>1, <1>2 DEF GpuTypeOK
<1>4. FlagsAgree'
  BY <1>1, <1>2 DEF FlagsAgree
<1> QED
  BY <1>2, <1>3, <1>4

\* The prunings of the running backend.
LEMMA RunningPruneAgrees ==
  Retention + HourLength <= RollupHours /\ GpuInv /\ RunningPrune => GpuInv'
<1> SUFFICES ASSUME Retention + HourLength <= RollupHours, GpuInv, RunningPrune
             PROVE  GpuInv'
  OBVIOUS
<1> USE DEF GpuInv
<1>1. /\ phase = "running" /\ phase' = phase /\ companionsOn' = companionsOn
      /\ PruneAll(companionsOn) /\ companionTables' = companionTables
      /\ now' = now /\ threshold' = threshold /\ rollupsOn' = rollupsOn
      /\ hourlyTable' = hourlyTable
  BY DEF RunningPrune, gpuConfig, gpuFlags
<1>2. companionsOn = companionTables
  BY <1>1 DEF FlagsAgree
<1>3. /\ raw' \in [Times -> Nat] /\ busyRow' \in [Times -> {NoRow, 0, 1}]
      /\ hourly' \in [Hours -> Rows] /\ contributed' \in [Times -> Rows]
      /\ retired' \in [Hours -> Nat] /\ cutoff' \in Int
      /\ SamplesAgree' /\ HoursAgree'
      /\ \A t \in Times : busyRow[t] = NoRow => busyRow'[t] = NoRow
      /\ \A t \in Times : contributed[t] = Empty => contributed'[t] = Empty
  BY <1>1, <1>2, PruneAllKeeps
<1>4. GpuTypeOK'
  BY <1>1, <1>3 DEF GpuTypeOK
<1>5. FlagsAgree'
  BY <1>1, <1>3 DEF FlagsAgree
<1> QED
  BY <1>3, <1>4, <1>5

\* The migration takes the maxima over from the rollups that stood before the
\* companion tables: from then on they bear the old samples out.
LEMMA MigrateAgrees == GpuInv /\ MigrateCompanions => GpuInv'
<1> SUFFICES ASSUME GpuInv, MigrateCompanions PROVE GpuInv'
  OBVIOUS
<1> USE DEF GpuInv
<1>1. /\ phase = "pruned" /\ phase' = "companions"
      /\ now' = now /\ threshold' = threshold /\ rollupsOn' = rollupsOn
      /\ hourlyTable' = hourlyTable /\ hourly' = hourly
      /\ contributed' = contributed /\ unrecorded' = unrecorded
  BY DEF MigrateCompanions, gpuConfig, observed
<1>2. HoursAgree'
  BY <1>1 DEF HoursAgree
<1>3. CASE /\ companionsOn' = companionTables
           /\ UNCHANGED <<cutoff, raw, busyRow, retired, companionTables>>
  <2>1. GpuTypeOK'
    BY <1>1, <1>3 DEF GpuTypeOK
  <2>2. FlagsAgree'
    BY <1>1, <1>3 DEF FlagsAgree
  <2>3. SamplesAgree'
    BY <1>1, <1>3 DEF SamplesAgree
  <2> QED
    BY <1>2, <2>1, <2>2, <2>3
<1>4. CASE ~ /\ companionsOn' = companionTables
             /\ UNCHANGED <<cutoff, raw, busyRow, retired, companionTables>>
  <2>1. PICK b : b = Boundary(now - Retention)
    OBVIOUS
  <2>2. PICK floor : floor = [h \in Hours |->
          IF ~companionTables /\ hourlyTable THEN hourly[h].max ELSE retired[h]]
    OBVIOUS
  <2>3. /\ PruneGpu(b) /\ companionTables' = TRUE /\ companionsOn' = TRUE
        /\ retired' = [h \in Hours |-> Largest({floor[h], Archived(h, b)})]
    BY <1>4, <2>1, <2>2 DEF MigrateCompanions
  <2>4. /\ b \in Int
        /\ \A t \in Nat : t < cutoff => t < b
    <3>1. now - Retention \in Int
      BY TimesAssumption DEF GpuTypeOK
    <3> QED
      BY <2>1, <3>1, BoundaryBounds
  <2>5. /\ raw' \in [Times -> Nat] /\ busyRow' \in [Times -> {NoRow, 0, 1}]
        /\ cutoff' \in Int
        /\ \A t \in Times :
             /\ t < b => raw'[t] = 0 /\ busyRow'[t] = NoRow
             /\ Final(raw'[t], contributed[t], cutoff', t)
             /\ Recorded(raw'[t], busyRow'[t], contributed[t])
             /\ busyRow[t] = NoRow => busyRow'[t] = NoRow
             /\ \A m \in Nat :
                  /\ BorneOut(raw[t], retired[Hour(t)], contributed[t])
                  /\ Archived(Hour(t), b) <= m
                  => BorneOut(raw'[t], m, contributed[t])
    BY <2>3, <2>4, PruneGpuKeeps
  <2>6. /\ retired' \in [Hours -> Nat]
        /\ \A h \in Hours : /\ floor[h] \in Nat /\ floor[h] <= retired'[h]
                            /\ Archived(h, b) <= retired'[h]
    <3>1. ASSUME NEW h \in Hours
          PROVE  /\ floor[h] \in Nat /\ Archived(h, b) \in Nat
                 /\ Largest({floor[h], Archived(h, b)}) \in Nat
                 /\ floor[h] <= Largest({floor[h], Archived(h, b)})
                 /\ Archived(h, b) <= Largest({floor[h], Archived(h, b)})
      <4>1. hourly[h] \in Rows /\ retired[h] \in Nat
        BY DEF GpuTypeOK
      <4>2. floor[h] \in Nat
        BY <2>2, <4>1, RowFields
      <4>3. Archived(h, b) \in Nat
        BY <2>4, ArchivedBounds
      <4>4. /\ Largest({floor[h], Archived(h, b)}) \in {floor[h], Archived(h, b)}
            /\ floor[h] <= Largest({floor[h], Archived(h, b)})
            /\ Archived(h, b) <= Largest({floor[h], Archived(h, b)})
        BY <4>2, <4>3, LargestOfTwo
      <4>5. Largest({floor[h], Archived(h, b)}) \in Nat
        BY <4>2, <4>3, <4>4
      <4> QED
        BY <4>2, <4>3, <4>4, <4>5
    <3> QED
      BY <2>3, <3>1
  <2>7. GpuTypeOK'
    BY <1>1, <2>3, <2>5, <2>6 DEF GpuTypeOK
  <2>8. FlagsAgree'
    BY <1>1, <2>3 DEF FlagsAgree
  <2>9. ASSUME NEW t \in Times, t \notin unrecorded
        PROVE  BorneOut(raw'[t], retired'[Hour(t)], contributed[t])
    <3>1. /\ Hour(t) \in Hours /\ t \in TimesOf(Hour(t)) \ unrecorded
          /\ contributed[t] \in Rows /\ raw'[t] \in Nat /\ retired'[Hour(t)] \in Nat
      BY <2>5, <2>6, <2>9, HourType DEF GpuTypeOK
    <3>2. CASE companionTables
      <4>1. BorneOut(raw[t], retired[Hour(t)], contributed[t])
        BY <2>9, <3>2 DEF SamplesAgree
      <4> QED
        BY <2>5, <2>6, <3>1, <4>1
    <3>3. CASE ~companionTables /\ hourlyTable
      <4>1. hourly[Hour(t)].max >= contributed[t].max
        BY <3>1 DEF HoursAgree, Covers
      <4>2. floor[Hour(t)] = hourly[Hour(t)].max
        BY <2>2, <3>1, <3>3
      <4>3. contributed[t].max \in Nat
        BY <3>1, RowFields
      <4> QED
        BY <2>6, <3>1, <4>1, <4>2, <4>3 DEF BorneOut
    <3>4. CASE ~hourlyTable
      <4>1. contributed[t].max = 0
        BY <3>4, RowFields DEF FlagsAgree
      <4> QED
        BY <3>1, <4>1 DEF BorneOut
    <3> QED
      BY <3>2, <3>3, <3>4
  <2>10. SamplesAgree'
    BY <1>1, <2>5, <2>9 DEF SamplesAgree
  <2> QED
    BY <1>2, <2>7, <2>8, <2>10
<1> QED
  BY <1>3, <1>4

\* The backfill aggregates the hours that no sample was counted in.
LEMMA EnsureAgrees == GpuInv /\ EnsureRollups => GpuInv'
<1> SUFFICES ASSUME GpuInv, EnsureRollups PROVE GpuInv'
  OBVIOUS
<1> USE DEF GpuInv
<1>1. /\ phase = "companions" /\ phase' = "running"
      /\ now' = now /\ threshold' = threshold /\ companionsOn' = companionsOn
      /\ raw' = raw /\ busyRow' = busyRow /\ companionTables' = companionTables
      /\ retired' = retired /\ cutoff' = cutoff /\ unrecorded' = unrecorded
  BY DEF EnsureRollups, gpuConfig
<1>2. CASE rollupsOn' = FALSE /\ UNCHANGED <<hourlyTable, hourly, contributed>>
  <2>1. GpuTypeOK'
    BY <1>1, <1>2 DEF GpuTypeOK
  <2>2. FlagsAgree'
    BY <1>1, <1>2 DEF FlagsAgree
  <2>3. SamplesAgree' /\ HoursAgree'
    BY <1>1, <1>2 DEF SamplesAgree, HoursAgree
  <2> QED
    BY <2>1, <2>2, <2>3
<1>3. CASE ~(rollupsOn' = FALSE /\ UNCHANGED <<hourlyTable, hourly, contributed>>)
  <2>1. /\ companionsOn /\ rollupsOn' = TRUE /\ hourlyTable' = TRUE
        /\ hourly' = [h \in Hours |-> IF Unseen(h) THEN Aggregate(RawContributions, h)
                                                   ELSE hourly[h]]
        /\ contributed' = [t \in Times |-> IF Unseen(Hour(t)) /\ raw[t] # 0
                                           THEN RawContributions[t] ELSE contributed[t]]
    BY <1>3 DEF EnsureRollups
  <2>2. /\ RawContributions \in [Times -> Rows]
        /\ \A t \in Times :
             /\ raw[t] = 0 => RawContributions[t] = Empty
             /\ raw[t] # 0 => /\ RawContributions[t].samples = 1
                              /\ RawContributions[t].max = raw[t]
    BY RawContributionsType DEF GpuTypeOK
  <2>3. ASSUME NEW t \in Times, Unseen(Hour(t))
        PROVE  contributed[t] = Empty /\ contributed'[t] = RawContributions[t]
    <3>1. hourly[Hour(t)] = Empty /\ Hour(t) \in Hours /\ t \in TimesOf(Hour(t))
      BY <2>3, HourType DEF Unseen
    <3>2. Exact(Empty, contributed, Hour(t))
      BY <3>1 DEF HoursAgree
    <3>3. contributed[t] = Empty
      <4>1. contributed \in [Times -> Rows]
            /\ \A u \in Times : contributed[u].samples = 0 => contributed[u] = Empty
        BY DEF GpuTypeOK, SamplesAgree
      <4> QED
        BY <3>1, <3>2, <4>1, EmptyHour
    <3> QED
      BY <2>1, <2>2, <2>3, <3>3
  <2>4. ASSUME NEW t \in Times, ~Unseen(Hour(t))
        PROVE  contributed'[t] = contributed[t]
    BY <2>1, <2>4
  <2>5. /\ hourly' \in [Hours -> Rows] /\ contributed' \in [Times -> Rows]
    <3>1. \A h \in Hours : Aggregate(RawContributions, h) \in Rows
      BY <2>2, AggregateExact
    <3> QED
      BY <2>1, <2>2, <3>1 DEF GpuTypeOK
  <2>6. GpuTypeOK'
    BY <1>1, <2>1, <2>5 DEF GpuTypeOK
  <2>7. FlagsAgree'
    BY <1>1, <2>1 DEF FlagsAgree
  <2>8. ASSUME NEW t \in Times
        PROVE  /\ contributed'[t].samples = 0 => contributed'[t] = Empty
               /\ Final(raw'[t], contributed'[t], cutoff', t)
               /\ Recorded(raw'[t], busyRow'[t], contributed'[t])
               /\ companionTables' /\ t \notin unrecorded' =>
                    BorneOut(raw'[t], retired'[Hour(t)], contributed'[t])
    <3>1. CASE Unseen(Hour(t))
      <4>1. contributed[t] = Empty /\ contributed'[t] = RawContributions[t]
        BY <2>3, <3>1
      <4>2. busyRow[t] = NoRow
        <5>1. Recorded(raw[t], busyRow[t], Empty) /\ busyRow[t] \in {NoRow, 0, 1}
              /\ raw[t] \in Nat
          BY <4>1 DEF SamplesAgree, GpuTypeOK
        <5> QED
          BY <5>1, RowFields DEF Recorded
      <4>3. raw[t] \in Nat /\ retired[Hour(t)] \in Nat
        BY HourType DEF GpuTypeOK
      <4>4. CASE raw[t] = 0
        BY <1>1, <2>2, <4>1, <4>2, <4>3, <4>4, RowFields DEF Final, Recorded, BorneOut
      <4>5. CASE raw[t] # 0
        BY <1>1, <2>2, <4>1, <4>2, <4>3, <4>5 DEF Final, Recorded, BorneOut
      <4> QED
        BY <4>4, <4>5
    <3>2. CASE ~Unseen(Hour(t))
      <4>1. contributed'[t] = contributed[t]
        BY <2>4, <3>2
      <4> QED
        BY <1>1, <4>1 DEF SamplesAgree
    <3> QED
      BY <3>1, <3>2
  <2>9. SamplesAgree'
    BY <2>8 DEF SamplesAgree
  <2>10. ASSUME NEW h \in Hours
         PROVE  /\ Exact(hourly'[h], contributed', h)
                /\ Covers(hourly'[h], contributed', unrecorded', h)
    <3>1. \A t \in TimesOf(h) : t \in Times /\ Hour(t) = h
      BY DEF TimesOf
    <3>2. CASE Unseen(h)
      <4>1. /\ hourly'[h] = Aggregate(RawContributions, h)
            /\ \A t \in TimesOf(h) : contributed'[t] = RawContributions[t]
        BY <2>1, <2>3, <3>1, <3>2
      <4>2. /\ Exact(hourly'[h], RawContributions, h)
            /\ Covers(hourly'[h], RawContributions, unrecorded', h)
        BY <2>2, <4>1, AggregateExact
      <4>3. Exact(hourly'[h], contributed', h)
        BY <4>1, <4>2, ExactFrame
      <4> QED
        BY <4>1, <4>2, <4>3 DEF Covers
    <3>3. CASE ~Unseen(h)
      <4>1. /\ hourly'[h] = hourly[h]
            /\ \A t \in TimesOf(h) : contributed'[t] = contributed[t]
        BY <2>1, <2>4, <3>1, <3>3
      <4>2. /\ Exact(hourly'[h], contributed, h)
            /\ Covers(hourly'[h], contributed, unrecorded, h)
        BY <4>1 DEF HoursAgree
      <4>3. Exact(hourly'[h], contributed', h)
        BY <4>1, <4>2, ExactFrame
      <4> QED
        BY <1>1, <4>1, <4>2, <4>3 DEF Covers
    <3> QED
      BY <3>2, <3>3
  <2>11. HoursAgree'
    BY <2>10 DEF HoursAgree
  <2> QED
    BY <2>6, <2>7, <2>9, <2>11
<1> QED
  BY <1>2, <1>3

-------------------------------------------------------------------------------
(* A sample *)

\* The maximum recomputed for an hour covers its raw rows and what expired.
LEMMA KeptBounds ==
  ASSUME NEW h, NEW r \in [Times -> Nat], NEW m \in Nat
  PROVE  LET kept == {r[u] : u \in TimesOf(h)} \cup {m}
         IN  /\ Largest(kept) \in Nat /\ m <= Largest(kept)
             /\ \A u \in TimesOf(h) : r[u] <= Largest(kept)
<1>1. PICK f : f = [u \in TimesOf(h) |-> r[u]]
  OBVIOUS
<1>2. PICK S : S = {r[u] : u \in TimesOf(h)}
  OBVIOUS
<1>3. S \in SUBSET Nat
  BY <1>2, TimesFinite
<1>4. IsFiniteSet(S)
  <2>1. DOMAIN f = TimesOf(h) /\ S = {f[u] : u \in TimesOf(h)}
    BY <1>1, <1>2
  <2>2. IsFiniteSet({f[u] : u \in TimesOf(h)})
    BY <2>1, TimesFinite, ImageFinite
  <2> QED
    BY <2>1, <2>2
<1>5. PICK K : K = S \cup {m}
  OBVIOUS
<1>6. IsFiniteSet(K) /\ K \in SUBSET Nat /\ K \in SUBSET Int /\ K # {}
  <2>1. IsFiniteSet(S \cup {m})
    BY <1>4, FS_AddElement
  <2> QED
    BY <1>3, <1>5, <2>1
<1>7. Largest(K) \in K /\ \A y \in K : y <= Largest(K)
  BY <1>6, LargestBounds
<1>8. Largest(K) \in Nat
  BY <1>6, <1>7
<1>9. m \in K /\ \A u \in TimesOf(h) : r[u] \in K
  BY <1>2, <1>5
<1>10. {r[u] : u \in TimesOf(h)} \cup {m} = K
  BY <1>2, <1>5
<1> QED
  BY <1>7, <1>8, <1>9, <1>10

\* What write_gpu_points makes of the row of an hour, in either of its ways.
LEMMA StoredRow ==
  ASSUME GpuInv, NEW t \in Times, NEW v \in Nat \ {0},
         Store(t, v), ~(raw[t] # 0 /\ busyRow[t] = NoRow),
         raw[t] = 0 => contributed[t] = Empty
  PROVE  LET c == contributed[t]
             row == hourly[Hour(t)]
             new == hourly'[Hour(t)]
         IN  /\ hourly' = [hourly EXCEPT ![Hour(t)] = new]
             /\ new.samples = row.samples - c.samples + 1
             /\ new.busy = row.busy - c.busy + IsBusy(v)
             /\ new.sum = row.sum - c.sum + v
             /\ new = [samples |-> new.samples, busy |-> new.busy,
                       sum |-> new.sum, max |-> new.max]
             /\ new.max \in Nat /\ new.max >= v
             /\ \A u \in TimesOf(Hour(t)) \ {t} :
                  \/ new.max >= row.max
                  \/ new.max >= raw[u] /\ new.max >= retired[Hour(t)]
<1> USE DEF GpuInv
<1>1. PICK h : h = Hour(t)
  OBVIOUS
<1>2. /\ h \in Hours /\ t \in TimesOf(h) /\ hourly[h] \in Rows /\ contributed[t] \in Rows
      /\ retired[h] \in Nat /\ raw[t] \in Nat /\ busyRow[t] \in {NoRow, 0, 1}
  BY <1>1, HourType DEF GpuTypeOK
<1>3. /\ hourly[h].samples \in Nat /\ hourly[h].busy \in Nat /\ hourly[h].sum \in Nat
      /\ hourly[h].max \in Nat
      /\ contributed[t].samples \in Nat /\ contributed[t].busy \in Nat
      /\ contributed[t].sum \in Nat
  BY <1>2, RowFields
<1>4. PICK row : row = hourly[h]
  OBVIOUS
<1>5. IsBusy(v) \in {0, 1} /\ v \in Nat /\ v \in Int
  BY DEF IsBusy
<1>6. /\ Contribution(v, IsBusy(v)).samples = 1
      /\ Contribution(v, IsBusy(v)).busy = IsBusy(v)
      /\ Contribution(v, IsBusy(v)).sum = v /\ Contribution(v, IsBusy(v)).max = v
  BY <1>5, RowFields
<1>7. raw' = [raw EXCEPT ![t] = v]
  BY DEF Store
<1>8. CASE raw[t] = 0
  <2>1. Replaced(t) = row
    BY <1>1, <1>4, <1>8 DEF Replaced
  <2>2. hourly' = [hourly EXCEPT ![h] = Added(row, Contribution(v, IsBusy(v)))]
    BY <1>1, <1>8, <2>1 DEF Store
  <2>3. Added(row, Contribution(v, IsBusy(v))) =
          [samples |-> row.samples + 1, busy |-> row.busy + IsBusy(v),
           sum |-> row.sum + v, max |-> Largest({row.max, v})]
    BY <1>6 DEF Added
  <2>4. PICK m : m = Largest({row.max, v})
    OBVIOUS
  <2>5. m \in Nat /\ m >= v /\ m >= row.max
    <3>1. row.max \in Nat /\ row.max \in Int
      BY <1>3, <1>4
    <3>2. m \in {row.max, v} /\ row.max <= m /\ v <= m
      BY <1>5, <2>4, <3>1, LargestOfTwo
    <3> QED
      BY <1>5, <3>1, <3>2
  <2>6. hourly'[h] = [samples |-> row.samples + 1, busy |-> row.busy + IsBusy(v),
                      sum |-> row.sum + v, max |-> m]
    BY <1>2, <2>2, <2>3, <2>4 DEF GpuTypeOK
  <2>7. hourly' = [hourly EXCEPT ![h] = hourly'[h]]
    BY <1>2, <2>2 DEF GpuTypeOK
  <2>8. contributed[t].samples = 0 /\ contributed[t].busy = 0 /\ contributed[t].sum = 0
    BY <1>8, RowFields
  <2>9. /\ hourly'[h].samples = row.samples + 1 /\ hourly'[h].busy = row.busy + IsBusy(v)
        /\ hourly'[h].sum = row.sum + v /\ hourly'[h].max = m
        /\ hourly'[h] = [samples |-> hourly'[h].samples, busy |-> hourly'[h].busy,
                         sum |-> hourly'[h].sum, max |-> hourly'[h].max]
    BY <2>6
  <2>10. /\ hourly'[h].samples = row.samples - contributed[t].samples + 1
         /\ hourly'[h].busy = row.busy - contributed[t].busy + IsBusy(v)
         /\ hourly'[h].sum = row.sum - contributed[t].sum + v
    BY <1>3, <1>4, <1>5, <2>8, <2>9
  <2> QED
    BY <1>1, <1>4, <2>5, <2>7, <2>9, <2>10
<1>9. CASE raw[t] # 0
  <2>1. /\ busyRow[t] \in {0, 1}
        /\ contributed[t] = Contribution(raw[t], busyRow[t])
    BY <1>2, <1>9 DEF SamplesAgree, Recorded
  <2>2. /\ contributed[t].samples = 1 /\ contributed[t].busy = busyRow[t]
        /\ contributed[t].sum = raw[t]
    BY <1>2, <2>1, RowFields
  <2>3. row # Empty
    <3>1. SamplesOf(contributed, h) # 0
      <4>1. contributed \in [Times -> Rows]
        BY DEF GpuTypeOK
      <4> QED
        BY <1>2, <2>2, <4>1, TimesFinite, CountsType, TotalZero DEF SamplesOf
    <3>2. row.samples = SamplesOf(contributed, h)
      BY <1>2, <1>4 DEF HoursAgree, Exact
    <3> QED
      BY <3>1, <3>2, RowFields
  <2>4. Replaced(t) = [row EXCEPT !.samples = @ - 1, !.busy = @ - busyRow[t],
                                  !.sum = @ - raw[t]]
    BY <1>1, <1>4, <1>9, <2>3 DEF Replaced, Subtracted
  <2>5. row = [samples |-> row.samples, busy |-> row.busy, sum |-> row.sum, max |-> row.max]
    BY <1>2, <1>4 DEF Rows
  <2>6. /\ Replaced(t).samples = row.samples - 1
        /\ Replaced(t).busy = row.busy - busyRow[t]
        /\ Replaced(t).sum = row.sum - raw[t]
    BY <2>4, <2>5
  <2>7. PICK m : m = Largest({raw'[u] : u \in TimesOf(h)} \cup {retired[h]})
    OBVIOUS
  <2>8. raw' \in [Times -> Nat] /\ raw'[t] = v /\ \A u \in Times \ {t} : raw'[u] = raw[u]
    BY <1>5, <1>7 DEF GpuTypeOK
  <2>9. /\ m \in Nat /\ retired[h] <= m
        /\ \A u \in TimesOf(h) : raw'[u] <= m
    <3>1. PICK r : r = raw'
      OBVIOUS
    <3>2. r \in [Times -> Nat] /\ m = Largest({r[u] : u \in TimesOf(h)} \cup {retired[h]})
      BY <2>7, <2>8, <3>1
    <3> QED
      BY <1>2, <3>1, <3>2, KeptBounds
  <2>10. hourly' = [hourly EXCEPT ![h] =
           [Added(Replaced(t), Contribution(v, IsBusy(v))) EXCEPT !.max = m]]
    BY <1>1, <1>9, <2>7 DEF Store
  <2>11. [Added(Replaced(t), Contribution(v, IsBusy(v))) EXCEPT !.max = m] =
           [samples |-> row.samples - 1 + 1, busy |-> row.busy - busyRow[t] + IsBusy(v),
            sum |-> row.sum - raw[t] + v, max |-> m]
    BY <1>6, <2>6 DEF Added
  <2>12. hourly'[h] = [samples |-> row.samples - 1 + 1,
                       busy |-> row.busy - busyRow[t] + IsBusy(v),
                       sum |-> row.sum - raw[t] + v, max |-> m]
    BY <1>2, <2>10, <2>11 DEF GpuTypeOK
  <2>13. hourly' = [hourly EXCEPT ![h] = hourly'[h]]
    BY <1>2, <2>10 DEF GpuTypeOK
  <2>14. /\ hourly'[h].samples = row.samples - contributed[t].samples + 1
         /\ hourly'[h].busy = row.busy - contributed[t].busy + IsBusy(v)
         /\ hourly'[h].sum = row.sum - contributed[t].sum + v /\ hourly'[h].max = m
         /\ hourly'[h] = [samples |-> hourly'[h].samples, busy |-> hourly'[h].busy,
                          sum |-> hourly'[h].sum, max |-> hourly'[h].max]
    BY <2>2, <2>12
  <2>15. /\ m >= v
         /\ \A u \in TimesOf(h) \ {t} : m >= raw[u] /\ m >= retired[h]
    <3>1. m >= v
      BY <1>2, <1>5, <2>8, <2>9
    <3>2. ASSUME NEW u \in TimesOf(h) \ {t} PROVE m >= raw[u] /\ m >= retired[h]
      <4>1. u \in Times /\ raw'[u] = raw[u] /\ raw[u] \in Nat
        BY <2>8, TimesFinite DEF GpuTypeOK
      <4>2. raw[u] <= m
        BY <2>9, <4>1
      <4> QED
        BY <1>2, <2>9, <4>1, <4>2
    <3> QED
      BY <3>1, <3>2
  <2> QED
    BY <1>1, <1>4, <2>9, <2>13, <2>14, <2>15
<1> QED
  BY <1>8, <1>9

\* A sample of a batch that commits: dropped, stored over a legacy row, counted
\* for the first time, or counted in the place of the one before.
LEMMA WriteAgrees ==
  ASSUME NEW t \in Times, NEW v \in Values
  PROVE  GpuInv /\ WriteSample(t, v) => GpuInv'
<1> SUFFICES ASSUME GpuInv, WriteSample(t, v) PROVE GpuInv'
  OBVIOUS
<1> USE DEF GpuInv
<1>1. /\ phase' = phase /\ now' = now /\ threshold' = threshold
      /\ companionsOn' = companionsOn /\ rollupsOn' = rollupsOn
      /\ hourlyTable' = hourlyTable /\ companionTables' = companionTables
      /\ retired' = retired /\ phase = "running" /\ companionsOn /\ rollupsOn
      /\ cutoff' = Boundary(now - Retention)
  BY DEF WriteSample, gpuConfig, gpuFlags
<1>2. companionTables /\ hourlyTable
  BY <1>1 DEF FlagsAgree
<1>3. /\ cutoff' \in Int /\ \A u \in Nat : u < cutoff => u < cutoff'
  <2>1. now - Retention \in Int
    BY TimesAssumption DEF GpuTypeOK
  <2> QED
    BY <1>1, <2>1, BoundaryBounds
<1>4. \A u \in Times : Final(raw[u], contributed[u], cutoff', u)
  BY <1>3, TimesAssumption DEF SamplesAgree, Final
<1>5. CASE t < Boundary(now - Retention)
  <2>1. /\ raw' = raw /\ busyRow' = busyRow /\ hourly' = hourly
        /\ contributed' = contributed /\ unrecorded' = unrecorded
    BY <1>5 DEF WriteSample, observed
  <2>2. GpuTypeOK' /\ FlagsAgree'
    BY <1>1, <1>3, <2>1 DEF GpuTypeOK, FlagsAgree
  <2>3. SamplesAgree'
    BY <1>1, <1>4, <2>1 DEF SamplesAgree
  <2>4. HoursAgree'
    BY <2>1 DEF HoursAgree
  <2> QED
    BY <2>2, <2>3, <2>4
<1>6. CASE ~(t < Boundary(now - Retention))
  <2>1. Store(t, v)
    BY <1>6 DEF WriteSample
  <2>2. v \in Nat \ {0} /\ v \in Nat /\ t \in Nat
    BY ValuesAssumption, TimesAssumption
  <2>3. /\ raw' = [raw EXCEPT ![t] = v] /\ raw' \in [Times -> Nat] /\ raw'[t] = v
        /\ \A u \in Times \ {t} : raw'[u] = raw[u]
    BY <2>1, <2>2 DEF Store, GpuTypeOK
  <2>4. CASE raw[t] # 0 /\ busyRow[t] = NoRow
    <3>1. /\ busyRow' = busyRow /\ hourly' = hourly /\ contributed' = contributed
          /\ unrecorded' = unrecorded \cup {t}
      BY <2>1, <2>4 DEF Store
    <3>2. GpuTypeOK' /\ FlagsAgree'
      BY <1>1, <1>3, <2>3, <3>1 DEF GpuTypeOK, FlagsAgree
    <3>3. ASSUME NEW u \in Times
          PROVE  /\ contributed'[u].samples = 0 => contributed'[u] = Empty
                 /\ Final(raw'[u], contributed'[u], cutoff', u)
                 /\ Recorded(raw'[u], busyRow'[u], contributed'[u])
                 /\ companionTables' /\ u \notin unrecorded' =>
                      BorneOut(raw'[u], retired'[Hour(u)], contributed'[u])
      <4>1. CASE u = t
        BY <2>2, <2>3, <2>4, <3>1, <4>1 DEF SamplesAgree, Final, Recorded
      <4>2. CASE u # t
        BY <1>1, <1>4, <2>3, <3>1, <4>2 DEF SamplesAgree
      <4> QED
        BY <4>1, <4>2
    <3>4. SamplesAgree'
      BY <3>3 DEF SamplesAgree
    <3>5. HoursAgree'
      BY <3>1 DEF HoursAgree, Covers
    <3> QED
      BY <3>2, <3>4, <3>5
  <2>5. CASE ~(raw[t] # 0 /\ busyRow[t] = NoRow)
    <3>1. PICK h : h = Hour(t)
      OBVIOUS
    <3>2. PICK c : c = Contribution(v, IsBusy(v))
      OBVIOUS
    <3>3. PICK new : new = hourly'[h]
      OBVIOUS
    <3>4. /\ busyRow' = [busyRow EXCEPT ![t] = IsBusy(v)]
          /\ contributed' = [contributed EXCEPT ![t] = c]
          /\ unrecorded' = unrecorded
      BY <2>1, <2>5, <3>2 DEF Store
    <3>5. /\ IsBusy(v) \in {0, 1} /\ c \in Rows /\ c.samples = 1 /\ c.busy = IsBusy(v)
          /\ c.sum = v /\ c.max = v
      <4>1. IsBusy(v) \in {0, 1}
        BY DEF IsBusy
      <4> QED
        BY <2>2, <3>2, <4>1, RowFields
    <3>6. /\ contributed' \in [Times -> Rows] /\ contributed'[t] = c
          /\ \A u \in Times \ {t} : contributed'[u] = contributed[u]
          /\ busyRow' \in [Times -> {NoRow, 0, 1}] /\ busyRow'[t] = IsBusy(v)
          /\ \A u \in Times \ {t} : busyRow'[u] = busyRow[u]
      BY <3>4, <3>5 DEF GpuTypeOK
    <3>7. raw[t] = 0 => contributed[t] = Empty
      BY <1>1, <1>4, <1>6, <2>2 DEF Final
    <3>8. /\ hourly' = [hourly EXCEPT ![h] = new]
          /\ new.samples = hourly[h].samples - contributed[t].samples + 1
          /\ new.busy = hourly[h].busy - contributed[t].busy + IsBusy(v)
          /\ new.sum = hourly[h].sum - contributed[t].sum + v
          /\ new = [samples |-> new.samples, busy |-> new.busy,
                    sum |-> new.sum, max |-> new.max]
          /\ new.max \in Nat /\ new.max >= v
          /\ \A u \in TimesOf(h) \ {t} : \/ new.max >= hourly[h].max
                                         \/ new.max >= raw[u] /\ new.max >= retired[h]
      BY <2>1, <2>2, <2>5, <3>1, <3>3, <3>7, StoredRow
    <3>9. h \in Hours /\ t \in TimesOf(h) /\ contributed \in [Times -> Rows]
      BY <3>1, HourType DEF GpuTypeOK
    <3>10. Exact(new, contributed', h)
      <4>1. PICK d : d = contributed'
        OBVIOUS
      <4>2. d \in [Times -> Rows] /\ d[t] = c
            /\ \A u \in TimesOf(h) \ {t} : d[u] = contributed[u]
        BY <3>6, <4>1, TimesFinite
      <4>3. /\ SamplesOf(d, h) = SamplesOf(contributed, h) - contributed[t].samples + d[t].samples
            /\ BusyOf(d, h) = BusyOf(contributed, h) - contributed[t].busy + d[t].busy
            /\ SumOf(d, h) = SumOf(contributed, h) - contributed[t].sum + d[t].sum
        BY <3>9, <4>2, ExactChange
      <4>4. Exact(hourly[h], contributed, h)
        BY <3>9 DEF HoursAgree
      <4>5. Exact(new, d, h)
        BY <3>5, <3>8, <4>2, <4>3, <4>4 DEF Exact
      <4> QED
        BY <4>1, <4>5
    <3>11. new \in Rows
      <4>1. /\ SamplesOf(contributed', h) \in Nat /\ BusyOf(contributed', h) \in Nat
            /\ SumOf(contributed', h) \in Nat
        BY <3>6, TimesFinite, CountsType, TotalNat DEF SamplesOf, BusyOf, SumOf
      <4> QED
        BY <3>8, <3>10, <4>1 DEF Exact, Rows
    <3>12. /\ hourly' \in [Hours -> Rows]
           /\ \A k \in Hours \ {h} : hourly'[k] = hourly[k]
      BY <3>8, <3>9, <3>11 DEF GpuTypeOK
    <3>13. GpuTypeOK' /\ FlagsAgree'
      BY <1>1, <1>2, <1>3, <2>3, <3>6, <3>12 DEF GpuTypeOK, FlagsAgree
    <3>14. ASSUME NEW u \in Times
           PROVE  /\ contributed'[u].samples = 0 => contributed'[u] = Empty
                  /\ Final(raw'[u], contributed'[u], cutoff', u)
                  /\ Recorded(raw'[u], busyRow'[u], contributed'[u])
                  /\ companionTables' /\ u \notin unrecorded' =>
                       BorneOut(raw'[u], retired'[Hour(u)], contributed'[u])
      <4>1. CASE u = t
        BY <2>2, <2>3, <3>2, <3>5, <3>6, <4>1 DEF Final, Recorded, BorneOut
      <4>2. CASE u # t
        BY <1>1, <1>4, <2>3, <3>4, <3>6, <4>2 DEF SamplesAgree
      <4> QED
        BY <4>1, <4>2
    <3>15. SamplesAgree'
      BY <3>14 DEF SamplesAgree
    <3>16. ASSUME NEW k \in Hours
           PROVE  /\ Exact(hourly'[k], contributed', k)
                  /\ Covers(hourly'[k], contributed', unrecorded', k)
      <4>1. /\ Exact(hourly[k], contributed, k)
            /\ Covers(hourly[k], contributed, unrecorded, k)
        BY DEF HoursAgree
      <4>2. CASE k = h
        <5>1. ASSUME NEW u \in TimesOf(h) \ unrecorded
              PROVE  new.max >= contributed'[u].max
          <6>1. CASE u = t
            BY <3>5, <3>6, <3>8, <6>1
          <6>2. CASE u # t
            <7>1. /\ u \in Times /\ Hour(u) = h /\ contributed'[u] = contributed[u]
                  /\ contributed[u].max \in Nat /\ raw[u] \in Nat /\ retired[h] \in Nat
                  /\ hourly[h].max \in Nat
              <8>1. u \in Times /\ Hour(u) = h
                BY DEF TimesOf
              <8> QED
                BY <3>6, <3>9, <6>2, <8>1, RowFields DEF GpuTypeOK
            <7>2. hourly[h].max >= contributed[u].max
              BY <4>1, <4>2 DEF Covers
            <7>3. contributed[u].max <= raw[u] \/ contributed[u].max <= retired[h]
              BY <1>2, <7>1 DEF SamplesAgree, BorneOut
            <7>4. \/ new.max >= hourly[h].max
                  \/ new.max >= raw[u] /\ new.max >= retired[h]
              BY <3>8, <6>2
            <7>5. new.max \in Nat
              BY <3>8
            <7> QED
              BY <7>1, <7>2, <7>3, <7>4, <7>5
          <6> QED
            BY <6>1, <6>2
        <5> QED
          BY <3>3, <3>4, <3>10, <4>2, <5>1 DEF Covers
      <4>3. CASE k # h
        <5>1. \A u \in TimesOf(k) : contributed'[u] = contributed[u]
          BY <3>1, <3>6, <4>3 DEF TimesOf
        <5>2. hourly'[k] = hourly[k]
          BY <3>12, <4>3
        <5>3. Exact(hourly[k], contributed', k)
          BY <4>1, <5>1, ExactFrame
        <5> QED
          BY <3>4, <4>1, <5>1, <5>2, <5>3 DEF Covers
      <4> QED
        BY <4>2, <4>3
    <3>17. HoursAgree'
      BY <3>16 DEF HoursAgree
    <3> QED
      BY <3>13, <3>15, <3>17
  <2> QED
    BY <2>4, <2>5
<1> QED
  BY <1>5, <1>6

-------------------------------------------------------------------------------

\* Every step keeps the invariant.
LEMMA StepAgrees ==
  Retention + HourLength <= RollupHours /\ GpuInv /\ [GpuNext]_gpuVars => GpuInv'
<1> SUFFICES ASSUME Retention + HourLength <= RollupHours, GpuInv, [GpuNext]_gpuVars
             PROVE  GpuInv'
  OBVIOUS
<1>1. ASSUME NEW t \in Clock, SetClock(t) PROVE GpuInv'
  <2>1. now' \in Nat
    BY <1>1, TimesAssumption DEF SetClock
  <2> QED
    BY <1>1, <2>1 DEF SetClock, GpuInv, GpuTypeOK, FlagsAgree, SamplesAgree, HoursAgree,
                      gpuFlags, gpuTables, observed
<1>2. ASSUME NEW pct \in Thresholds, OpenSchema(pct) PROVE GpuInv'
  <2>1. threshold' \in Nat
    BY <1>2, ValuesAssumption DEF OpenSchema
  <2> QED
    BY <1>2, <2>1 DEF OpenSchema, GpuInv, GpuTypeOK, FlagsAgree, SamplesAgree, HoursAgree,
                      gpuFlags, gpuTables, observed
<1>3. CASE Down
  BY <1>3 DEF Down, GpuInv, GpuTypeOK, FlagsAgree, SamplesAgree, HoursAgree,
              gpuConfig, gpuTables, observed
<1>4. ASSUME NEW t \in Times, NEW v \in Values, WriteSample(t, v) PROVE GpuInv'
  BY <1>4, WriteAgrees
<1>5. CASE UNCHANGED gpuVars
  BY <1>5 DEF gpuVars, GpuInv, GpuTypeOK, FlagsAgree, SamplesAgree, HoursAgree,
              gpuConfig, gpuFlags, gpuTables, observed
<1> QED
  BY <1>1, <1>2, <1>3, <1>4, <1>5, StartPruneAgrees, RunningPruneAgrees, MigrateAgrees,
     EnsureAgrees DEF GpuNext

\* Every hourly rollup is the aggregate of what its samples last contributed,
\* and its maximum covers them (write_gpu_points, prune_gpu, ensure_rollups),
\* for all sample times, values, thresholds and clocks.  The hypothesis is that
\* an hour's rollup outlives its samples: the defaults are 168 hours of samples
\* and 2160 of rollups.
THEOREM RollupsAreExact ==
  ASSUME Retention + HourLength <= RollupHours
  PROVE  GpuSpec => []RollupExact
<1>1. GpuInit => GpuInv
  BY InitAgrees
<1>2. GpuInv /\ [GpuNext]_gpuVars => GpuInv'
  BY StepAgrees
<1>3. GpuInv => RollupExact
  BY HoursAgreeRollup DEF GpuInv
<1> QED
  BY <1>1, <1>2, <1>3, PTL DEF GpuSpec

===============================================================================
