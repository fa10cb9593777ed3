---------------------------- MODULE IncidentProofs -----------------------------
(*****************************************************************************)
(* Proofs about the incident tracker, for every policy and every set of      *)
(* samples, in any order and at any times, whatever the write queue drops    *)
(* and whenever the process restarts or the host is removed: its maps agree, *)
(* conditions open, change and resolve only when confirmed, and the history  *)
(* database holds what a restart has to resume.                              *)
(*****************************************************************************)
EXTENDS IncidentTracker, FiniteSetTheorems, TLAPS

-------------------------------------------------------------------------------
(* Readings and streaks *)

\* A numeric value gives at most one condition.
LEMMA NumericType ==
  ASSUME NEW value \in Nat, NEW line \in Nat
  PROVE  Numeric(value, line) \in SUBSET Condition /\ Single(Numeric(value, line))
BY PolicyAssumption DEF Numeric, Condition, Single, Severities

\* So does an immediate one.
LEMMA ImmediateType ==
  ASSUME NEW severity \in Severities
  PROVE  Immediate(severity) \in SUBSET Condition /\ Single(Immediate(severity))
BY DEF Immediate, Condition, Single, NoLine

\* A sample shows at most one condition under a key.
LEMMA ReadingType ==
  ASSUME NEW s \in Samples, NEW k \in Keys
  PROVE  Reading(s, k) \in SUBSET Condition /\ Single(Reading(s, k))
<1> DEFINE Fine(S) == S \in SUBSET Condition /\ Single(S)
<1>1. s \in Sample
  BY TrackerAssumption
<1>2. /\ s.system \in SUBSET [cpu : SUBSET Nat, disk : Nat, starved : BOOLEAN]
      /\ s.temperature \in [Gpus -> SUBSET Nat]
      /\ Single(s.system) /\ \A sys \in s.system : Single(sys.cpu)
      /\ \A g \in Gpus : Single(s.temperature[g])
  BY <1>1 DEF Sample
<1>3. /\ k[1] \in HostCategories \cup {"gpu_temperature"}
      /\ k[1] = "gpu_temperature" => k[2] \in Gpus
  BY DEF Keys, HostCategories
<1>4. Fine({}) /\ Fine(Immediate("critical")) /\ Fine(Immediate("warning"))
  BY ImmediateType DEF Single, Severities
<1>5. CASE k[1] = "connectivity"
  BY <1>4, <1>5 DEF Reading
<1>6. CASE k[1] = "gpu_availability"
  BY <1>4, <1>6 DEF Reading
<1>7. CASE k[1] = "gpu_count"
  BY <1>4, <1>7 DEF Reading
<1>8. CASE k[1] = "cpu"
  <2> DEFINE Of(sys) == UNION {Numeric(v, Critical) : v \in sys.cpu}
  <2>1. \A sys \in s.system : \A v \in sys.cpu : Fine(Numeric(v, Critical))
    BY <1>2, NumericType, PolicyAssumption
  <2>2. \A sys \in s.system : Fine(Of(sys))
    BY <1>2, <2>1 DEF Single
  <2>3. Fine(UNION {Of(sys) : sys \in s.system})
    <3> HIDE DEF Of
    <3> QED BY <1>2, <2>2 DEF Single
  <2>4. Reading(s, k) = UNION {Of(sys) : sys \in s.system}
    BY <1>8 DEF Reading
  <2> QED BY <2>3, <2>4
<1>9. CASE k[1] = "disk"
  <2> DEFINE Of(sys) == Numeric(sys.disk, IF sys.starved THEN 0 ELSE Critical)
  <2>1. \A sys \in s.system : Fine(Of(sys))
    BY <1>2, NumericType, PolicyAssumption
  <2>2. Fine(UNION {Of(sys) : sys \in s.system})
    <3> HIDE DEF Of
    <3> QED BY <1>2, <2>1 DEF Single
  <2>3. Reading(s, k) = UNION {Of(sys) : sys \in s.system}
    BY <1>9 DEF Reading
  <2> QED BY <2>2, <2>3
<1>10. CASE k[1] = "gpu_temperature"
  <2> DEFINE T == s.temperature[k[2]]
  <2>1. T \in SUBSET Nat /\ Single(T)
    BY <1>2, <1>3, <1>10
  <2>2. \A v \in T : Fine(Numeric(v, Critical))
    BY <2>1, NumericType, PolicyAssumption
  <2>3. Fine(UNION {Numeric(v, Critical) : v \in T})
    BY <2>1, <2>2 DEF Single
  <2>4. Reading(s, k) = IF k[2] \in s.gpus THEN UNION {Numeric(v, Critical) : v \in T}
                                           ELSE {}
    BY <1>10 DEF Reading
  <2> QED BY <1>4, <2>3, <2>4
<1> QED
  BY <1>3, <1>5, <1>6, <1>7, <1>8, <1>9, <1>10 DEF HostCategories

\* A streak that is continued is one streak, of the severity that continues it.
LEMMA ExtendType ==
  ASSUME NEW p \in SUBSET Pending, Single(p), NEW c \in Condition, NEW at \in Nat
  PROVE  /\ Extend(p, c, at) \in SUBSET Pending /\ Single(Extend(p, c, at))
         /\ \A q \in Extend(p, c, at) : q.severity = c.severity
<1> DEFINE same == {q \in p : q.severity = c.severity}
<1>1. CASE same = {}
  BY <1>1 DEF Extend, Pending, Condition, Single
<1>2. CASE same # {}
  <2>1. PICK q \in p : same = {q} /\ q.severity = c.severity
    BY <1>2 DEF Single
  <2>2. Extend(p, c, at) = {[q EXCEPT !.count = IF @ < c.cycles THEN @ + 1 ELSE @]}
    BY <1>2, <2>1 DEF Extend
  <2>3. q \in Pending /\ c.cycles \in Nat
    BY <2>1 DEF Condition
  <2> QED BY <2>1, <2>2, <2>3 DEF Pending, Single
<1> QED BY <1>1, <1>2

\* The streaks that a sample continues under a key are one at most.
LEMMA StreakType ==
  ASSUME NEW s \in Samples, NEW k \in Keys, NEW p \in SUBSET Pending, Single(p)
  PROVE  LET S == UNION {Extend(p, c, s.at) : c \in Reading(s, k)}
         IN /\ S \in SUBSET Pending /\ Single(S)
            /\ \A q \in S : \E c \in Reading(s, k) : q.severity = c.severity
<1>1. s.at \in Nat
  BY TrackerAssumption DEF Sample
<1>2. Reading(s, k) \in SUBSET Condition /\ Single(Reading(s, k))
  BY ReadingType
<1>3. \A c \in Reading(s, k) :
        /\ Extend(p, c, s.at) \in SUBSET Pending /\ Single(Extend(p, c, s.at))
        /\ \A q \in Extend(p, c, s.at) : q.severity = c.severity
  BY <1>1, <1>2, ExtendType
<1> QED BY <1>2, <1>3 DEF Single

-------------------------------------------------------------------------------
(* One sample *)

\* The sets of keys that a sample divides the conditions into: what opens was not
\* open, what changes, holds or clears was.
LEMMA KeySets ==
  ASSUME NEW s \in Samples
  PROVE  /\ Opening(s) \subseteq Confirming(s)
         /\ Confirming(s) \subseteq Seen(s) \ OpenKeys
         /\ Steady(s) \subseteq OpenKeys \cap Seen(s)
         /\ Changing(s) \subseteq (OpenKeys \cap Seen(s)) \ Steady(s)
         /\ Changed(s) \subseteq Changing(s)
         /\ Clearing(s) \subseteq OpenKeys \ Seen(s)
         /\ Resolved(s) \subseteq Clearing(s)
         /\ Seen(s) \subseteq Keys /\ OpenKeys \subseteq Keys
BY DEF Opening, Confirming, Seen, OpenKeys, Steady, Changing, Changed, Clearing,
       Resolved

\* What the database and the queue say of a condition is one state, too.
HistoryAgrees ==
  /\ \A k \in Keys : Single(saved[k].open)
  /\ \A i \in 1 .. Len(incidentQueue) : \A k \in Keys : Single(incidentQueue[i].active[k])

\* The inductive invariant: a restart makes the database's word the tracker's.
TrackerInv == TrackerAgrees /\ HistoryAgrees

\* A sample keeps the open conditions well typed, one state to a key.
LEMMA UpdateActive ==
  ASSUME TrackerInv, NEW s \in Samples, Update(s)
  PROVE  active' \in [Keys -> SUBSET OpenCondition] /\ \A k \in Keys : Single(active'[k])
<1> DEFINE
      New(k) == {[severity |-> c.severity, line |-> c.line] : c \in Reading(s, k)}
      Held(k) == {[a EXCEPT !.line = c.line] : a \in active[k], c \in Reading(s, k)}
<1>1. \A k \in Keys : /\ active[k] \in SUBSET OpenCondition /\ Single(active[k])
                      /\ Reading(s, k) \in SUBSET Condition /\ Single(Reading(s, k))
  BY ReadingType DEF TrackerInv, TrackerAgrees, TrackerTypeOK
<1>2. \A k \in Keys : New(k) \in SUBSET OpenCondition /\ Single(New(k))
  BY <1>1 DEF OpenCondition, Condition, Single
<1>3. \A k \in Keys : Held(k) \in SUBSET OpenCondition /\ Single(Held(k))
  BY <1>1 DEF OpenCondition, Condition, Single
<1>4. active' = [k \in Keys |->
         IF k \in Opening(s) \cup Changed(s) THEN New(k)
         ELSE IF k \in Steady(s) THEN Held(k)
         ELSE IF k \in Resolved(s) THEN {} ELSE active[k]]
  BY DEF Update
<1>5. Single({})
  BY DEF Single
<1> HIDE DEF New, Held
<1> QED BY <1>1, <1>2, <1>3, <1>4, <1>5

\* A sample keeps the streaks well typed, one to a key.
LEMMA UpdateStreaks ==
  ASSUME TrackerInv, NEW s \in Samples, Update(s)
  PROVE  /\ candidates' \in [Keys -> SUBSET Pending]
         /\ changes' \in [Keys -> SUBSET Pending]
         /\ \A k \in Keys : Single(candidates'[k]) /\ Single(changes'[k])
         /\ \A k \in Keys : \A q \in changes'[k] :
              \E c \in Reading(s, k) : q.severity = c.severity
<1> DEFINE On(p, k) == UNION {Extend(p, c, s.at) : c \in Reading(s, k)}
<1>1. \A k \in Keys : /\ candidates[k] \in SUBSET Pending /\ Single(candidates[k])
                      /\ changes[k] \in SUBSET Pending /\ Single(changes[k])
  BY DEF TrackerInv, TrackerAgrees, TrackerTypeOK
<1>2. \A k \in Keys :
        /\ On(candidates[k], k) \in SUBSET Pending /\ Single(On(candidates[k], k))
        /\ On(changes[k], k) \in SUBSET Pending /\ Single(On(changes[k], k))
        /\ \A q \in On(changes[k], k) : \E c \in Reading(s, k) : q.severity = c.severity
  BY <1>1, StreakType
<1>3. candidates' = [k \in Keys |-> IF k \in Confirming(s) \ Opening(s)
                                    THEN On(candidates[k], k) ELSE {}]
  BY DEF Update
<1>4. changes' = [k \in Keys |-> IF k \in Changing(s) \ Changed(s)
                                 THEN On(changes[k], k) ELSE {}]
  BY DEF Update
<1>5. Single({})
  BY DEF Single
<1> HIDE DEF On
<1> QED BY <1>2, <1>3, <1>4, <1>5

\* A sample keeps counts and times natural, and the counts below their limit.
LEMMA UpdateCounts ==
  ASSUME TrackerInv, NEW s \in Samples, Update(s)
  PROVE  /\ recoveries' \in [Keys -> Nat] /\ openedAt' \in [Keys -> Nat]
         /\ \A k \in Keys : recoveries'[k] > 0 =>
              /\ k \notin Seen(s) /\ recoveries'[k] < RecoveryCycles
              /\ active[k] # {} /\ k \notin Resolved(s)
<1>1. s.at \in Nat
  BY TrackerAssumption DEF Sample
<1>2. /\ recoveries \in [Keys -> Nat] /\ openedAt \in [Keys -> Nat]
      /\ \A k \in Keys : recoveries[k] > 0 =>
           active[k] # {} /\ recoveries[k] < RecoveryCycles
  BY DEF TrackerInv, TrackerAgrees, TrackerTypeOK
<1>3. recoveries' = [k \in Keys |->
         IF k \in Seen(s) \cup Resolved(s) THEN 0
         ELSE IF k \in Clearing(s) THEN recoveries[k] + 1 ELSE recoveries[k]]
  BY DEF Update
<1>4. openedAt' = [k \in Keys |-> IF k \in Opening(s) THEN s.at
                                  ELSE IF k \in Resolved(s) THEN 0 ELSE openedAt[k]]
  BY DEF Update
<1>5. /\ RecoveryCycles \in Nat
      /\ \A k \in Clearing(s) \ Resolved(s) : ~(recoveries[k] + 1 >= RecoveryCycles)
      /\ Clearing(s) \subseteq OpenKeys
  BY PolicyAssumption, KeySets DEF Resolved
<1>6. \A k \in OpenKeys : active[k] # {}
  BY DEF OpenKeys
<1> QED BY <1>1, <1>2, <1>3, <1>4, <1>5, <1>6

\* A sample hands the writer items that are well typed, one state to a key.
LEMMA UpdateQueue ==
  ASSUME TrackerInv, NEW s \in Samples, Update(s)
  PROVE  /\ incidentQueue' \in Seq(Item) /\ incidentsLost' \in BOOLEAN
         /\ \A i \in 1 .. Len(incidentQueue') : \A k \in Keys : Single(incidentQueue'[i].active[k])
<1> DEFINE item == [opened |-> Opening(s), changed |-> Changed(s),
                    resolved |-> Resolved(s), active |-> active', at |-> s.at]
<1>1. item \in Item /\ \A k \in Keys : Single(item.active[k])
  <2>1. s.at \in Nat
    BY TrackerAssumption DEF Sample
  <2>2. /\ Opening(s) \subseteq Keys /\ Changed(s) \subseteq Keys
        /\ Resolved(s) \subseteq Keys
    BY KeySets
  <2> QED BY <2>1, <2>2, UpdateActive DEF Item
<1>2. Enqueue(item)
  BY DEF Update
<1>3. \/ UNCHANGED incidentQueue /\ incidentsLost' \in {incidentsLost, TRUE}
      \/ incidentQueue' = Append(incidentQueue, item) /\ UNCHANGED incidentsLost
  BY <1>2 DEF Enqueue
<1>4. /\ incidentQueue \in Seq(Item) /\ incidentsLost \in BOOLEAN
      /\ \A i \in 1 .. Len(incidentQueue) : \A k \in Keys : Single(incidentQueue[i].active[k])
  BY DEF TrackerInv, TrackerAgrees, TrackerTypeOK, HistoryAgrees
<1> HIDE DEF item
<1>5. CASE UNCHANGED incidentQueue
  BY <1>3, <1>4, <1>5
<1>6. CASE incidentQueue' = Append(incidentQueue, item) /\ UNCHANGED incidentsLost
  BY <1>1, <1>4, <1>6
<1> QED BY <1>3, <1>5, <1>6

\* The agreement of the maps after a sample.
LEMMA UpdateAgrees ==
  ASSUME TrackerInv, NEW s \in Samples, Update(s), NEW k \in Keys
  PROVE  /\ candidates'[k] # {} => active'[k] = {}
         /\ changes'[k] # {} => active'[k] # {} /\ recoveries'[k] = 0
         /\ \A p \in changes'[k], a \in active'[k] : p.severity # a.severity
         /\ recoveries'[k] > 0 => active'[k] # {} /\ recoveries'[k] < RecoveryCycles
<1>1. /\ candidates'[k] # {} => k \in Confirming(s) \ Opening(s)
      /\ changes'[k] # {} => k \in Changing(s) \ Changed(s)
      /\ k \in Seen(s) => recoveries'[k] = 0
  BY DEF Update
<1>2. k \notin Opening(s) \cup Changed(s) \cup Steady(s) \cup Resolved(s)
        => active'[k] = active[k]
  BY DEF Update
<1>3. active[k] # {} <=> k \in OpenKeys
  BY DEF OpenKeys
<1>4. CASE candidates'[k] # {}
  <2>1. active'[k] = {}
    BY <1>1, <1>2, <1>3, <1>4, KeySets
  <2>2. changes'[k] = {} /\ k \in Seen(s)
    BY <1>1, <1>4, KeySets
  <2> QED BY <1>1, <2>1, <2>2, UpdateCounts
<1>5. CASE changes'[k] # {}
  <2>1. active'[k] = active[k] /\ active[k] # {} /\ k \in Seen(s) /\ k \notin Steady(s)
    BY <1>1, <1>2, <1>3, <1>5, KeySets
  <2>2. ASSUME NEW p \in changes'[k], NEW a \in active'[k] PROVE p.severity # a.severity
    BY <1>3, <2>1, <2>2, UpdateStreaks DEF Steady
  <2> QED BY <1>1, <1>4, <2>1, <2>2, UpdateCounts
<1>6. CASE recoveries'[k] > 0
  <2>1. k \notin Seen(s) /\ k \notin Resolved(s) /\ active[k] # {}
    BY <1>6, UpdateCounts
  <2>2. active'[k] = active[k]
    BY <1>2, <2>1, KeySets
  <2> QED BY <1>4, <1>5, <1>6, <2>1, <2>2, UpdateCounts
<1> QED BY <1>4, <1>5, <1>6

\* A sample keeps the invariant.
LEMMA UpdateInv ==
  ASSUME TrackerInv, NEW s \in Samples, Update(s)
  PROVE  TrackerInv'
<1>1. /\ UNCHANGED <<saved, restarts, removals>>
      /\ orphans' = orphans \ Opening(s)
  BY DEF Update
<1>2. recent' \in Seq(Samples)
  <2>1. recent \in Seq(Samples)
    BY DEF TrackerInv, TrackerAgrees, TrackerTypeOK
  <2>2. Append(recent, s) \in Seq(Samples) /\ Append(recent, s) # <<>>
    BY <2>1
  <2>3. recent' \in {Append(recent, s), Tail(Append(recent, s))}
    BY DEF Update
  <2> QED BY <2>2, <2>3
<1>3. TrackerTypeOK'
  BY <1>1, <1>2, UpdateActive, UpdateStreaks, UpdateCounts, UpdateQueue
     DEF TrackerInv, TrackerAgrees, TrackerTypeOK
<1>4. TrackerAgrees'
  BY <1>3, UpdateActive, UpdateStreaks, UpdateAgrees DEF TrackerAgrees
<1>5. HistoryAgrees'
  BY <1>1, UpdateQueue DEF TrackerInv, HistoryAgrees
<1> QED BY <1>4, <1>5 DEF TrackerInv

-------------------------------------------------------------------------------
(* Writer, restart and removal *)

\* What an item leaves open is well typed, one state to a key.
LEMMA StoredType ==
  ASSUME TrackerInv, NEW item \in Item, \A k \in Keys : Single(item.active[k]),
         NEW k \in Keys
  PROVE  Stored(item, k) \in SUBSET OpenCondition /\ Single(Stored(item, k))
<1> DEFINE Moved == {[q EXCEPT !.line = a.line] : q \in saved[k].open, a \in item.active[k]}
<1>1. /\ item.active[k] \in SUBSET OpenCondition /\ Single(item.active[k])
      /\ saved[k].open \in SUBSET OpenCondition /\ Single(saved[k].open)
  BY DEF TrackerInv, TrackerAgrees, HistoryAgrees, TrackerTypeOK, Item
<1>2. Moved \in SUBSET OpenCondition /\ Single(Moved)
  BY <1>1 DEF OpenCondition, Single
<1>3. Stored(item, k) \in {{}, item.active[k], saved[k].open, Moved}
  BY DEF Stored
<1>4. Single({})
  BY DEF Single
<1> HIDE DEF Moved
<1> QED BY <1>1, <1>2, <1>3, <1>4

\* The writer keeps the invariant.
LEMMA CommitInv ==
  ASSUME TrackerInv, CommitIncident
  PROVE  TrackerInv'
<1> DEFINE item == Head(incidentQueue)
<1>1. incidentQueue \in Seq(Item) /\ incidentQueue # <<>>
  BY DEF TrackerInv, TrackerAgrees, TrackerTypeOK, CommitIncident
<1>2. item \in Item /\ \A k \in Keys : Single(item.active[k])
  BY <1>1 DEF TrackerInv, HistoryAgrees
<1>3. saved \in [Keys -> [open : SUBSET OpenCondition, opened : SUBSET Nat, last : Nat]]
  BY DEF TrackerInv, TrackerAgrees, TrackerTypeOK
<1>4. item.at \in Nat
  BY <1>2 DEF Item
<1>5. /\ saved' = [k \in Keys |->
           [open   |-> Stored(item, k),
            opened |-> IF k \in item.opened THEN {item.at} ELSE saved[k].opened,
            last   |-> IF k \in Transitions(item) THEN item.at ELSE saved[k].last]]
      /\ incidentQueue' = Tail(incidentQueue)
      /\ UNCHANGED <<trackerVars, incidentsLost, ghostVars, restarts, removals>>
  BY DEF CommitIncident
<1> HIDE DEF item
<1>6. /\ saved' \in [Keys -> [open : SUBSET OpenCondition, opened : SUBSET Nat, last : Nat]]
      /\ \A k \in Keys : Single(saved'[k].open)
  BY <1>2, <1>3, <1>4, <1>5, StoredType
<1>7. /\ incidentQueue' \in Seq(Item)
      /\ \A i \in 1 .. Len(incidentQueue') : \A k \in Keys : Single(incidentQueue'[i].active[k])
  BY <1>1, <1>5 DEF TrackerInv, HistoryAgrees
<1>8. TrackerAgrees'
  BY <1>5, <1>6, <1>7 DEF TrackerInv, TrackerAgrees, TrackerTypeOK, trackerVars, ghostVars
<1> QED BY <1>6, <1>7, <1>8 DEF TrackerInv, HistoryAgrees

\* A restart resumes from what the database says.
LEMMA RestartInv ==
  ASSUME TrackerInv, Restart
  PROVE  TrackerInv'
<1>1. saved \in [Keys -> [open : SUBSET OpenCondition, opened : SUBSET Nat, last : Nat]]
  BY DEF TrackerInv, TrackerAgrees, TrackerTypeOK
<1>2. \A k \in Keys : RestoredAt(k) \in Nat
  BY <1>1 DEF RestoredAt
<1>3. /\ active' \in [Keys -> SUBSET OpenCondition] /\ \A k \in Keys : Single(active'[k])
      /\ openedAt' \in [Keys -> Nat]
  BY <1>1, <1>2 DEF Restart, TrackerInv, HistoryAgrees
<1>4. /\ candidates' = [k \in Keys |-> {}] /\ changes' = [k \in Keys |-> {}]
      /\ recoveries' = [k \in Keys |-> 0] /\ recent' = <<>> /\ incidentQueue' = <<>>
      /\ incidentsLost' = FALSE /\ orphans' = {} /\ saved' = saved
      /\ restarts' \in Nat /\ removals' \in Nat
  BY DEF Restart, Fresh, TrackerInv, TrackerAgrees, TrackerTypeOK
<1>5. TrackerTypeOK'
  <2>1. incidentQueue' \in Seq(Item) /\ recent' \in Seq(Samples)
    BY <1>4
  <2>2. /\ candidates' \in [Keys -> SUBSET Pending] /\ changes' \in [Keys -> SUBSET Pending]
        /\ recoveries' \in [Keys -> Nat]
    BY <1>4
  <2>3. incidentsLost' \in BOOLEAN /\ orphans' \in SUBSET Keys
    BY <1>4
  <2> QED BY <1>1, <1>3, <1>4, <2>1, <2>2, <2>3 DEF TrackerTypeOK
<1>6. TrackerAgrees'
  BY <1>3, <1>4, <1>5 DEF TrackerAgrees, Single
<1>7. HistoryAgrees'
  BY DEF Restart, TrackerInv, HistoryAgrees
<1> QED BY <1>6, <1>7 DEF TrackerInv

\* A removal forgets the host.
LEMMA RemoveInv ==
  ASSUME TrackerInv, RemoveHost
  PROVE  TrackerInv'
<1>1. /\ active' = [k \in Keys |-> {}] /\ openedAt' = [k \in Keys |-> 0]
      /\ candidates' = [k \in Keys |-> {}] /\ changes' = [k \in Keys |-> {}]
      /\ recoveries' = [k \in Keys |-> 0] /\ recent' = <<>>
      /\ UNCHANGED <<incidentQueue, incidentsLost, saved>> /\ orphans' \in SUBSET Keys
      /\ restarts' \in Nat /\ removals' \in Nat
  BY DEF RemoveHost, Fresh, historyVars, OpenKeys, TrackerInv, TrackerAgrees, TrackerTypeOK
<1>2. TrackerTypeOK'
  BY <1>1 DEF TrackerInv, TrackerAgrees, TrackerTypeOK
<1>3. TrackerAgrees'
  BY <1>1, <1>2 DEF TrackerAgrees, Single
<1>4. HistoryAgrees'
  BY DEF RemoveHost, historyVars, TrackerInv, HistoryAgrees
<1> QED BY <1>3, <1>4 DEF TrackerInv

-------------------------------------------------------------------------------
(* The maps *)

\* A tracker without a past has nothing open.
LEMMA TrackerInvInit == TrackerInit => TrackerInv
<1> SUFFICES ASSUME TrackerInit PROVE TrackerInv
  OBVIOUS
<1>1. NoHistory \in [open : SUBSET OpenCondition, opened : SUBSET Nat, last : Nat]
  BY DEF NoHistory
<1>2. TrackerTypeOK
  <2>1. incidentQueue \in Seq(Item) /\ recent \in Seq(Samples)
    BY DEF TrackerInit
  <2>2. incidentsLost \in BOOLEAN
    BY DEF TrackerInit
  <2>3. /\ active \in [Keys -> SUBSET OpenCondition] /\ openedAt \in [Keys -> Nat]
        /\ candidates \in [Keys -> SUBSET Pending] /\ changes \in [Keys -> SUBSET Pending]
        /\ recoveries \in [Keys -> Nat]
    BY DEF TrackerInit
  <2>4. /\ saved \in [Keys -> [open : SUBSET OpenCondition, opened : SUBSET Nat, last : Nat]]
        /\ orphans \in SUBSET Keys /\ restarts \in Nat /\ removals \in Nat
    BY <1>1 DEF TrackerInit
  <2> QED BY <2>1, <2>2, <2>3, <2>4 DEF TrackerTypeOK
<1>3. TrackerAgrees
  BY <1>2 DEF TrackerInit, TrackerAgrees, Single
<1>4. HistoryAgrees
  BY DEF TrackerInit, HistoryAgrees, NoHistory, Single
<1> QED BY <1>3, <1>4 DEF TrackerInv

\* Every step keeps the invariant of the maps.
LEMMA TrackerStep == TrackerInv /\ [TrackerNext]_incidentVars => TrackerInv'
<1> SUFFICES ASSUME TrackerInv, [TrackerNext]_incidentVars PROVE TrackerInv'
  OBVIOUS
<1>1. CASE UNCHANGED incidentVars
  BY <1>1 DEF incidentVars, trackerVars, historyVars, ghostVars, TrackerInv, TrackerAgrees,
              TrackerTypeOK, HistoryAgrees
<1> QED BY <1>1, UpdateInv, CommitInv, RestartInv, RemoveInv DEF TrackerNext

\* The maps of the tracker are well typed and agree with each other in every
\* reachable state: what is open is not being opened, no pending severity is the one
\* held, no recovery outlives its limit (IncidentTracker.update, remove_hosts,
\* restore).
THEOREM TrackerMapsAgree == TrackerSpec => []TrackerAgrees
<1>1. TrackerInv => TrackerAgrees
  BY DEF TrackerInv
<1> QED BY <1>1, TrackerInvInit, TrackerStep, PTL DEF TrackerSpec

-------------------------------------------------------------------------------
(* Recoveries *)

\* `recent` after sample s
Remembered(r, s) ==
  IF Len(Append(r, s)) > Window THEN Tail(Append(r, s)) ELSE Append(r, s)

\* the samples in r that showed condition k, and those after all of them that
\* speak for it and are not older than its opening
ShownAt(r, k) == {i \in 1 .. Len(r) : Reading(r[i], k) # {}}
Healthy(s, k, at) == Speaks(s, k) /\ s.at >= at
HealthyAt(r, k, at) ==
  {i \in 1 .. Len(r) : Healthy(r[i], k, at) /\ \A j \in ShownAt(r, k) : j < i}

\* An online sample that does not show a condition and has every telemetry
\* domain of it, or whose complete inventory no longer lists its GPU, says that
\* the condition is gone (telemetry_unknown, condition_domains).
LEMMA KnownSpeaks ==
  ASSUME NEW s \in Samples, NEW k \in Keys,
         Online(s), Reading(s, k) = {}, ~TelemetryUnknown(s, k)
  PROVE  Speaks(s, k)
<1>1. /\ k[1] \in HostCategories \cup {"gpu_temperature"}
      /\ k[1] = "gpu_temperature" => k[2] \in Gpus
  BY DEF Keys, HostCategories
<1>2. s \in Sample
  BY TrackerAssumption
<1>3. ~s.query => s.gpus = {}
  BY <1>2 DEF Sample
<1> DEFINE O == Observed(s)
<1>4. /\ <<"gpu_query", "host">> \in O => s.query
      /\ <<"gpu_inventory", "host">> \in O => s.query
      /\ <<"system", "host">> \in O => s.system # {}
      /\ <<"system_cpu", "host">> \in O => \E sys \in s.system : sys.cpu # {}
      /\ \A g \in Gpus : <<"gpu_present", g>> \in O <=> g \in s.gpus
      /\ \A g \in Gpus : <<"gpu_temperature", g>> \in O =>
           g \in s.gpus /\ s.temperature[g] # {}
  <2> DEFINE A == {<<"system", "host">> : sys \in s.system}
             B == {<<"system_cpu", "host">> : sys \in {sys \in s.system : sys.cpu # {}}}
             C == IF s.query THEN {<<"gpu_query", "host">>, <<"gpu_inventory", "host">>}
                             ELSE {}
             D == {"gpu_present"} \X s.gpus
             E == {"gpu_temperature"} \X {g \in s.gpus : s.temperature[g] # {}}
  <2>1. \A d \in A : d[1] = "system" /\ s.system # {}
    OBVIOUS
  <2>2. \A d \in B : d[1] = "system_cpu" /\ \E sys \in s.system : sys.cpu # {}
    OBVIOUS
  <2>3. \A d \in C : d[1] \in {"gpu_query", "gpu_inventory"} /\ s.query
    OBVIOUS
  <2>4. /\ \A d \in D : d[1] = "gpu_present" /\ d[2] \in s.gpus
        /\ \A g \in s.gpus : <<"gpu_present", g>> \in D
    OBVIOUS
  <2>5. \A d \in E : /\ d[1] = "gpu_temperature" /\ d[2] \in s.gpus
                     /\ s.temperature[d[2]] # {}
    OBVIOUS
  <2>6. O = A \cup B \cup C \cup D \cup E
    BY DEF Observed
  <2> HIDE DEF A, B, C, D, E, O
  <2>7. ASSUME NEW d \in O
        PROVE
          /\ d[1] \in {"gpu_query", "gpu_inventory"} => s.query
          /\ d[1] = "system" => s.system # {}
          /\ d[1] = "system_cpu" => \E sys \in s.system : sys.cpu # {}
          /\ d[1] = "gpu_present" => d[2] \in s.gpus
          /\ d[1] = "gpu_temperature" => d[2] \in s.gpus /\ s.temperature[d[2]] # {}
    BY <2>1, <2>2, <2>3, <2>4, <2>5, <2>6
  <2>8. \A g \in s.gpus : <<"gpu_present", g>> \in O
    BY <2>4, <2>6
  <2>9. /\ <<"gpu_query", "host">>[1] = "gpu_query"
        /\ <<"gpu_inventory", "host">>[1] = "gpu_inventory"
        /\ <<"system", "host">>[1] = "system"
        /\ <<"system_cpu", "host">>[1] = "system_cpu"
        /\ \A g : <<"gpu_present", g>>[1] = "gpu_present" /\ <<"gpu_present", g>>[2] = g
        /\ \A g : /\ <<"gpu_temperature", g>>[1] = "gpu_temperature"
                  /\ <<"gpu_temperature", g>>[2] = g
    OBVIOUS
  <2> QED BY <2>7, <2>8, <2>9
<1>5. \/ Domains(k) \subseteq O
      \/ /\ <<"gpu_inventory", "host">> \in O
         /\ \A d \in Domains(k) \ O :
              /\ d[1] \in {"gpu_present", "gpu_temperature"}
              /\ <<"gpu_present", d[2]>> \notin O
  BY DEF TelemetryUnknown
<1> HIDE DEF O
<1>6. CASE k[1] = "connectivity"
  BY <1>6 DEF Speaks
<1>7. CASE k[1] \in {"gpu_availability", "gpu_count"}
  <2>1. Domains(k) = {<<"gpu_query", "host">>}
    BY <1>7 DEF Domains
  <2>2. s.query
    BY <1>4, <1>5, <2>1
  <2> QED BY <1>7, <2>2 DEF Speaks
<1>8. CASE k[1] = "cpu"
  <2>1. Domains(k) = {<<"system", "host">>, <<"system_cpu", "host">>}
    BY <1>8 DEF Domains
  <2>2. <<"system", "host">>[1] = "system" /\ <<"system_cpu", "host">>[1] = "system_cpu"
    OBVIOUS
  <2>3. <<"system", "host">> \in O
    BY <1>5, <2>1, <2>2
  <2>4. <<"system_cpu", "host">> \in O
    BY <1>5, <2>1, <2>2
  <2> QED BY <1>4, <1>8, <2>3, <2>4 DEF Speaks
<1>9. CASE k[1] = "disk"
  <2>1. Domains(k) = {<<"system", "host">>}
    BY <1>9 DEF Domains
  <2>2. <<"system", "host">>[1] = "system"
    OBVIOUS
  <2>3. <<"system", "host">> \in O
    BY <1>5, <2>1, <2>2
  <2> QED BY <1>4, <1>9, <2>3 DEF Speaks
<1>10. CASE k[1] = "gpu_temperature"
  <2>1. Domains(k) = {<<"gpu_present", k[2]>>, <<"gpu_temperature", k[2]>>}
    BY <1>10 DEF Domains
  <2>2. s.query
    BY <1>1, <1>3, <1>4, <1>5, <1>10, <2>1
  <2>3. ASSUME k[2] \in s.gpus PROVE s.temperature[k[2]] # {}
    <3>1. <<"gpu_present", k[2]>> \in O
      BY <1>1, <1>4, <1>10, <2>3
    <3>2. <<"gpu_temperature", k[2]>> \in O
      BY <1>5, <2>1, <3>1
    <3> QED BY <1>1, <1>4, <1>10, <3>2
  <2> QED BY <1>10, <2>2, <2>3 DEF Speaks
<1> QED BY <1>1, <1>6, <1>7, <1>8, <1>9, <1>10 DEF HostCategories

\* Counting is not disturbed by a shift of the indices.
LEMMA Shifted ==
  ASSUME NEW S \in SUBSET Int, IsFiniteSet(S)
  PROVE  /\ IsFiniteSet({i - 1 : i \in S})
         /\ Cardinality({i - 1 : i \in S}) = Cardinality(S)
<1> DEFINE T == {i - 1 : i \in S}
           f == [i \in S |-> i - 1]
<1>1. f \in [S -> T]
  OBVIOUS
<1>2. \A i, j \in S : f[i] = f[j] => i = j
  OBVIOUS
<1>3. \A t \in T : \E i \in S : f[i] = t
  OBVIOUS
<1>4. f \in Bijection(S, T)
  BY <1>1, <1>2, <1>3 DEF Bijection, Injection, IsInjective, Surjection
<1> HIDE DEF f, T
<1>5. ExistsBijection(S, T)
  BY <1>4 DEF ExistsBijection
<1> QED BY <1>5, FS_Bijection DEF T

\* A new sample that does not show the condition counts for its recovery.
LEMMA AppendedHealthy ==
  ASSUME NEW r \in Seq(Samples), NEW s \in Samples, NEW k \in Keys, NEW at \in Nat,
         Reading(s, k) = {}
  PROVE  LET all == Append(r, s)
         IN /\ ShownAt(all, k) = ShownAt(r, k)
            /\ HealthyAt(all, k, at) = IF Healthy(s, k, at)
                                       THEN HealthyAt(r, k, at) \cup {Len(r) + 1}
                                       ELSE HealthyAt(r, k, at)
<1> DEFINE all == Append(r, s)
<1>1. /\ Len(all) = Len(r) + 1 /\ all[Len(r) + 1] = s
      /\ \A i \in 1 .. Len(r) : all[i] = r[i]
      /\ Len(r) \in Nat
  OBVIOUS
<1> HIDE DEF all
<1>2. ShownAt(all, k) = ShownAt(r, k)
  BY <1>1 DEF ShownAt
<1>3. \A j \in ShownAt(r, k) : j < Len(r) + 1
  BY <1>1 DEF ShownAt
<1>4. \A i \in 1 .. Len(r) : i \in HealthyAt(all, k, at) <=> i \in HealthyAt(r, k, at)
  BY <1>1, <1>2 DEF HealthyAt
<1>5. Len(r) + 1 \in HealthyAt(all, k, at) <=> Healthy(s, k, at)
  BY <1>1, <1>2, <1>3 DEF HealthyAt
<1>6. /\ HealthyAt(all, k, at) \subseteq 1 .. (Len(r) + 1)
      /\ HealthyAt(r, k, at) \subseteq 1 .. Len(r)
  BY <1>1 DEF HealthyAt
<1>7. HealthyAt(all, k, at) = IF Healthy(s, k, at)
                              THEN HealthyAt(r, k, at) \cup {Len(r) + 1}
                              ELSE HealthyAt(r, k, at)
  <2>1. \A i \in 1 .. (Len(r) + 1) : i \in 1 .. Len(r) \/ i = Len(r) + 1
    BY <1>1
  <2>2. Len(r) + 1 \notin HealthyAt(r, k, at)
    BY <1>1, <1>6
  <2> DEFINE H == HealthyAt(all, k, at)
             K == HealthyAt(r, k, at)
  <2>3. /\ H \subseteq 1 .. (Len(r) + 1) /\ K \subseteq 1 .. Len(r)
        /\ \A i \in 1 .. Len(r) : i \in H <=> i \in K
        /\ Len(r) + 1 \in H <=> Healthy(s, k, at)
        /\ Len(r) + 1 \notin K
    BY <1>4, <1>5, <1>6, <2>2
  <2> HIDE DEF H, K
  <2>4. CASE Healthy(s, k, at)
    <3>1. H = K \cup {Len(r) + 1}
      BY <2>1, <2>3, <2>4
    <3> QED BY <2>4, <3>1 DEF H, K
  <2>5. CASE ~Healthy(s, k, at)
    <3>1. H = K
      BY <2>1, <2>3, <2>5
    <3> QED BY <2>5, <3>1 DEF H, K
  <2> QED BY <2>4, <2>5
<1> QED BY <1>2, <1>7 DEF all

\* The sample that `recent` forgets takes no healthy one along, as long as one
\* that showed the condition is remembered.
LEMMA ForgottenHealthy ==
  ASSUME NEW r \in Seq(Samples), r # <<>>, NEW k \in Keys, NEW at \in Nat,
         ShownAt(Tail(r), k) # {}
  PROVE  /\ ShownAt(r, k) # {}
         /\ HealthyAt(Tail(r), k, at) = {i - 1 : i \in HealthyAt(r, k, at)}
<1> DEFINE t == Tail(r)
<1>1. /\ Len(t) = Len(r) - 1 /\ Len(r) \in Nat /\ Len(r) >= 1
      /\ \A i \in 1 .. Len(t) : t[i] = r[i + 1]
  OBVIOUS
<1>2. ShownAt(t, k) # {}
  OBVIOUS
<1> HIDE DEF t
<1>3. \A i \in 1 .. Len(t) : i \in ShownAt(t, k) <=> i + 1 \in ShownAt(r, k)
  BY <1>1 DEF ShownAt
<1>4. PICK j \in ShownAt(t, k) : TRUE
  BY <1>2
<1>5. j \in 1 .. Len(t) /\ j + 1 \in ShownAt(r, k)
  BY <1>3, <1>4 DEF ShownAt
<1>6. ASSUME NEW i \in 1 .. Len(t)
      PROVE  i \in HealthyAt(t, k, at) <=> i + 1 \in HealthyAt(r, k, at)
  <2>1. (\A m \in ShownAt(t, k) : m < i) <=> (\A m \in ShownAt(r, k) : m < i + 1)
    <3>1. ASSUME \A m \in ShownAt(t, k) : m < i, NEW m \in ShownAt(r, k)
          PROVE  m < i + 1
      <4>1. m \in 1 .. Len(r)
        BY DEF ShownAt
      <4>2. CASE m = 1
        BY <1>1, <4>2
      <4>3. CASE m # 1
        <5>1. m - 1 \in 1 .. Len(t) /\ (m - 1) + 1 = m
          BY <1>1, <4>1, <4>3
        <5>2. m - 1 \in ShownAt(t, k)
          BY <1>3, <5>1
        <5> QED BY <3>1, <5>1, <5>2
      <4> QED BY <4>2, <4>3
    <3>2. ASSUME \A m \in ShownAt(r, k) : m < i + 1, NEW m \in ShownAt(t, k)
          PROVE  m < i
      <4>1. m \in 1 .. Len(t) /\ m + 1 \in ShownAt(r, k)
        BY <1>3 DEF ShownAt
      <4> QED BY <1>1, <3>2, <4>1
    <3> QED BY <3>1, <3>2
  <2>2. t[i] = r[i + 1] /\ i + 1 \in 1 .. Len(r)
    BY <1>1
  <2> QED BY <2>1, <2>2 DEF HealthyAt
<1>7. \A i \in HealthyAt(r, k, at) : i - 1 \in 1 .. Len(t) /\ (i - 1) + 1 = i
  BY <1>1, <1>5 DEF HealthyAt
<1>8. HealthyAt(t, k, at) \subseteq 1 .. Len(t)
  BY DEF HealthyAt
<1>9. HealthyAt(t, k, at) = {i - 1 : i \in HealthyAt(r, k, at)}
  <2>1. ASSUME NEW i \in HealthyAt(t, k, at)
        PROVE  i \in {m - 1 : m \in HealthyAt(r, k, at)}
    <3>1. i + 1 \in HealthyAt(r, k, at) /\ i = (i + 1) - 1
      BY <1>6, <1>8
    <3> QED BY <3>1
  <2>2. ASSUME NEW i \in HealthyAt(r, k, at)
        PROVE  i - 1 \in HealthyAt(t, k, at)
    BY <1>6, <1>7
  <2> QED BY <2>1, <2>2
<1> QED BY <1>5, <1>9 DEF t

\* What `recent` says of a recovery after a sample that does not show the
\* condition: one more healthy sample, or as many as before.
LEMMA RememberedHealthy ==
  ASSUME NEW r \in Seq(Samples), NEW s \in Samples, NEW k \in Keys, NEW at \in Nat,
         Reading(s, k) = {}, ShownAt(Remembered(r, s), k) # {}
  PROVE  /\ ShownAt(r, k) # {}
         /\ Cardinality(HealthyAt(r, k, at)) \in Nat
         /\ Cardinality(HealthyAt(Remembered(r, s), k, at)) =
              IF Healthy(s, k, at) THEN Cardinality(HealthyAt(r, k, at)) + 1
                                   ELSE Cardinality(HealthyAt(r, k, at))
<1> DEFINE all == Append(r, s)
           K == HealthyAt(r, k, at)
           H == HealthyAt(all, k, at)
<1>1. all \in Seq(Samples) /\ all # <<>> /\ Len(r) \in Nat
  OBVIOUS
<1>2. ShownAt(all, k) = ShownAt(r, k)
  BY AppendedHealthy
<1>3. H = IF Healthy(s, k, at) THEN K \cup {Len(r) + 1} ELSE K
  BY AppendedHealthy
<1>4. IsFiniteSet(K) /\ Cardinality(K) \in Nat /\ Len(r) + 1 \notin K
  <2>1. K \in SUBSET (1 .. Len(r))
    BY DEF HealthyAt
  <2>2. IsFiniteSet(1 .. Len(r))
    BY <1>1, FS_Interval
  <2>3. Len(r) + 1 \notin K
    BY <1>1, <2>1
  <2> HIDE DEF K
  <2> QED BY <2>1, <2>2, <2>3, FS_Subset, FS_CardinalityType
<1> HIDE DEF K
<1>5. /\ IsFiniteSet(H) /\ H \in SUBSET Int
      /\ Cardinality(H) = IF Healthy(s, k, at) THEN Cardinality(K) + 1
                                               ELSE Cardinality(K)
  <2>1. H \in SUBSET Int
    BY <1>1 DEF HealthyAt
  <2>2. IsFiniteSet(K \cup {Len(r) + 1})
        /\ Cardinality(K \cup {Len(r) + 1}) = Cardinality(K) + 1
    BY <1>4, FS_AddElement
  <2> QED BY <1>3, <1>4, <2>1, <2>2
<1>6. CASE Remembered(r, s) = all
  BY <1>2, <1>4, <1>5, <1>6 DEF K
<1>7. CASE Remembered(r, s) = Tail(all)
  <2>1. ShownAt(Tail(all), k) # {}
    BY <1>7
  <2>2. ShownAt(all, k) # {} /\ HealthyAt(Tail(all), k, at) = {i - 1 : i \in H}
    BY <1>1, <2>1, ForgottenHealthy
  <2> HIDE DEF H
  <2>3. Cardinality({i - 1 : i \in H}) = Cardinality(H)
    BY <1>5, Shifted
  <2> QED BY <1>2, <1>4, <1>5, <1>7, <2>2, <2>3 DEF K
<1> QED BY <1>6, <1>7 DEF Remembered

\* The sample itself is a healthy one if it speaks for the condition.
LEMMA LastHealthy ==
  ASSUME NEW r \in Seq(Samples), NEW s \in Samples, NEW k \in Keys, NEW at \in Nat,
         Reading(s, k) = {}, Healthy(s, k, at), Remembered(r, s) # <<>>
  PROVE  Len(Remembered(r, s)) \in HealthyAt(Remembered(r, s), k, at)
<1> DEFINE t == Remembered(r, s)
<1>1. t \in Seq(Samples) /\ t # <<>> /\ t[Len(t)] = s
  BY DEF Remembered
<1> HIDE DEF t
<1>2. Len(t) \in 1 .. Len(t)
  BY <1>1
<1>3. \A j \in ShownAt(t, k) : j < Len(t)
  BY <1>1 DEF ShownAt
<1>4. Len(t) \in HealthyAt(t, k, at)
  BY <1>1, <1>2, <1>3 DEF HealthyAt
<1> QED BY <1>4 DEF t

\* A recovery under way has the samples to show for it, as long as `recent`
\* holds one that showed the condition.
RecoveriesBacked ==
  \A k \in Keys :
    active[k] # {} /\ ShownAt(recent, k) # {} =>
      recoveries[k] <= Cardinality(HealthyAt(recent, k, openedAt[k]))

\* What an open condition that a sample shows becomes: it stays open.
LEMMA UpdateSeen ==
  ASSUME TrackerInv, NEW s \in Samples, Update(s), NEW k \in OpenKeys,
         Reading(s, k) # {}
  PROVE  active'[k] # {}
<1>1. k \in Keys /\ active[k] # {}
  BY DEF OpenKeys
<1>2. k \in Seen(s) /\ k \notin Resolved(s)
  BY <1>1, KeySets DEF Seen
<1>3. PICK c \in Reading(s, k), a \in active[k] : TRUE
  BY <1>1
<1>4. CASE k \in Opening(s) \cup Changed(s)
  <2>1. active'[k] = {[severity |-> d.severity, line |-> d.line] : d \in Reading(s, k)}
    BY <1>1, <1>4 DEF Update
  <2> QED BY <1>3, <2>1
<1>5. CASE k \notin Opening(s) \cup Changed(s) /\ k \in Steady(s)
  <2> DEFINE Held(b, d) == [b EXCEPT !.line = d.line]
  <2>1. active'[k] = {Held(b, d) : b \in active[k], d \in Reading(s, k)}
    BY <1>1, <1>5 DEF Update
  <2> HIDE DEF Held
  <2>2. Held(a, c) \in active'[k]
    BY <1>3, <2>1
  <2> QED BY <2>2
<1>6. CASE k \notin Opening(s) \cup Changed(s) \cup Steady(s)
  BY <1>1, <1>2, <1>6 DEF Update
<1> QED BY <1>4, <1>5, <1>6

\* What a sample does to an open condition that it does not show.
LEMMA UpdateUnseen ==
  ASSUME TrackerInv, NEW s \in Samples, Update(s), NEW k \in OpenKeys,
         Reading(s, k) = {}
  PROVE  /\ recent' = Remembered(recent, s)
         /\ active'[k] = IF k \in Resolved(s) THEN {} ELSE active[k]
         /\ openedAt'[k] = IF k \in Resolved(s) THEN 0 ELSE openedAt[k]
         /\ recoveries'[k] = IF k \in Resolved(s) THEN 0
                             ELSE IF k \in Clearing(s) THEN recoveries[k] + 1
                             ELSE recoveries[k]
         /\ k \in Clearing(s) => Healthy(s, k, openedAt[k])
<1>1. k \in Keys /\ k \notin Seen(s)
  BY DEF OpenKeys, Seen
<1>2. k \notin Opening(s) \cup Changed(s) \cup Steady(s)
  BY <1>1, KeySets
<1>3. k \in Clearing(s) => Healthy(s, k, openedAt[k])
  BY <1>1, KnownSpeaks DEF Clearing, Healthy
<1> QED BY <1>1, <1>2, <1>3 DEF Update, Remembered

\* A sample keeps recoveries backed.
LEMMA UpdateRecoveries ==
  ASSUME TrackerInv, RecoveriesBacked, NEW s \in Samples, Update(s)
  PROVE  RecoveriesBacked'
<1> SUFFICES ASSUME NEW k \in Keys, active'[k] # {}, ShownAt(recent', k) # {}
             PROVE  recoveries'[k] <= Cardinality(HealthyAt(recent', k, openedAt'[k]))
  BY DEF RecoveriesBacked
<1>1. recent \in Seq(Samples) /\ openedAt[k] \in Nat /\ recoveries[k] \in Nat
  BY DEF TrackerInv, TrackerAgrees, TrackerTypeOK
<1>2. recent' \in Seq(Samples)
  BY UpdateInv DEF TrackerInv, TrackerAgrees, TrackerTypeOK
<1>3. Cardinality(HealthyAt(recent', k, openedAt'[k])) \in Nat
  <2>1. HealthyAt(recent', k, openedAt'[k]) \in SUBSET (1 .. Len(recent'))
    BY DEF HealthyAt
  <2>2. IsFiniteSet(1 .. Len(recent'))
    BY <1>2, FS_Interval
  <2> QED BY <2>1, <2>2, FS_Subset, FS_CardinalityType
<1>4. CASE Reading(s, k) # {}
  <2>1. recoveries'[k] = 0
    BY <1>4 DEF Update, Seen
  <2> QED BY <1>3, <2>1
<1>5. CASE Reading(s, k) = {} /\ k \in OpenKeys
  <2>1. /\ recent' = Remembered(recent, s) /\ k \notin Resolved(s)
        /\ openedAt'[k] = openedAt[k]
        /\ recoveries'[k] = IF k \in Clearing(s) THEN recoveries[k] + 1
                                                 ELSE recoveries[k]
        /\ k \in Clearing(s) => Healthy(s, k, openedAt[k])
    BY <1>5, UpdateUnseen
  <2>2. /\ ShownAt(recent, k) # {}
        /\ Cardinality(HealthyAt(recent, k, openedAt[k])) \in Nat
        /\ Cardinality(HealthyAt(recent', k, openedAt[k])) =
             IF Healthy(s, k, openedAt[k])
             THEN Cardinality(HealthyAt(recent, k, openedAt[k])) + 1
             ELSE Cardinality(HealthyAt(recent, k, openedAt[k]))
    BY <1>1, <1>5, <2>1, RememberedHealthy
  <2>3. recoveries[k] <= Cardinality(HealthyAt(recent, k, openedAt[k]))
    BY <1>5, <2>2 DEF RecoveriesBacked, OpenKeys
  <2> QED BY <1>1, <2>1, <2>2, <2>3
<1>6. CASE Reading(s, k) = {} /\ k \notin OpenKeys
  <2>1. k \notin Opening(s) \cup Changed(s) \cup Steady(s)
    BY <1>6, KeySets DEF Seen
  <2>2. active'[k] = {}
    BY <1>6, <2>1 DEF Update, OpenKeys
  <2> QED BY <2>2
<1> QED BY <1>4, <1>5, <1>6

\* So does every other step: it leaves the tracker alone or starts it afresh.
LEMMA RecoveriesStep ==
  TrackerInv /\ RecoveriesBacked /\ [TrackerNext]_incidentVars => RecoveriesBacked'
<1> SUFFICES ASSUME TrackerInv, RecoveriesBacked, [TrackerNext]_incidentVars PROVE RecoveriesBacked'
  OBVIOUS
<1>1. CASE UNCHANGED <<active, recoveries, openedAt, recent>>
  BY <1>1 DEF RecoveriesBacked
<1>2. CASE recent' = <<>>
  BY <1>2 DEF RecoveriesBacked, ShownAt
<1>3. CASE \E s \in Samples : Update(s)
  BY <1>3, UpdateRecoveries
<1>4. CommitIncident \/ UNCHANGED incidentVars => UNCHANGED <<active, recoveries, openedAt, recent>>
  BY DEF CommitIncident, incidentVars, trackerVars, ghostVars
<1>5. Restart \/ RemoveHost => recent' = <<>>
  BY DEF Restart, RemoveHost, Fresh
<1> QED BY <1>1, <1>2, <1>3, <1>4, <1>5 DEF TrackerNext

\* The invariant of the tracker's maps, and of what backs its recoveries.
LEMMA TrackerInvariance == TrackerSpec => [](TrackerInv /\ RecoveriesBacked)
<1>1. TrackerInit => TrackerInv /\ RecoveriesBacked
  BY TrackerInvInit DEF TrackerInit, RecoveriesBacked
<1> QED BY <1>1, TrackerStep, RecoveriesStep, PTL DEF TrackerSpec

\* An open condition resolves only on an online sample that is not older than
\* its opening and has the telemetry it is about, and only after as many of
\* them as `recovery_cycles` asks for since it was last seen, for every policy
\* and every order of samples (IncidentTracker.update, telemetry_unknown).
THEOREM RecoveriesAreConfirmed == TrackerSpec => ResolveConfirmed
<1>1. ASSUME TrackerInv, RecoveriesBacked, [TrackerNext]_incidentVars, NEW k \in OpenKeys,
             active'[k] = {}, recent' # <<>>
      PROVE  /\ Len(recent') \in HealthyAt(recent', k, openedAt[k])
             /\ ShownAt(recent', k) # {} =>
                  Cardinality(HealthyAt(recent', k, openedAt[k])) >= RecoveryCycles
  <2>1. k \in Keys /\ active[k] # {}
    BY DEF OpenKeys
  <2>2. PICK s \in Samples : Update(s)
    BY <1>1, <2>1 DEF TrackerNext, CommitIncident, Restart, RemoveHost,
       Fresh, incidentVars, trackerVars, ghostVars
  <2>3. /\ recent \in Seq(Samples) /\ openedAt[k] \in Nat /\ recoveries[k] \in Nat
        /\ Single(active[k]) /\ RecoveryCycles \in Nat
    BY <1>1, <2>1, PolicyAssumption DEF TrackerInv, TrackerAgrees, TrackerTypeOK
  <2>4. Reading(s, k) = {}
    BY <1>1, <2>1, <2>2, UpdateSeen
  <2>5. /\ recent' = Remembered(recent, s)
        /\ k \in Resolved(s) /\ Healthy(s, k, openedAt[k])
    BY <1>1, <2>1, <2>2, <2>4, UpdateUnseen, KeySets
  <2>6. Len(recent') \in HealthyAt(recent', k, openedAt[k])
    BY <1>1, <2>1, <2>3, <2>4, <2>5, LastHealthy
  <2>7. ASSUME ShownAt(recent', k) # {}
        PROVE  Cardinality(HealthyAt(recent', k, openedAt[k])) >= RecoveryCycles
    <3>1. /\ ShownAt(recent, k) # {}
          /\ Cardinality(HealthyAt(recent, k, openedAt[k])) \in Nat
          /\ Cardinality(HealthyAt(recent', k, openedAt[k])) =
               Cardinality(HealthyAt(recent, k, openedAt[k])) + 1
      BY <2>1, <2>3, <2>4, <2>5, <2>7, RememberedHealthy
    <3>2. recoveries[k] <= Cardinality(HealthyAt(recent, k, openedAt[k]))
      BY <1>1, <2>1, <3>1 DEF RecoveriesBacked
    <3>3. recoveries[k] + 1 >= RecoveryCycles
      BY <2>5 DEF Resolved
    <3> QED BY <2>3, <3>1, <3>2, <3>3
  <2> QED BY <2>6, <2>7
<1>2. TrackerInv /\ RecoveriesBacked /\ [TrackerNext]_incidentVars =>
        [\A k \in OpenKeys : active'[k] = {} /\ recent' # <<>> =>
           LET n == Len(recent')
               seen == {i \in 1 .. n : Reading(recent'[i], k) # {}}
               healthy == {i \in 1 .. n :
                             /\ Speaks(recent'[i], k) /\ recent'[i].at >= openedAt[k]
                             /\ \A j \in seen : j < i}
           IN /\ n \in healthy
              /\ seen # {} => Cardinality(healthy) >= RecoveryCycles]_incidentVars
  <2> SUFFICES ASSUME TrackerInv, RecoveriesBacked, [TrackerNext]_incidentVars, NEW k \in OpenKeys,
                      active'[k] = {}, recent' # <<>>
               PROVE  LET n == Len(recent')
                          seen == {i \in 1 .. n : Reading(recent'[i], k) # {}}
                          healthy == {i \in 1 .. n :
                             /\ Speaks(recent'[i], k) /\ recent'[i].at >= openedAt[k]
                             /\ \A j \in seen : j < i}
                      IN /\ n \in healthy
                         /\ seen # {} => Cardinality(healthy) >= RecoveryCycles
    OBVIOUS
  <2> DEFINE n == Len(recent')
             seen == {i \in 1 .. n : Reading(recent'[i], k) # {}}
             healthy == {i \in 1 .. n :
                           /\ Speaks(recent'[i], k) /\ recent'[i].at >= openedAt[k]
                           /\ \A j \in seen : j < i}
  <2>1. seen = ShownAt(recent', k)
    BY DEF ShownAt
  <2> HIDE DEF seen
  <2>2. healthy = HealthyAt(recent', k, openedAt[k])
    BY <2>1 DEF HealthyAt, Healthy
  <2> HIDE DEF healthy
  <2>3. n \in healthy /\ (seen # {} => Cardinality(healthy) >= RecoveryCycles)
    BY <1>1, <2>1, <2>2
  <2> QED BY <2>3 DEF healthy, seen
<1> QED BY <1>2, TrackerInvariance, PTL DEF TrackerSpec, ResolveConfirmed

-------------------------------------------------------------------------------
(* Confirmations *)

\* the samples that count for opening condition k, and for changing its state a,
\* to a severity
OpeningSamples(k, severity) ==
  {s \in Samples : \E c \in Reading(s, k) : ~c.low /\ c.severity = severity}
ChangingSamples(k, severity, a) ==
  {s \in Samples : \E c \in Reading(s, k) :
     c.severity = severity /\ ~HoldsSeverity(c, a)}

\* The run of samples of set good at the end of r starts at f.
RunStarts(r, good, f) ==
  /\ \A i \in f .. Len(r) : r[i] \in good
  /\ f = 1 \/ r[f - 1] \notin good

\* A streak has the samples to show for it: as many as it counts or as are
\* remembered, the first of them at its beginning unless that is forgotten.
Backed(r, good, streak) ==
  \E f \in 1 .. Len(r) :
    /\ RunStarts(r, good, f)
    /\ streak.count <= Len(r) - f + 1 \/ Window <= Len(r) - f + 1
    /\ f # 1 \/ Len(r) < Window => r[f].at = streak.since

\* whether the last sample of r counts
Counts(r, good) == r # <<>> /\ r[Len(r)] \in good

\* Every streak is backed by uninterrupted samples, and a sample that counts
\* leaves a streak behind unless it opened or changed the condition.
StreaksBacked ==
  /\ Len(recent) <= Window
  /\ \A k \in Keys :
       /\ \A q \in candidates[k] : Backed(recent, OpeningSamples(k, q.severity), q)
       /\ \A v \in Severities :
            active[k] = {} /\ Counts(recent, OpeningSamples(k, v))
              => \E q \in candidates[k] : q.severity = v
       /\ \A a \in active[k], q \in changes[k] :
            Backed(recent, ChangingSamples(k, q.severity, a), q)
       /\ \A a \in active[k], v \in Severities :
            v # a.severity /\ Counts(recent, ChangingSamples(k, v, a))
              => \E q \in changes[k] : q.severity = v

\* `recent` keeps samples, at most Window of them, the new one last.
LEMMA RememberedType ==
  ASSUME NEW r \in Seq(Samples), Len(r) <= Window, NEW s \in Samples
  PROVE  LET t == Remembered(r, s)
         IN /\ t \in Seq(Samples) /\ Len(t) <= Window
            /\ t # <<>> => t[Len(t)] = s
BY TrackerAssumption DEF Remembered

\* A sample that counts continues the run of samples before it.
LEMMA RunContinues ==
  ASSUME NEW r \in Seq(Samples), Len(r) <= Window, NEW s \in Samples,
         NEW good, s \in good, Window >= 1,
         NEW f \in 1 .. Len(r) + 1, RunStarts(r, good, f)
  PROVE  LET t == Remembered(r, s)
         IN \E g \in 1 .. Len(t) :
              /\ RunStarts(t, good, g)
              /\ \/ Len(t) - g + 1 = Len(r) - f + 2
                 \/ Window <= Len(t) - g + 1
              /\ g # 1 \/ Len(t) < Window =>
                   /\ f # 1 \/ Len(r) < Window
                   /\ t[g] = IF f = Len(r) + 1 THEN s ELSE r[f]
<1> DEFINE all == Append(r, s)
<1>1. /\ all \in Seq(Samples) /\ Len(all) = Len(r) + 1 /\ all[Len(r) + 1] = s
      /\ \A i \in 1 .. Len(r) : all[i] = r[i]
      /\ Len(r) \in Nat /\ Window \in Nat
  BY TrackerAssumption
<1>2. Tail(all) \in Seq(Samples) /\ Len(Tail(all)) = Len(r)
      /\ \A i \in 1 .. Len(r) : Tail(all)[i] = all[i + 1]
  BY <1>1
<1> HIDE DEF all
<1>3. RunStarts(all, good, f)
  BY <1>1 DEF RunStarts
<1>4. all[f] = IF f = Len(r) + 1 THEN s ELSE r[f]
  BY <1>1
<1>5. CASE Len(all) <= Window
  <2>1. Remembered(r, s) = all
    BY <1>1, <1>5 DEF Remembered, all
  <2>2. f \in 1 .. Len(all) /\ Len(all) - f + 1 = Len(r) - f + 2 /\ Len(r) < Window
    BY <1>1, <1>5
  <2> QED BY <1>3, <1>4, <2>1, <2>2
<1>6. CASE Len(all) > Window
  <2> DEFINE t == Tail(all)
  <2>1. Remembered(r, s) = t
    BY <1>6 DEF Remembered, all
  <2>2. Len(r) = Window /\ Len(t) = Window
    BY <1>1, <1>2, <1>6
  <2>3. t \in Seq(Samples) /\ \A i \in 1 .. Window : t[i] = all[i + 1]
    BY <1>2, <2>2
  <2> HIDE DEF t
  <2>4. CASE f = 1
    <3>1. RunStarts(t, good, 1)
      BY <1>1, <1>3, <2>2, <2>3, <2>4 DEF RunStarts
    <3>2. 1 \in 1 .. Len(t) /\ Window <= Len(t) - 1 + 1 /\ ~(Len(t) < Window)
      BY <1>1, <2>2
    <3> QED BY <2>1, <3>1, <3>2
  <2>5. CASE f # 1
    <3> DEFINE g == f - 1
    <3>1. g \in 1 .. Len(t) /\ Len(t) - g + 1 = Len(r) - f + 2 /\ g + 1 = f
      BY <1>1, <2>2, <2>5
    <3>2. t[g] = all[f]
      BY <2>2, <2>3, <3>1
    <3>3. RunStarts(t, good, g)
      <4>1. ASSUME NEW i \in g .. Len(t) PROVE t[i] \in good
        <5>1. i + 1 \in f .. Len(all) /\ i \in 1 .. Window
          BY <1>1, <2>2, <3>1
        <5> QED BY <1>3, <2>3, <5>1 DEF RunStarts
      <4>2. ASSUME g # 1 PROVE t[g - 1] \notin good
        <5>1. g - 1 \in 1 .. Window /\ (g - 1) + 1 = f - 1
          BY <1>1, <2>2, <3>1, <4>2
        <5>2. t[g - 1] = all[f - 1]
          BY <2>3, <5>1
        <5> QED BY <1>3, <2>5, <5>2 DEF RunStarts
      <4> QED BY <4>1, <4>2 DEF RunStarts
    <3> HIDE DEF g
    <3> QED BY <1>4, <2>1, <2>5, <3>1, <3>2, <3>3
  <2> QED BY <2>4, <2>5
<1> QED BY <1>1, <1>5, <1>6

\* A streak that a sample continues, or begins, is backed again.
LEMMA ExtendBacked ==
  ASSUME NEW r \in Seq(Samples), Len(r) <= Window, NEW s \in Samples,
         NEW good, s \in good, Window >= 1,
         NEW p \in SUBSET Pending, Single(p), NEW c \in Condition,
         \A q \in p : q.severity = c.severity => Backed(r, good, q),
         Counts(r, good) => \E q \in p : q.severity = c.severity,
         NEW q \in Extend(p, c, s.at)
  PROVE  Backed(Remembered(r, s), good, q)
<1> DEFINE same == {o \in p : o.severity = c.severity}
<1>1. Window \in Nat /\ Len(r) \in Nat /\ s.at \in Nat
  BY TrackerAssumption DEF Sample
<1>2. CASE same = {}
  <2>1. q = [severity |-> c.severity, count |-> 1, since |-> s.at]
    BY <1>2 DEF Extend
  <2>2. q.count = 1 /\ q.since = s.at
    BY <2>1
  <2>3. ~Counts(r, good)
    BY <1>2
  <2>4. Len(r) + 1 \in 1 .. Len(r) + 1 /\ RunStarts(r, good, Len(r) + 1)
    BY <1>1, <2>3 DEF Counts, RunStarts
  <2>5. PICK g \in 1 .. Len(Remembered(r, s)) :
          /\ RunStarts(Remembered(r, s), good, g)
          /\ g # 1 \/ Len(Remembered(r, s)) < Window => Remembered(r, s)[g] = s
    BY <2>4, RunContinues
  <2>6. 1 <= Len(Remembered(r, s)) - g + 1
    BY RememberedType
  <2> QED BY <2>2, <2>5, <2>6 DEF Backed
<1>3. CASE same # {}
  <2>1. PICK o \in p : o.severity = c.severity /\ same = {o}
    BY <1>3 DEF Single
  <2>2. q = [o EXCEPT !.count = IF @ < c.cycles THEN @ + 1 ELSE @]
    BY <1>3, <2>1 DEF Extend
  <2>3. o.count \in Nat /\ q.count \in Nat /\ q.count <= o.count + 1 /\ q.since = o.since
    BY <2>1, <2>2 DEF Pending, Condition
  <2>4. PICK f \in 1 .. Len(r) :
          /\ RunStarts(r, good, f)
          /\ o.count <= Len(r) - f + 1 \/ Window <= Len(r) - f + 1
          /\ f # 1 \/ Len(r) < Window => r[f].at = o.since
    BY <2>1 DEF Backed
  <2>5. f \in 1 .. Len(r) + 1 /\ f # Len(r) + 1
    BY <1>1
  <2>6. PICK g \in 1 .. Len(Remembered(r, s)) :
          /\ RunStarts(Remembered(r, s), good, g)
          /\ \/ Len(Remembered(r, s)) - g + 1 = Len(r) - f + 2
             \/ Window <= Len(Remembered(r, s)) - g + 1
          /\ g # 1 \/ Len(Remembered(r, s)) < Window =>
               (f # 1 \/ Len(r) < Window) /\ Remembered(r, s)[g] = r[f]
    BY <2>4, <2>5, RunContinues
  <2>7. Len(Remembered(r, s)) \in Nat
    BY RememberedType
  <2>8. \/ q.count <= Len(Remembered(r, s)) - g + 1
        \/ Window <= Len(Remembered(r, s)) - g + 1
    BY <1>1, <2>3, <2>4, <2>6, <2>7
  <2> QED BY <2>3, <2>4, <2>6, <2>8 DEF Backed
<1> QED BY <1>2, <1>3

\* A streak is never lost by continuing it.
LEMMA ExtendSome ==
  ASSUME NEW p \in SUBSET Pending, Single(p), NEW c \in Condition, NEW at \in Nat
  PROVE  \E q \in Extend(p, c, at) : q.severity = c.severity
<1> DEFINE same == {q \in p : q.severity = c.severity}
           Longer(q) == [q EXCEPT !.count = IF @ < c.cycles THEN @ + 1 ELSE @]
<1>1. CASE same = {}
  BY <1>1 DEF Extend
<1>2. CASE same # {}
  <2>1. Extend(p, c, at) = {Longer(q) : q \in same}
    BY <1>2 DEF Extend
  <2> HIDE DEF Longer
  <2>2. PICK q \in Extend(p, c, at) : TRUE
    BY <1>2, <2>1
  <2> QED BY <2>2, ExtendType
<1> QED BY <1>1, <1>2

\* A sample keeps the streaks that open a condition backed.
LEMMA UpdateOpeningStreaks ==
  ASSUME TrackerInv, StreaksBacked, Window >= 1, NEW s \in Samples, Update(s),
         NEW k \in Keys
  PROVE  /\ \A q \in candidates'[k] :
              Backed(recent', OpeningSamples(k, q.severity), q)
         /\ \A v \in Severities :
              active'[k] = {} /\ Counts(recent', OpeningSamples(k, v))
                => \E q \in candidates'[k] : q.severity = v
<1>1. /\ recent \in Seq(Samples) /\ Len(recent) <= Window
      /\ candidates[k] \in SUBSET Pending /\ Single(candidates[k])
  BY DEF TrackerInv, TrackerAgrees, TrackerTypeOK, StreaksBacked
<1>2. recent' = Remembered(recent, s)
  BY DEF Update, Remembered
<1>3. s.at \in Nat
  BY TrackerAssumption DEF Sample
<1>4. Reading(s, k) \in SUBSET Condition /\ Single(Reading(s, k))
  BY ReadingType
<1>5. candidates'[k] = IF k \in Confirming(s) \ Opening(s)
                       THEN UNION {Extend(candidates[k], c, s.at) : c \in Reading(s, k)}
                       ELSE {}
  BY DEF Update
<1>6. ASSUME NEW q \in candidates'[k]
      PROVE  Backed(recent', OpeningSamples(k, q.severity), q)
  <2>1. k \in Confirming(s) /\ active[k] = {}
    BY <1>5, <1>6 DEF Confirming, OpenKeys
  <2>2. PICK c \in Reading(s, k) : q \in Extend(candidates[k], c, s.at)
    BY <1>5, <1>6
  <2>3. ~c.low /\ c \in Condition /\ c.severity \in Severities
    BY <1>4, <2>1, <2>2 DEF Confirming, Single, Condition
  <2>4. q.severity = c.severity
    BY <1>1, <1>3, <2>2, <2>3, ExtendType
  <2> DEFINE good == OpeningSamples(k, c.severity)
  <2>5. s \in good
    BY <2>2, <2>3 DEF OpeningSamples
  <2>6. \A o \in candidates[k] : o.severity = c.severity => Backed(recent, good, o)
    BY DEF StreaksBacked
  <2>7. Counts(recent, good) => \E o \in candidates[k] : o.severity = c.severity
    BY <2>1, <2>3 DEF StreaksBacked
  <2> HIDE DEF good
  <2>8. Backed(Remembered(recent, s), good, q)
    BY <1>1, <2>2, <2>3, <2>5, <2>6, <2>7, ExtendBacked
  <2> QED BY <1>2, <2>4, <2>8 DEF good
<1>7. ASSUME NEW v \in Severities, active'[k] = {},
             Counts(recent', OpeningSamples(k, v))
      PROVE  \E q \in candidates'[k] : q.severity = v
  <2>1. s \in OpeningSamples(k, v)
    BY <1>1, <1>2, <1>7, RememberedType DEF Counts
  <2>2. PICK c \in Reading(s, k) : ~c.low /\ c.severity = v
    BY <2>1 DEF OpeningSamples
  <2>3. k \in Confirming(s)
    BY <1>7, <2>2, UpdateSeen DEF Confirming
  <2>4. k \notin Opening(s)
    <3>1. SUFFICES ASSUME k \in Opening(s) PROVE FALSE
      OBVIOUS
    <3>2. active'[k] = {[severity |-> d.severity, line |-> d.line] : d \in Reading(s, k)}
      BY <3>1 DEF Update
    <3> QED BY <1>7, <2>2, <3>2
  <2>5. PICK q \in Extend(candidates[k], c, s.at) : q.severity = c.severity
    BY <1>1, <1>3, <1>4, <2>2, ExtendSome
  <2>6. q \in candidates'[k]
    BY <1>5, <2>2, <2>3, <2>4, <2>5
  <2> QED BY <2>2, <2>5, <2>6
<1> QED BY <1>6, <1>7

\* A sample keeps the streaks that change an open condition backed.
LEMMA UpdateChangingStreaks ==
  ASSUME TrackerInv, StreaksBacked, Window >= 1, NEW s \in Samples, Update(s),
         NEW k \in Keys, NEW a \in active'[k]
  PROVE  /\ \A q \in changes'[k] :
              Backed(recent', ChangingSamples(k, q.severity, a), q)
         /\ \A v \in Severities :
              v # a.severity /\ Counts(recent', ChangingSamples(k, v, a))
                => \E q \in changes'[k] : q.severity = v
<1>1. /\ recent \in Seq(Samples) /\ Len(recent) <= Window
      /\ changes[k] \in SUBSET Pending /\ Single(changes[k])
      /\ active[k] \in SUBSET OpenCondition /\ Single(active[k]) /\ Single(active'[k])
  BY UpdateInv DEF TrackerInv, TrackerAgrees, TrackerTypeOK, StreaksBacked
<1>2. recent' = Remembered(recent, s)
  BY DEF Update, Remembered
<1>3. s.at \in Nat
  BY TrackerAssumption DEF Sample
<1>4. Reading(s, k) \in SUBSET Condition /\ Single(Reading(s, k))
  BY ReadingType
<1>5. changes'[k] = IF k \in Changing(s) \ Changed(s)
                    THEN UNION {Extend(changes[k], c, s.at) : c \in Reading(s, k)}
                    ELSE {}
  BY DEF Update
<1>6. ASSUME k \notin Opening(s) \cup Changed(s) \cup Steady(s) \cup Resolved(s)
      PROVE  a \in active[k]
  BY <1>6 DEF Update
<1>7. ASSUME NEW q \in changes'[k]
      PROVE  Backed(recent', ChangingSamples(k, q.severity, a), q)
  <2>1. k \in Changing(s) \ Changed(s)
    BY <1>5, <1>7
  <2>2. k \in OpenKeys /\ k \notin Steady(s) /\ a \in active[k]
    BY <1>6, <2>1, KeySets
  <2>3. PICK c \in Reading(s, k) : q \in Extend(changes[k], c, s.at)
    BY <1>5, <1>7
  <2>4. /\ c.severity # a.severity /\ ~HoldsSeverity(c, a)
        /\ c \in Condition /\ c.severity \in Severities
    BY <1>4, <2>2, <2>3 DEF Steady, Condition
  <2>5. q.severity = c.severity
    BY <1>1, <1>3, <2>3, <2>4, ExtendType
  <2> DEFINE good == ChangingSamples(k, c.severity, a)
  <2>6. s \in good
    BY <2>3, <2>4 DEF ChangingSamples
  <2>7. \A o \in changes[k] : o.severity = c.severity => Backed(recent, good, o)
    BY <2>2 DEF StreaksBacked
  <2>8. Counts(recent, good) => \E o \in changes[k] : o.severity = c.severity
    BY <2>2, <2>4 DEF StreaksBacked
  <2> HIDE DEF good
  <2>9. Backed(Remembered(recent, s), good, q)
    BY <1>1, <2>3, <2>4, <2>6, <2>7, <2>8, ExtendBacked
  <2> QED BY <1>2, <2>5, <2>9 DEF good
<1>8. ASSUME NEW v \in Severities, v # a.severity,
             Counts(recent', ChangingSamples(k, v, a))
      PROVE  \E q \in changes'[k] : q.severity = v
  <2>1. s \in ChangingSamples(k, v, a)
    BY <1>1, <1>2, <1>8, RememberedType DEF Counts
  <2>2. PICK c \in Reading(s, k) : c.severity = v /\ ~HoldsSeverity(c, a)
    BY <2>1 DEF ChangingSamples
  <2>3. k \notin Opening(s) \cup Changed(s)
    <3>1. SUFFICES ASSUME k \in Opening(s) \cup Changed(s) PROVE FALSE
      OBVIOUS
    <3>2. active'[k] = {[severity |-> d.severity, line |-> d.line] : d \in Reading(s, k)}
      BY <3>1 DEF Update
    <3>3. PICK d \in Reading(s, k) : a = [severity |-> d.severity, line |-> d.line]
      BY <3>2
    <3>4. d = c
      BY <1>4, <2>2, <3>3 DEF Single
    <3> QED BY <1>8, <2>2, <3>3, <3>4
  <2>4. k \notin Steady(s)
    <3>1. SUFFICES ASSUME k \in Steady(s) PROVE FALSE
      OBVIOUS
    <3>2. active'[k] = {[b EXCEPT !.line = d.line] : b \in active[k], d \in Reading(s, k)}
      BY <2>3, <3>1 DEF Update
    <3>3. PICK b \in active[k], d \in Reading(s, k) : a = [b EXCEPT !.line = d.line]
      BY <3>2
    <3>4. d = c /\ b \in OpenCondition
      BY <1>1, <1>4, <2>2, <3>3 DEF Single
    <3>5. a.severity = b.severity /\ a.line = c.line
      BY <3>3, <3>4 DEF OpenCondition
    <3>6. c.severity = b.severity \/ HoldsSeverity(c, b)
      BY <1>1, <1>4, <2>2, <3>1, <3>3 DEF Steady, Single
    <3> QED BY <1>8, <2>2, <3>5, <3>6 DEF HoldsSeverity
  <2>5. k \in Seen(s) /\ k \notin Resolved(s)
    BY <2>2, KeySets DEF Seen
  <2>6. a \in active[k]
    BY <1>6, <2>3, <2>4, <2>5
  <2>7. k \in Changing(s) \ Changed(s)
    BY <2>3, <2>4, <2>5, <2>6 DEF Changing, OpenKeys
  <2>8. PICK q \in Extend(changes[k], c, s.at) : q.severity = c.severity
    BY <1>1, <1>3, <1>4, <2>2, ExtendSome
  <2>9. q \in changes'[k]
    BY <1>5, <2>2, <2>7, <2>8
  <2> QED BY <2>2, <2>8, <2>9
<1> QED BY <1>7, <1>8

\* Every step keeps the streaks backed: one that is not a sample leaves them
\* alone or starts the tracker afresh.
LEMMA StreaksStep ==
  ASSUME Window >= 1
  PROVE  TrackerInv /\ StreaksBacked /\ [TrackerNext]_incidentVars => StreaksBacked'
<1> SUFFICES ASSUME TrackerInv, StreaksBacked, [TrackerNext]_incidentVars PROVE StreaksBacked'
  OBVIOUS
<1>1. CASE UNCHANGED <<active, candidates, changes, recent>>
  BY <1>1 DEF StreaksBacked
<1>2. CASE Restart \/ RemoveHost
  <2>1. /\ recent' = <<>> /\ candidates' = [k \in Keys |-> {}]
        /\ changes' = [k \in Keys |-> {}]
    BY <1>2 DEF Restart, RemoveHost, Fresh
  <2>2. Len(recent') <= Window
    BY <2>1, TrackerAssumption
  <2>3. \A k \in Keys : candidates'[k] = {} /\ changes'[k] = {}
    BY <2>1
  <2>4. \A good : ~Counts(recent', good)
    BY <2>1 DEF Counts
  <2> QED BY <2>2, <2>3, <2>4 DEF StreaksBacked
<1>3. ASSUME NEW s \in Samples, Update(s) PROVE StreaksBacked'
  <2>1. Len(recent') <= Window
    <3>1. recent \in Seq(Samples) /\ Len(recent) <= Window
      BY DEF TrackerInv, TrackerAgrees, TrackerTypeOK, StreaksBacked
    <3>2. recent' = Remembered(recent, s)
      BY <1>3 DEF Update, Remembered
    <3> QED BY <3>1, <3>2, RememberedType
  <2> QED BY <1>3, <2>1, UpdateOpeningStreaks, UpdateChangingStreaks DEF StreaksBacked
<1>4. CommitIncident \/ UNCHANGED incidentVars => UNCHANGED <<active, candidates, changes, recent>>
  BY DEF CommitIncident, incidentVars, trackerVars, ghostVars
<1> QED BY <1>1, <1>2, <1>3, <1>4 DEF TrackerNext

\* The first of the samples that back a streak is the first of their run.
LEMMA BackedLongEnough ==
  ASSUME recent' \in Seq(Samples), NEW good \in SUBSET Samples,
         NEW q \in Pending, NEW c \in Condition,
         Backed(recent', good, q), q.count >= c.cycles, c.cycles <= Window,
         c.seconds = 0 \/ recent'[Len(recent')].at - q.since >= c.seconds,
         NEW those \in SUBSET DOMAIN recent',
         \A i \in DOMAIN recent' : i \in those <=> recent'[i] \in good
  PROVE  LongEnough(Run(those), c)
<1> DEFINE n == Len(recent')
<1>1. PICK f \in 1 .. n :
        /\ RunStarts(recent', good, f)
        /\ q.count <= n - f + 1 \/ Window <= n - f + 1
        /\ f # 1 \/ n < Window => recent'[f].at = q.since
  BY DEF Backed
<1>2. /\ n \in Nat /\ DOMAIN recent' = 1 .. n /\ Window \in Nat
      /\ q.count \in Nat /\ c.cycles \in Nat
  BY TrackerAssumption DEF Pending, Condition
<1>3. Run(those) = f .. n
  <2>1. ASSUME NEW i \in Run(those) PROVE i \in f .. n
    <3>1. i \in 1 .. n /\ \A j \in i .. n : recent'[j] \in good
      BY <1>2, <2>1 DEF Run
    <3>2. ASSUME i < f PROVE FALSE
      <4>1. f # 1 /\ f - 1 \in i .. n
        BY <1>2, <3>1, <3>2
      <4> QED BY <1>1, <3>1, <4>1 DEF RunStarts
    <3> QED BY <1>2, <3>1, <3>2
  <2>2. ASSUME NEW i \in f .. n PROVE i \in Run(those)
    <3>1. \A j \in f .. n : j \in those
      BY <1>1, <1>2 DEF RunStarts
    <3>2. \A j \in i .. n : j \in f .. n
      BY <1>2
    <3> QED BY <1>2, <3>1, <3>2 DEF Run
  <2> QED BY <2>1, <2>2
<1>4. Cardinality(Run(those)) = n - f + 1
  BY <1>2, <1>3, FS_Interval
<1>5. Cardinality(Run(those)) >= c.cycles
  BY <1>1, <1>2, <1>4
<1>6. ASSUME c.seconds > 0, 1 \notin Run(those) \/ n < Window
      PROVE  \E i \in Run(those) :
               i - 1 \notin Run(those) /\ recent'[n].at - recent'[i].at >= c.seconds
  <2>1. f # 1 \/ n < Window
    BY <1>2, <1>3, <1>6
  <2>2. f \in Run(those) /\ f - 1 \notin Run(those)
    BY <1>2, <1>3
  <2>3. recent'[n].at - recent'[f].at >= c.seconds
    BY <1>1, <1>6, <2>1
  <2> QED BY <2>2, <2>3
<1> QED BY <1>5, <1>6 DEF LongEnough

\* No condition asks for more samples than `resource_open_cycles`.
LEMMA ReadingCycles ==
  ASSUME NEW s \in Samples, NEW k \in Keys, NEW c \in Reading(s, k)
  PROVE  c.cycles <= OpenCycles
<1>1. /\ k[1] \in HostCategories \cup {"gpu_temperature"}
      /\ OpenCycles \in Nat \ {0}
  BY PolicyAssumption DEF Keys, HostCategories
<1>2. \A v, line : \A d \in Numeric(v, line) : d.cycles = OpenCycles
  BY DEF Numeric
<1>3. \A v : \A d \in Immediate(v) : d.cycles = 1
  BY DEF Immediate
<1>4. c.cycles = OpenCycles \/ c.cycles = 1
  BY <1>1, <1>2, <1>3 DEF Reading, HostCategories
<1> QED BY <1>1, <1>4

\* The streaks p of a condition, continued by sample s with condition c, are
\* about the samples in good, and those are the places where `recent` has them.
Evidence(s, k, c, p, good, those) ==
  /\ s \in Samples /\ c \in Reading(s, k) /\ Confirmed(p, c, s.at)
  /\ p \in SUBSET Pending /\ Single(p)
  /\ good \in SUBSET Samples /\ s \in good
  /\ \A q \in p : q.severity = c.severity => Backed(recent, good, q)
  /\ Counts(recent, good) => \E q \in p : q.severity = c.severity
  /\ recent \in Seq(Samples) /\ Len(recent) <= Window
  /\ recent' = Remembered(recent, s)
  /\ those \in SUBSET DOMAIN recent'
  /\ \A i \in DOMAIN recent' : i \in those <=> recent'[i] \in good

\* A streak of a confirmed condition is long enough.
LEMMA ConfirmedLongEnough ==
  ASSUME OpenCycles <= Window, NEW s, NEW k \in Keys, NEW c, NEW p, NEW good,
         NEW those, Evidence(s, k, c, p, good, those)
  PROVE  recent'[Len(recent')] = s /\ LongEnough(Run(those), c)
<1> USE DEF Evidence
<1>1. /\ OpenCycles \in Nat \ {0} /\ Window \in Nat /\ s.at \in Nat
      /\ c \in Condition
  BY PolicyAssumption, TrackerAssumption, ReadingType DEF Sample
<1>2. PICK q \in Extend(p, c, s.at) :
        q.count >= c.cycles /\ (c.seconds = 0 \/ s.at - q.since >= c.seconds)
  BY DEF Confirmed
<1>3. Backed(recent', good, q)
  BY <1>1, <1>2, ExtendBacked
<1>4. q \in Pending
  BY <1>1, <1>2, ExtendType
<1>5. recent' \in Seq(Samples) /\ recent' # <<>> /\ recent'[Len(recent')] = s
  <2>1. recent' # <<>>
    BY <1>3 DEF Backed
  <2> QED BY <2>1, RememberedType
<1>6. c.cycles <= Window
  BY <1>1, ReadingCycles DEF Condition
<1> QED BY <1>1, <1>2, <1>3, <1>4, <1>5, <1>6, BackedLongEnough

\* Streaks are backed in every reachable state.
LEMMA StreaksInvariance ==
  ASSUME Window >= 1
  PROVE  TrackerSpec => []StreaksBacked
<1>1. TrackerInit => StreaksBacked
  BY TrackerAssumption DEF TrackerInit, StreaksBacked, Counts
<1>2. TrackerInv /\ StreaksBacked /\ [TrackerNext]_incidentVars => StreaksBacked'
  BY StreaksStep
<1> QED BY <1>1, <1>2, TrackerInvariance, PTL DEF TrackerSpec

\* A condition opens only after as many uninterrupted samples at or above its
\* threshold, with one severity, as its policy asks for, the first of them as
\* long ago as it asks for: a blind spot, a failed probe or a dip into the
\* margin starts the confirmation over (IncidentTracker.update, _sustained).
\* The samples are those that `recent` remembers, a confirmation at least.
THEOREM OpeningsAreConfirmed ==
  ASSUME OpenCycles <= Window
  PROVE  TrackerSpec => OpenConfirmed
<1>0. Window >= 1
  BY PolicyAssumption, TrackerAssumption
<1>1. TrackerInv /\ StreaksBacked /\ [TrackerNext]_incidentVars =>
        [\A k \in Keys : active[k] = {} /\ recent' # <<>> =>
           \A a \in active'[k] :
             LET good == {i \in DOMAIN recent' : \E c \in Reading(recent'[i], k) :
                            ~c.low /\ c.severity = a.severity}
             IN \E c \in Reading(recent'[Len(recent')], k) :
                  LongEnough(Run(good), c)]_incidentVars
  <2> SUFFICES ASSUME TrackerInv, StreaksBacked, [TrackerNext]_incidentVars, NEW k \in Keys,
                      active[k] = {}, recent' # <<>>, NEW a \in active'[k]
               PROVE  LET good == {i \in DOMAIN recent' :
                                     \E c \in Reading(recent'[i], k) :
                                       ~c.low /\ c.severity = a.severity}
                      IN \E c \in Reading(recent'[Len(recent')], k) :
                           LongEnough(Run(good), c)
    OBVIOUS
  <2> DEFINE good == {i \in DOMAIN recent' : \E c \in Reading(recent'[i], k) :
                        ~c.low /\ c.severity = a.severity}
             samples == OpeningSamples(k, a.severity)
  <2>1. PICK s \in Samples : Update(s)
    BY DEF TrackerNext, CommitIncident, Restart, RemoveHost,
       Fresh, incidentVars, trackerVars, ghostVars
  <2>2. /\ recent \in Seq(Samples) /\ Len(recent) <= Window
        /\ candidates[k] \in SUBSET Pending /\ Single(candidates[k])
    BY DEF TrackerInv, TrackerAgrees, TrackerTypeOK, StreaksBacked
  <2>3. recent' = Remembered(recent, s) /\ recent' \in Seq(Samples)
    BY <2>1, <2>2, RememberedType DEF Update, Remembered
  <2>4. k \in Opening(s)
    BY <2>1, KeySets DEF Update, OpenKeys
  <2>5. active'[k] = {[severity |-> d.severity, line |-> d.line] : d \in Reading(s, k)}
    BY <2>1, <2>4 DEF Update
  <2>6. PICK c \in Reading(s, k) : a.severity = c.severity
    BY <2>5
  <2>7. /\ Single(Reading(s, k)) /\ Reading(s, k) \in SUBSET Condition
        /\ c.severity \in Severities
    BY <2>6, ReadingType DEF Condition
  <2>8. ~c.low /\ Confirmed(candidates[k], c, s.at)
    BY <2>4, <2>6, <2>7, KeySets DEF Opening, Confirming, Single
  <2>9. samples \in SUBSET Samples /\ s \in samples
    BY <2>6, <2>8 DEF OpeningSamples
  <2>10. /\ \A q \in candidates[k] : q.severity = c.severity => Backed(recent, samples, q)
         /\ Counts(recent, samples) => \E q \in candidates[k] : q.severity = c.severity
    BY <2>6, <2>7 DEF StreaksBacked
  <2>11. /\ good \in SUBSET DOMAIN recent'
         /\ \A i \in DOMAIN recent' : i \in good <=> recent'[i] \in samples
    BY <2>3 DEF OpeningSamples
  <2> HIDE DEF good, samples
  <2>12. recent'[Len(recent')] = s /\ LongEnough(Run(good), c)
    <3>1. Evidence(s, k, c, candidates[k], samples, good)
      BY <2>2, <2>3, <2>6, <2>8, <2>9, <2>10, <2>11 DEF Evidence
    <3> QED BY <3>1, ConfirmedLongEnough
  <2> QED BY <2>12 DEF good
<1> QED BY <1>0, <1>1, TrackerInvariance, StreaksInvariance, PTL DEF TrackerSpec, OpenConfirmed

\* An open condition changes its severity only after as many uninterrupted
\* samples of the new one, not held by the recovery margin of the old one, as
\* its policy asks for, the first of them as long ago as it asks for
\* (IncidentTracker.update, _holds_severity).
THEOREM ChangesAreConfirmed ==
  ASSUME OpenCycles <= Window
  PROVE  TrackerSpec => ChangeConfirmed
<1>0. Window >= 1
  BY PolicyAssumption, TrackerAssumption
<1>1. TrackerInv /\ StreaksBacked /\ [TrackerNext]_incidentVars =>
        [\A k \in Keys : recent' # <<>> =>
           \A a \in active[k], b \in active'[k] : a.severity # b.severity =>
             LET good == {i \in DOMAIN recent' : \E c \in Reading(recent'[i], k) :
                            c.severity = b.severity /\ ~HoldsSeverity(c, a)}
             IN \E c \in Reading(recent'[Len(recent')], k) :
                  LongEnough(Run(good), c)]_incidentVars
  <2> SUFFICES ASSUME TrackerInv, StreaksBacked, [TrackerNext]_incidentVars, NEW k \in Keys,
                      recent' # <<>>, NEW a \in active[k], NEW b \in active'[k],
                      a.severity # b.severity
               PROVE  LET good == {i \in DOMAIN recent' :
                                     \E c \in Reading(recent'[i], k) :
                                       c.severity = b.severity /\ ~HoldsSeverity(c, a)}
                      IN \E c \in Reading(recent'[Len(recent')], k) :
                           LongEnough(Run(good), c)
    OBVIOUS
  <2> DEFINE good == {i \in DOMAIN recent' : \E c \in Reading(recent'[i], k) :
                        c.severity = b.severity /\ ~HoldsSeverity(c, a)}
             samples == ChangingSamples(k, b.severity, a)
  <2>1. /\ recent \in Seq(Samples) /\ Len(recent) <= Window
        /\ active[k] \in SUBSET OpenCondition /\ Single(active[k])
        /\ changes[k] \in SUBSET Pending /\ Single(changes[k])
    BY DEF TrackerInv, TrackerAgrees, TrackerTypeOK, StreaksBacked
  <2>2. PICK s \in Samples : Update(s)
    <3>1. active'[k] # active[k]
      BY <2>1 DEF Single
    <3> QED BY <3>1 DEF TrackerNext, CommitIncident, Restart, RemoveHost,
               Fresh, incidentVars, trackerVars, ghostVars
  <2>3. recent' = Remembered(recent, s) /\ recent' \in Seq(Samples)
    BY <2>1, <2>2, RememberedType DEF Update, Remembered
  <2>4. Single(Reading(s, k)) /\ Reading(s, k) \in SUBSET Condition
    BY ReadingType
  <2>5. k \in Changed(s)
    <3>1. k \notin Opening(s) /\ k \in OpenKeys
      BY KeySets DEF OpenKeys
    <3>2. SUFFICES ASSUME k \notin Changed(s) PROVE FALSE
      OBVIOUS
    <3>3. CASE k \in Steady(s)
      <4>1. active'[k] = {[o EXCEPT !.line = d.line] : o \in active[k], d \in Reading(s, k)}
        BY <2>2, <3>1, <3>2, <3>3 DEF Update
      <4>2. PICK o \in active[k], d \in Reading(s, k) : b = [o EXCEPT !.line = d.line]
        BY <4>1
      <4>3. o = a /\ o \in OpenCondition
        BY <2>1 DEF Single
      <4> QED BY <4>2, <4>3 DEF OpenCondition
    <3>4. CASE k \notin Steady(s)
      <4>1. b \in active[k]
        BY <2>2, <3>1, <3>2, <3>4 DEF Update
      <4> QED BY <2>1, <4>1 DEF Single
    <3> QED BY <3>3, <3>4
  <2>6. active'[k] = {[severity |-> d.severity, line |-> d.line] : d \in Reading(s, k)}
    BY <2>2, <2>5 DEF Update
  <2>7. PICK c \in Reading(s, k) : b.severity = c.severity
    BY <2>6
  <2>8. Confirmed(changes[k], c, s.at)
    BY <2>4, <2>5, <2>7 DEF Changed, Single
  <2>9. c.severity \in Severities /\ ~HoldsSeverity(c, a)
    <3>1. k \in OpenKeys /\ k \notin Steady(s)
      BY <2>5, KeySets
    <3> QED BY <2>4, <2>7, <3>1 DEF Steady, Condition
  <2>10. samples \in SUBSET Samples /\ s \in samples
    BY <2>7, <2>9 DEF ChangingSamples
  <2>11. /\ \A q \in changes[k] : q.severity = c.severity => Backed(recent, samples, q)
         /\ Counts(recent, samples) => \E q \in changes[k] : q.severity = c.severity
    BY <2>7, <2>9 DEF StreaksBacked
  <2>12. /\ good \in SUBSET DOMAIN recent'
         /\ \A i \in DOMAIN recent' : i \in good <=> recent'[i] \in samples
    BY <2>3 DEF ChangingSamples
  <2> HIDE DEF good, samples
  <2>13. recent'[Len(recent')] = s /\ LongEnough(Run(good), c)
    <3>1. Evidence(s, k, c, changes[k], samples, good)
      BY <2>1, <2>3, <2>7, <2>8, <2>10, <2>11, <2>12 DEF Evidence
    <3> QED BY <3>1, ConfirmedLongEnough
  <2> QED BY <2>7, <2>13 DEF good
<1> QED BY <1>0, <1>1, TrackerInvariance, StreaksInvariance, PTL DEF TrackerSpec, ChangeConfirmed

-------------------------------------------------------------------------------
(* The history database *)

\* What committing an item makes of a record of the database.
Written(r, item, k) ==
  [open   |-> IF k \in item.resolved THEN {}
              ELSE IF k \in Transitions(item) THEN item.active[k]
              ELSE IF item.active[k] = {} THEN r.open
              ELSE {[q EXCEPT !.line = a.line] : q \in r.open, a \in item.active[k]},
   opened |-> IF k \in item.opened THEN {item.at} ELSE r.opened,
   last   |-> IF k \in Transitions(item) THEN item.at ELSE r.last]

\* h is the database `file`, and what it is after each of the items in turn.
Replay(h, file, items) ==
  /\ h[0] = file
  /\ \A i \in 1 .. Len(items) :
       h[i] = [k \in Keys |-> Written(h[i - 1][k], items[i], k)]

\* A record of the database says the same as the tracker: the open condition,
\* if any, and when it opened.
SameAs(r, state, at) ==
  /\ r.open = state
  /\ state # {} /\ r.opened # {} => at = CHOOSE t \in r.opened : TRUE

\* As long as nothing was dropped, the database will say what the tracker does
\* once everything queued is written, except of conditions that left with
\* their host.
DurableInv ==
  ~incidentsLost => \E h :
    /\ Replay(h, saved, incidentQueue)
    /\ \A k \in Keys \ orphans : SameAs(h[Len(incidentQueue)][k], active[k], openedAt[k])

\* The writer takes one item off the replay.
LEMMA CommitReplay ==
  ASSUME TrackerInv, DurableInv, CommitIncident
  PROVE  DurableInv'
<1> SUFFICES ASSUME ~incidentsLost' PROVE DurableInv'
  BY DEF DurableInv
<1>1. /\ incidentQueue # <<>> /\ incidentQueue' = Tail(incidentQueue) /\ incidentQueue \in Seq(Item)
      /\ UNCHANGED <<active, openedAt, incidentsLost, orphans>>
  BY DEF CommitIncident, trackerVars, ghostVars, TrackerInv, TrackerAgrees, TrackerTypeOK
<1>2. PICK h :
        /\ Replay(h, saved, incidentQueue)
        /\ \A k \in Keys \ orphans :
             SameAs(h[Len(incidentQueue)][k], active[k], openedAt[k])
  BY <1>1 DEF DurableInv
<1>3. /\ Len(incidentQueue') = Len(incidentQueue) - 1
      /\ Len(incidentQueue) \in Nat /\ Len(incidentQueue) >= 1
      /\ \A i \in 1 .. Len(incidentQueue') : incidentQueue'[i] = incidentQueue[i + 1]
  BY <1>1
<1>4. saved' = [k \in Keys |-> Written(saved[k], incidentQueue[1], k)]
  <2>1. PICK item : item = incidentQueue[1] /\ item = Head(incidentQueue)
    BY <1>1
  <2>2. saved' = [k \in Keys |->
           [open   |-> Stored(item, k),
            opened |-> IF k \in item.opened THEN {item.at} ELSE saved[k].opened,
            last   |-> IF k \in Transitions(item) THEN item.at ELSE saved[k].last]]
    BY <2>1 DEF CommitIncident
  <2>3. \A k \in Keys :
           [open   |-> Stored(item, k),
            opened |-> IF k \in item.opened THEN {item.at} ELSE saved[k].opened,
            last   |-> IF k \in Transitions(item) THEN item.at ELSE saved[k].last]
           = Written(saved[k], item, k)
    BY DEF Stored, Written
  <2> QED BY <2>1, <2>2, <2>3
<1>g. PICK g : g = [i \in 0 .. Len(incidentQueue') |-> h[i + 1]]
  OBVIOUS
<1>5. g[0] = saved'
  BY <1>g, <1>2, <1>3, <1>4 DEF Replay
<1>6. ASSUME NEW i \in 1 .. Len(incidentQueue')
      PROVE  g[i] = [k \in Keys |-> Written(g[i - 1][k], incidentQueue'[i], k)]
  <2>1. /\ i \in 0 .. Len(incidentQueue') /\ i - 1 \in 0 .. Len(incidentQueue')
        /\ i + 1 \in 1 .. Len(incidentQueue) /\ (i + 1) - 1 = i /\ (i - 1) + 1 = i
    BY <1>3
  <2>2. g[i] = h[i + 1] /\ g[i - 1] = h[i]
    BY <1>g, <2>1
  <2>3. h[i + 1] = [k \in Keys |-> Written(h[i][k], incidentQueue[i + 1], k)]
    BY <1>2, <2>1 DEF Replay
  <2> QED BY <1>3, <2>2, <2>3
<1>7. g[Len(incidentQueue')] = h[Len(incidentQueue)]
  BY <1>g, <1>3
<1>8. Replay(g, saved', incidentQueue')
  BY <1>5, <1>6 DEF Replay
<1>9. \A k \in Keys \ orphans' : SameAs(g[Len(incidentQueue')][k], active'[k], openedAt'[k])
  BY <1>1, <1>2, <1>7
<1> QED BY <1>8, <1>9 DEF DurableInv

\* A sample changes nothing that the database has not been told.
LEMMA UpdateRecord ==
  ASSUME TrackerInv, NEW s \in Samples, Update(s), NEW k \in Keys, NEW r,
         k \in Opening(s) \/ SameAs(r, active[k], openedAt[k]),
         NEW item, item = [opened |-> Opening(s), changed |-> Changed(s),
                           resolved |-> Resolved(s), active |-> active', at |-> s.at]
  PROVE  SameAs(Written(r, item, k), active'[k], openedAt'[k])
<1> DEFINE w == Written(r, item, k)
<1>1. /\ active[k] \in SUBSET OpenCondition /\ Single(active[k])
      /\ Reading(s, k) \in SUBSET Condition /\ Single(Reading(s, k))
  BY ReadingType DEF TrackerInv, TrackerAgrees, TrackerTypeOK
<1>2. active[k] # {} <=> k \in OpenKeys
  BY DEF OpenKeys
<1>3. /\ active'[k] = IF k \in Opening(s) \cup Changed(s)
                      THEN {[severity |-> c.severity, line |-> c.line] : c \in Reading(s, k)}
                      ELSE IF k \in Steady(s)
                      THEN {[a EXCEPT !.line = c.line] : a \in active[k], c \in Reading(s, k)}
                      ELSE IF k \in Resolved(s) THEN {} ELSE active[k]
      /\ openedAt'[k] = IF k \in Opening(s) THEN s.at
                        ELSE IF k \in Resolved(s) THEN 0 ELSE openedAt[k]
  BY DEF Update
<1>4. /\ w.open = IF k \in Resolved(s) THEN {}
                  ELSE IF k \in Opening(s) \cup Changed(s) \cup Resolved(s) THEN active'[k]
                  ELSE IF active'[k] = {} THEN r.open
                  ELSE {[q EXCEPT !.line = a.line] : q \in r.open, a \in active'[k]}
      /\ w.opened = IF k \in Opening(s) THEN {s.at} ELSE r.opened
  BY DEF Written, Transitions
<1>5. /\ k \in Resolved(s) => k \notin Opening(s) \cup Changed(s) \cup Steady(s)
      /\ k \in Opening(s) => k \notin OpenKeys
      /\ k \in Steady(s) => k \in OpenKeys /\ Reading(s, k) # {}
  BY KeySets DEF Seen
<1> HIDE DEF w
<1>6. w.open = active'[k]
  <2>1. CASE k \in Opening(s) \cup Changed(s) \cup Resolved(s)
    BY <1>3, <1>4, <1>5, <2>1
  <2>2. CASE k \notin Opening(s) \cup Changed(s) \cup Resolved(s) /\ k \in Steady(s)
    <3>1. r.open = active[k]
      BY <2>2 DEF SameAs
    <3>2. PICK a \in OpenCondition, c \in Condition : active[k] = {a} /\ Reading(s, k) = {c}
      <4>1. PICK a \in active[k], c \in Reading(s, k) : TRUE
        BY <1>2, <1>5, <2>2
      <4> QED BY <1>1, <4>1 DEF Single
    <3> DEFINE moved == [a EXCEPT !.line = c.line]
    <3>3. active'[k] = {moved}
      BY <1>3, <2>2, <3>2
    <3>4. moved.line = c.line
      BY DEF OpenCondition
    <3> HIDE DEF moved
    <3>5. w.open = {[a EXCEPT !.line = moved.line]}
      BY <1>4, <2>2, <3>1, <3>2, <3>3
    <3> QED BY <3>3, <3>4, <3>5 DEF moved
  <2>3. CASE k \notin Opening(s) \cup Changed(s) \cup Resolved(s) \cup Steady(s)
    <3>1. r.open = active[k] /\ active'[k] = active[k]
      BY <1>3, <2>3 DEF SameAs
    <3>2. CASE active[k] = {}
      BY <1>4, <2>3, <3>1, <3>2
    <3>3. CASE active[k] # {}
      <4>1. PICK a \in OpenCondition : active[k] = {a}
        BY <1>1, <3>3 DEF Single
      <4>2. w.open = {[a EXCEPT !.line = a.line]}
        BY <1>4, <2>3, <3>1, <3>3, <4>1
      <4>3. [a EXCEPT !.line = a.line] = a
        BY DEF OpenCondition
      <4> QED BY <3>1, <4>1, <4>2, <4>3
    <3> QED BY <3>2, <3>3
  <2> QED BY <2>1, <2>2, <2>3
<1>7. ASSUME active'[k] # {}, w.opened # {}
      PROVE  openedAt'[k] = CHOOSE t \in w.opened : TRUE
  <2>1. CASE k \in Opening(s)
    BY <1>3, <1>4, <2>1
  <2>2. CASE k \notin Opening(s)
    <3>1. active[k] # {}
      BY <1>2, <1>3, <1>5, <1>7, <2>2, KeySets
    <3>2. openedAt'[k] = openedAt[k] /\ w.opened = r.opened
      BY <1>3, <1>4, <1>5, <1>7, <2>2
    <3> QED BY <1>7, <2>2, <3>1, <3>2 DEF SameAs
  <2> QED BY <2>1, <2>2
<1> QED BY <1>6, <1>7 DEF w, SameAs

\* A sample extends the replay by its item.
LEMMA UpdateReplay ==
  ASSUME TrackerInv, DurableInv, NEW s \in Samples, Update(s)
  PROVE  DurableInv'
<1> SUFFICES ASSUME ~incidentsLost' PROVE DurableInv'
  BY DEF DurableInv
<1> DEFINE item == [opened |-> Opening(s), changed |-> Changed(s),
                    resolved |-> Resolved(s), active |-> active', at |-> s.at]
           n == Len(incidentQueue)
<1>1. Enqueue(item) /\ saved' = saved /\ orphans' = orphans \ Opening(s)
  BY DEF Update
<1>2. ~incidentsLost
  BY <1>1 DEF Enqueue, TrackerInv, TrackerAgrees, TrackerTypeOK
<1>3. PICK h :
        /\ Replay(h, saved, incidentQueue)
        /\ \A k \in Keys \ orphans : SameAs(h[n][k], active[k], openedAt[k])
  BY <1>2 DEF DurableInv
<1>4. incidentQueue \in Seq(Item) /\ n \in Nat
  BY DEF TrackerInv, TrackerAgrees, TrackerTypeOK
<1>5. ASSUME NEW k \in Keys \ orphans', NEW r, r = h[n][k]
      PROVE  SameAs(Written(r, item, k), active'[k], openedAt'[k])
  <2>1. k \in Opening(s) \/ SameAs(r, active[k], openedAt[k])
    BY <1>1, <1>3, <1>5
  <2> QED BY <2>1, UpdateRecord
<1>6. CASE Transitions(item) = {} /\ \A k \in Keys : item.active[k] = {}
  <2>1. incidentQueue' = incidentQueue
    BY <1>1, <1>6 DEF Enqueue
  <2>2. Replay(h, saved', incidentQueue')
    BY <1>1, <1>3, <2>1
  <2>3. ASSUME NEW k \in Keys \ orphans'
        PROVE  SameAs(h[n][k], active'[k], openedAt'[k])
    <3>1. Written(h[n][k], item, k).open = active'[k] /\ active'[k] = {}
      BY <1>5, <1>6 DEF SameAs
    <3>2. Written(h[n][k], item, k).open = h[n][k].open
      BY <1>6 DEF Written, Transitions
    <3> QED BY <3>1, <3>2 DEF SameAs
  <2> QED BY <2>1, <2>2, <2>3 DEF DurableInv
<1>7. CASE incidentQueue' = Append(incidentQueue, item)
  <2>g. PICK g : g = [i \in 0 .. n + 1 |->
                        IF i = n + 1 THEN [k \in Keys |-> Written(h[n][k], item, k)]
                        ELSE h[i]]
    OBVIOUS
  <2>1. /\ Len(incidentQueue') = n + 1 /\ incidentQueue'[n + 1] = item
        /\ \A i \in 1 .. n : incidentQueue'[i] = incidentQueue[i]
    BY <1>4, <1>7
  <2>2. /\ g[n + 1] = [k \in Keys |-> Written(h[n][k], item, k)]
        /\ \A i \in 0 .. n : g[i] = h[i]
    BY <1>4, <2>g
  <2> HIDE DEF item
  <2>3. Replay(g, saved', incidentQueue')
    <3>1. g[0] = saved'
      BY <1>1, <1>3, <1>4, <2>2 DEF Replay
    <3>2. ASSUME NEW i \in 1 .. n + 1
          PROVE  g[i] = [k \in Keys |-> Written(g[i - 1][k], incidentQueue'[i], k)]
      <4>1. CASE i = n + 1
        <5>1. g[i - 1] = h[n]
          BY <1>4, <2>2, <4>1
        <5> QED BY <2>1, <2>2, <4>1, <5>1
      <4>2. CASE i # n + 1
        <5>1. i \in 1 .. n /\ i \in 0 .. n /\ i - 1 \in 0 .. n
          BY <1>4, <4>2
        <5>2. h[i] = [k \in Keys |-> Written(h[i - 1][k], incidentQueue[i], k)]
          BY <1>3, <5>1 DEF Replay
        <5> QED BY <2>1, <2>2, <5>1, <5>2
      <4> QED BY <4>1, <4>2
    <3> QED BY <2>1, <3>1, <3>2 DEF Replay
  <2>4. ASSUME NEW k \in Keys \ orphans'
        PROVE  SameAs(g[n + 1][k], active'[k], openedAt'[k])
    <3>1. g[n + 1][k] = Written(h[n][k], item, k)
      BY <2>2
    <3> QED BY <1>5, <3>1
  <2> QED BY <2>1, <2>3, <2>4 DEF DurableInv
<1> QED BY <1>1, <1>6, <1>7 DEF Enqueue

\* A restart begins with what the database says; a removal leaves the database
\* alone, and what was open to the orphans.
LEMMA DurableStep == TrackerInv /\ DurableInv /\ [TrackerNext]_incidentVars => DurableInv'
<1> SUFFICES ASSUME TrackerInv, DurableInv, [TrackerNext]_incidentVars PROVE DurableInv'
  OBVIOUS
<1>1. CASE Restart
  <2>1. /\ incidentQueue' = <<>> /\ orphans' = {} /\ saved' = saved
        /\ active' = [k \in Keys |-> saved[k].open]
        /\ openedAt' = [k \in Keys |-> RestoredAt(k)]
    BY <1>1 DEF Restart
  <2>2. PICK h : h[0] = saved
    <3>1. [i \in {0} |-> saved][0] = saved
      OBVIOUS
    <3> QED BY <3>1
  <2>3. Len(incidentQueue') = 0
    BY <2>1
  <2>4. Replay(h, saved', incidentQueue')
    BY <2>1, <2>2, <2>3 DEF Replay
  <2>5. ASSUME NEW k \in Keys PROVE SameAs(h[0][k], active'[k], openedAt'[k])
    BY <2>1, <2>2 DEF SameAs, RestoredAt
  <2> QED BY <2>3, <2>4, <2>5 DEF DurableInv
<1>2. CASE RemoveHost
  <2>1. /\ UNCHANGED <<incidentQueue, incidentsLost, saved>> /\ orphans' = orphans \cup OpenKeys
        /\ active' = [k \in Keys |-> {}]
    BY <1>2 DEF RemoveHost, historyVars
  <2>2. ASSUME NEW k \in Keys \ orphans', NEW r, SameAs(r, active[k], openedAt[k])
        PROVE  SameAs(r, active'[k], openedAt'[k])
    BY <2>1, <2>2 DEF SameAs, OpenKeys
  <2> QED BY <2>1, <2>2 DEF DurableInv
<1>3. CASE UNCHANGED incidentVars
  BY <1>3 DEF incidentVars, trackerVars, historyVars, ghostVars, DurableInv
<1> QED BY <1>1, <1>2, <1>3, CommitReplay, UpdateReplay DEF TrackerNext

\* With nothing queued and nothing dropped, the database holds exactly the open
\* conditions of the tracker, their critical lines and opening times included,
\* except those that left with their host: what a restart resumes is what was
\* being tracked (persist_incidents, _restore_open_incidents, restore).
THEOREM DatabaseAgrees == TrackerSpec => []DurableAgrees
<1>1. TrackerInit => DurableInv
  <2> SUFFICES ASSUME TrackerInit PROVE DurableInv
    OBVIOUS
  <2>1. PICK h : h[0] = saved
    <3>1. [i \in {0} |-> saved][0] = saved
      OBVIOUS
    <3> QED BY <3>1
  <2>a. Len(incidentQueue) = 0
    BY DEF TrackerInit
  <2>2. Replay(h, saved, incidentQueue)
    BY <2>1, <2>a DEF Replay
  <2>3. \A k \in Keys : SameAs(h[0][k], active[k], openedAt[k])
    BY <2>1 DEF TrackerInit, NoHistory, SameAs
  <2> QED BY <2>a, <2>2, <2>3 DEF DurableInv
<1>2. TrackerInv /\ DurableInv => DurableAgrees
  <2> SUFFICES ASSUME DurableInv, incidentQueue = <<>>, ~incidentsLost, NEW k \in Keys \ orphans
               PROVE  /\ saved[k].open = active[k]
                      /\ active[k] # {} /\ saved[k].opened # {}
                           => RestoredAt(k) = openedAt[k]
    BY DEF DurableAgrees, TrackerInv
  <2>1. SameAs(saved[k], active[k], openedAt[k])
    BY DEF DurableInv, Replay
  <2> QED BY <2>1 DEF SameAs, RestoredAt
<1> QED BY <1>1, <1>2, DurableStep, TrackerInvariance, PTL DEF TrackerSpec

===============================================================================
