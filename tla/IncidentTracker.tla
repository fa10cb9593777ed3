---------------------------- MODULE IncidentTracker ----------------------------
(*****************************************************************************)
(* The incidents of one host: IncidentTracker confirms, escalates, holds and *)
(* resolves them sample by sample; every transition and criterion goes       *)
(* through the bounded write queue of the history database; a restart        *)
(* resumes what the database calls open; removing the host forgets them.     *)
(*                                                                           *)
(* An optional value is a set of at most one element.  Sample times are wall *)
(* clock and may step backwards.                                             *)
(*****************************************************************************)
EXTENDS IncidentPolicy, Sequences

CONSTANTS
  Samples,      \* the probe results considered
  QueueSize,    \* _QUEUE_CAPACITY of the history writer
  Window,       \* bound: how many samples `recent` remembers
  MaxRestarts,  \* bound: restarts of the process
  MaxRemovals   \* bound: removals of the host, each followed by its return

ASSUME TrackerAssumption ==
  /\ Samples \subseteq Sample
  /\ QueueSize \in Nat /\ Window \in Nat
  /\ MaxRestarts \in Nat /\ MaxRemovals \in Nat

VARIABLES
  active,      \* _active: severity and critical line of an open condition
  candidates,  \* _candidates: a condition that is being confirmed
  changes,     \* _severity_changes: a severity that is being confirmed
  recoveries,  \* _recoveries: healthy samples of an open condition
  openedAt,    \* _opened_at
  incidentQueue,  \* _IncidentStateWrite items on their way to the database
  incidentsLost,  \* whether the full queue has dropped one in this process
  saved,       \* the database: what it holds of each condition
  recent,      \* the latest samples, oldest first
  orphans,     \* open conditions that left with the host
  restarts, removals

trackerVars == <<active, candidates, changes, recoveries, openedAt>>
historyVars == <<incidentQueue, incidentsLost, saved>>
ghostVars   == <<recent, orphans>>
incidentVars == <<trackerVars, historyVars, ghostVars, restarts, removals>>

-------------------------------------------------------------------------------
(* One sample *)

Pending       == [severity : Severities, count : Nat, since : Nat]
OpenCondition == [severity : Severities, line : Nat \cup {NoLine}]

\* Broken: the incremented count is not kept.
ExtendUncounted(p, c, at) ==
  LET same == {q \in p : q.severity = c.severity}
  IN IF same = {} THEN {[severity |-> c.severity, count |-> 1, since |-> at]}
     ELSE same

\* The streak p of condition c continued by a sample at time `at`.  It starts
\* over with another severity; counting stops at the required cycles.
Extend(p, c, at) ==
  LET same == {q \in p : q.severity = c.severity}
  IN IF same = {} THEN {[severity |-> c.severity, count |-> 1, since |-> at]}
     ELSE {[q EXCEPT !.count = IF @ < c.cycles THEN @ + 1 ELSE @] : q \in same}

\* Broken: the clock is ignored.
ConfirmedByCycles(p, c, at) == \E q \in Extend(p, c, at) : q.count >= c.cycles

\* Enough cycles, and long enough by the clock (_sustained).
Confirmed(p, c, at) ==
  \E q \in Extend(p, c, at) :
    /\ q.count >= c.cycles
    /\ c.seconds = 0 \/ at - q.since >= c.seconds

\* _holds_severity: a critical condition survives a warning that is still near
\* the line under which it became critical.
HoldsSeverity(new, old) ==
  /\ old.severity = "critical" /\ new.severity = "warning"
  /\ new.line # NoLine /\ new.line = old.line /\ new.near

OpenKeys == {k \in Keys : active[k] # {}}
Seen(s)  == {k \in Keys : Reading(s, k) # {}}

\* open conditions whose severity this sample leaves as it is
Steady(s) ==
  {k \in OpenKeys : \E c \in Reading(s, k), a \in active[k] :
     c.severity = a.severity \/ HoldsSeverity(c, a)}

Changing(s) == (OpenKeys \cap Seen(s)) \ Steady(s)

Changed(s) ==
  {k \in Changing(s) : \E c \in Reading(s, k) : Confirmed(changes[k], c, s.at)}

\* Broken: dips into the margin confirm; open conditions are confirmed again.
ConfirmingDips(s) == Seen(s) \ OpenKeys
ConfirmingOpen(s) == {k \in Keys : \E c \in Reading(s, k) : ~c.low}

\* A reading below the threshold keeps a condition open but opens none.
Confirming(s) ==
  {k \in Keys \ OpenKeys : \E c \in Reading(s, k) : ~c.low}

Opening(s) ==
  {k \in Confirming(s) :
     \E c \in Reading(s, k) : Confirmed(candidates[k], c, s.at)}

\* Broken: a delayed sample speaks for a later opening.
ClearingDelayed(s) ==
  {k \in OpenKeys \ Seen(s) : Online(s) /\ ~TelemetryUnknown(s, k)}

\* Open conditions that this sample can speak for and does not show: it is
\* online, not older than their opening, and not blind to them.
Clearing(s) ==
  {k \in OpenKeys \ Seen(s) :
     Online(s) /\ s.at >= openedAt[k] /\ ~TelemetryUnknown(s, k)}

Resolved(s) == {k \in Clearing(s) : recoveries[k] + 1 >= RecoveryCycles}

-------------------------------------------------------------------------------
(* The history database *)

NoHistory == [open |-> {}, opened |-> {}, last |-> 0]

Transitions(item) == item.opened \cup item.changed \cup item.resolved

\* persist_incidents hands over the transitions of a sample and the critical
\* line of every open condition; a full queue drops them together.
Enqueue(item) ==
  IF Transitions(item) = {} /\ \A k \in Keys : item.active[k] = {}
  THEN UNCHANGED <<incidentQueue, incidentsLost>>
  ELSE IF Len(incidentQueue) < QueueSize
  THEN incidentQueue' = Append(incidentQueue, item) /\ UNCHANGED incidentsLost
  ELSE incidentsLost' = TRUE /\ UNCHANGED incidentQueue

\* Broken: a critical line is stored only with a transition.
StoredTransitions(item, k) ==
  IF k \in item.resolved THEN {}
  ELSE IF k \in Transitions(item) THEN item.active[k] ELSE saved[k].open

\* What an item leaves open under key k: a criterion updates the latest
\* transition of its condition unless that is a resolution.
Stored(item, k) ==
  IF k \in item.resolved THEN {}
  ELSE IF k \in Transitions(item) THEN item.active[k]
  ELSE IF item.active[k] = {} THEN saved[k].open
  ELSE {[q EXCEPT !.line = a.line] : q \in saved[k].open, a \in item.active[k]}

\* The opening of the restored generation: its last `opened` transition, else
\* the transition that is left of it.
RestoredAt(k) == IF saved[k].open = {} THEN 0
                 ELSE IF saved[k].opened = {} THEN saved[k].last
                 ELSE CHOOSE t \in saved[k].opened : TRUE

-------------------------------------------------------------------------------
(* Actions *)

\* the streaks, counts and remembered samples of a tracker without a past
Fresh ==
  /\ candidates' = [k \in Keys |-> {}]
  /\ changes' = [k \in Keys |-> {}]
  /\ recoveries' = [k \in Keys |-> 0]
  /\ recent' = <<>>

TrackerInit ==
  /\ active = [k \in Keys |-> {}] /\ candidates = [k \in Keys |-> {}]
  /\ changes = [k \in Keys |-> {}] /\ recoveries = [k \in Keys |-> 0]
  /\ openedAt = [k \in Keys |-> 0]
  /\ incidentQueue = <<>> /\ incidentsLost = FALSE /\ saved = [k \in Keys |-> NoHistory]
  /\ recent = <<>> /\ orphans = {} /\ restarts = 0 /\ removals = 0

\* An unseen condition loses its confirmation streaks; a seen one loses its
\* recovery; what is neither seen nor cleared is frozen.
Update(s) ==
  LET opening  == Opening(s)
      waiting  == Confirming(s) \ opening
      seen     == Seen(s)
      steady   == Steady(s)
      changing == Changing(s)
      changed  == Changed(s)
      clearing == Clearing(s)
      resolved == Resolved(s)
  IN /\ active' = [k \in Keys |->
          IF k \in opening \cup changed
          THEN {[severity |-> c.severity, line |-> c.line] : c \in Reading(s, k)}
          ELSE IF k \in steady
          THEN {[a EXCEPT !.line = c.line] : a \in active[k], c \in Reading(s, k)}
          ELSE IF k \in resolved THEN {} ELSE active[k]]
     /\ candidates' = [k \in Keys |->
          IF k \in waiting
          THEN UNION {Extend(candidates[k], c, s.at) : c \in Reading(s, k)}
          ELSE {}]
     /\ changes' = [k \in Keys |->
          IF k \in changing \ changed
          THEN UNION {Extend(changes[k], c, s.at) : c \in Reading(s, k)}
          ELSE {}]
     /\ recoveries' = [k \in Keys |->
          IF k \in seen \cup resolved THEN 0
          ELSE IF k \in clearing THEN recoveries[k] + 1 ELSE recoveries[k]]
     /\ openedAt' = [k \in Keys |-> IF k \in opening THEN s.at
                                    ELSE IF k \in resolved THEN 0
                                    ELSE openedAt[k]]
     /\ Enqueue([opened |-> opening, changed |-> changed, resolved |-> resolved,
                 active |-> active', at |-> s.at])
     /\ orphans' = orphans \ opening
     /\ recent' = LET all == Append(recent, s)
                  IN IF Len(all) > Window THEN Tail(all) ELSE all
     /\ UNCHANGED <<saved, restarts, removals>>

\* The writer commits the oldest item.
CommitIncident ==
  /\ incidentQueue # <<>>
  /\ LET item == Head(incidentQueue)
     IN saved' = [k \in Keys |->
          [open   |-> Stored(item, k),
           opened |-> IF k \in item.opened THEN {item.at} ELSE saved[k].opened,
           last   |-> IF k \in Transitions(item) THEN item.at
                                                 ELSE saved[k].last]]
  /\ incidentQueue' = Tail(incidentQueue)
  /\ UNCHANGED <<trackerVars, incidentsLost, ghostVars, restarts, removals>>

\* The process ends, in order or not, and resumes from the database.  What is
\* still queued is lost; an orderly shutdown waits for the queue to drain.
Restart ==
  /\ restarts < MaxRestarts
  /\ restarts' = restarts + 1
  /\ active' = [k \in Keys |-> saved[k].open]
  /\ openedAt' = [k \in Keys |-> RestoredAt(k)]
  /\ Fresh
  /\ incidentQueue' = <<>> /\ incidentsLost' = FALSE /\ orphans' = {}
  /\ UNCHANGED <<saved, removals>>

\* remove_hosts forgets the host without a transition; when it returns it
\* starts with nothing.
RemoveHost ==
  /\ removals < MaxRemovals
  /\ removals' = removals + 1
  /\ active' = [k \in Keys |-> {}]
  /\ openedAt' = [k \in Keys |-> 0]
  /\ Fresh
  /\ orphans' = orphans \cup OpenKeys
  /\ UNCHANGED <<historyVars, restarts>>

TrackerNext == (\E s \in Samples : Update(s)) \/ CommitIncident \/ Restart \/ RemoveHost

TrackerSpec == TrackerInit /\ [][TrackerNext]_incidentVars

\* Probes go on and the writer thread runs.
FairSpec ==
  TrackerSpec /\ WF_incidentVars(\E s \in Samples : Update(s)) /\ WF_incidentVars(CommitIncident)

-------------------------------------------------------------------------------
(* Properties *)

Item == [opened : SUBSET Keys, changed : SUBSET Keys, resolved : SUBSET Keys,
         active : [Keys -> SUBSET OpenCondition], at : Nat]

\* The types of the tracker, of the write queue and of the database.
TrackerTypeOK ==
  /\ active \in [Keys -> SUBSET OpenCondition]
  /\ candidates \in [Keys -> SUBSET Pending]
  /\ changes \in [Keys -> SUBSET Pending]
  /\ recoveries \in [Keys -> Nat] /\ openedAt \in [Keys -> Nat]
  /\ incidentQueue \in Seq(Item) /\ incidentsLost \in BOOLEAN
  /\ saved \in [Keys -> [open : SUBSET OpenCondition, opened : SUBSET Nat, last : Nat]]
  /\ recent \in Seq(Samples) /\ orphans \in SUBSET Keys
  /\ restarts \in Nat /\ removals \in Nat

\* The maps of the tracker are well typed and agree: one condition per key; what is open is not
\* also being opened; a pending severity is not the one it already has and
\* excludes a recovery under way; and a recovery ends at its limit.
TrackerAgrees ==
  /\ TrackerTypeOK
  /\ \A k \in Keys :
       /\ Single(active[k]) /\ Single(candidates[k]) /\ Single(changes[k])
       /\ candidates[k] # {} => active[k] = {}
       /\ changes[k] # {} => active[k] # {} /\ recoveries[k] = 0
       /\ \A p \in changes[k], a \in active[k] : p.severity # a.severity
       /\ recoveries[k] > 0 => active[k] # {} /\ recoveries[k] < RecoveryCycles

\* the samples at the end of `recent` that are all in good
Run(good) == {i \in good : \A j \in i .. Len(recent') : j \in good}

\* Whether a run is long enough for condition c: in samples, and by the clock
\* when its first sample is known.
LongEnough(run, c) ==
  /\ Cardinality(run) >= c.cycles
  /\ c.seconds > 0 /\ (1 \notin run \/ Len(recent') < Window) =>
       \E i \in run : /\ i - 1 \notin run
                      /\ recent'[Len(recent')].at - recent'[i].at >= c.seconds

\* A condition opens only after uninterrupted samples that showed it at or
\* above its threshold with one severity: a blind spot, a failed probe or a
\* dip into the margin starts the confirmation over.
OpenConfirmed ==
  [][\A k \in Keys : active[k] = {} /\ recent' # <<>> =>
       \A a \in active'[k] :
         LET good == {i \in DOMAIN recent' : \E c \in Reading(recent'[i], k) :
                        ~c.low /\ c.severity = a.severity}
         IN \E c \in Reading(recent'[Len(recent')], k) :
              LongEnough(Run(good), c)]_incidentVars

\* An open condition changes its severity only after uninterrupted samples
\* that showed the new one and were not held by the recovery margin.
ChangeConfirmed ==
  [][\A k \in Keys : recent' # <<>> =>
       \A a \in active[k], b \in active'[k] : a.severity # b.severity =>
         LET good == {i \in DOMAIN recent' : \E c \in Reading(recent'[i], k) :
                        c.severity = b.severity /\ ~HoldsSeverity(c, a)}
         IN \E c \in Reading(recent'[Len(recent')], k) :
              LongEnough(Run(good), c)]_incidentVars

\* Whether sample s shows that condition k is gone, told without the domains.
Speaks(s, k) ==
  /\ Online(s) /\ Reading(s, k) = {}
  /\ k[1] \in {"gpu_availability", "gpu_count", "gpu_temperature"} => s.query
  /\ k[1] \in {"cpu", "disk"} => s.system # {}
  /\ k[1] = "cpu" => \E sys \in s.system : sys.cpu # {}
  /\ k[1] = "gpu_temperature" /\ k[2] \in s.gpus
       => s.temperature[k[2]] # {}

\* An open condition resolves only on a sample that speaks for it, and only
\* after the required number of them since it was last seen: missing
\* telemetry and delayed samples are never mistaken for recovery.
ResolveConfirmed ==
  [][\A k \in OpenKeys : active'[k] = {} /\ recent' # <<>> =>
       LET n == Len(recent')
           seen == {i \in 1 .. n : Reading(recent'[i], k) # {}}
           healthy == {i \in 1 .. n :
                         /\ Speaks(recent'[i], k) /\ recent'[i].at >= openedAt[k]
                         /\ \A j \in seen : j < i}
       IN /\ n \in healthy
          /\ seen # {} => Cardinality(healthy) >= RecoveryCycles]_incidentVars

\* With nothing queued and nothing dropped, the database holds exactly the
\* open conditions of the tracker, with severity, critical line and opening
\* time, except those that left with their host; and what a restart resumes from
\* it is a tracker whose maps agree (persist_incidents, _restore_open_incidents,
\* restore).
DurableAgrees ==
  /\ TrackerAgrees
  /\ incidentQueue = <<>> /\ ~incidentsLost =>
       \A k \in Keys \ orphans :
         /\ saved[k].open = active[k]
         /\ active[k] # {} /\ saved[k].opened # {} => RestoredAt(k) = openedAt[k]

\* A filesystem below its warning threshold is never escalated ("Escalation is
\* gated on already being over the percentage threshold").
EscalatesAboveThreshold ==
  [][\A k \in OpenKeys : recent' # <<>> /\ k[1] = "disk" =>
       \A a \in active[k], b \in active'[k] :
         a.severity = "warning" /\ b.severity = "critical" =>
           \E c \in Reading(recent'[Len(recent')], k) : ~c.low]_incidentVars

Latest == recent[Len(recent)]

\* A condition that every sample from some time on calls healthy is resolved.
Recovers ==
  \A k \in Keys :
    <>[](recent # <<>> /\ Speaks(Latest, k) /\ Latest.at >= openedAt[k])
      => <>[](active[k] = {})

\* A condition that every sample from some time on shows critical, for long
\* enough by the clock, is open as critical.
Opens ==
  \A k \in Keys :
    ( /\ <>[](recent # <<>> /\ \E c \in Reading(Latest, k) :
                                 ~c.low /\ c.severity = "critical")
      /\ <>[](\A p \in candidates[k] \cup changes[k] :
                 Latest.at - p.since >= OpenSeconds) )
    => <>[](\E a \in active[k] : a.severity = "critical")

===============================================================================
