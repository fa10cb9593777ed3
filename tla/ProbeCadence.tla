----------------------------- MODULE ProbeCadence ------------------------------
(*****************************************************************************)
(* When the probe of a host also queries the processes of its GPUs.  The     *)
(* question is decided when a probe starts and its answer is merged when it  *)
(* ends; viewers come and go and hosts are removed and added in between.     *)
(*****************************************************************************)
EXTENDS Integers, FiniteSetsExt

CONSTANTS
  Interval,           \* gpu_process_poll_interval_seconds
  IdleStretch,        \* _MAX_PROCESS_INTERVAL_STRETCH
  UnattendedStretch,  \* _UNATTENDED_PROCESS_INTERVAL_STRETCH
  Modes,              \* workload modes
  LastInstant         \* bound: instants of time

ASSUME CadenceAssumption == Interval \in Nat /\ IdleStretch \in Nat \ {0}

VARIABLES
  instant, mode,      \* monotonic time; configured workloads.mode
  monitored,          \* the host is in the inventory
  cached,             \* _process_samples: [at, mode, streak], or NoSample
  hint,               \* _activity_hints
  forced,             \* _process_retry_forced
  attended,           \* _attended
  probing,            \* the probe under way: [at, mode, query], or NotProbing
  activeSince,        \* observed: activity seen since the cached query ended
  unseen              \* observed: a viewer came and no query has ended since

cadenceVars == <<instant, mode, monitored, cached, hint, forced, attended,
                 probing, activeSince, unseen>>

NoSample == [at |-> -1, mode |-> "none", streak |-> 0]
NotProbing == [at |-> -1, mode |-> "none", query |-> FALSE]

CadenceInit ==
  /\ instant = 0 /\ mode \in Modes /\ monitored = TRUE
  /\ cached = NoSample /\ hint = FALSE /\ forced = FALSE /\ attended = TRUE
  /\ probing = NotProbing /\ activeSince = FALSE /\ unseen = FALSE

PassTime ==
  /\ instant < LastInstant /\ instant' = instant + 1
  /\ UNCHANGED <<mode, monitored, cached, hint, forced, attended, probing,
                 activeSince, unseen>>

SetMode(m) ==
  /\ mode' = m /\ m # mode
  /\ UNCHANGED <<instant, monitored, cached, hint, forced, attended, probing,
                 activeSince, unseen>>

-------------------------------------------------------------------------------

\* set_attended: a returning viewer forces a query of every cached host
SetAttended(b) ==
  /\ attended' = b /\ attended # b
  /\ forced' = (forced \/ (b /\ cached # NoSample))
  /\ unseen' = b
  /\ UNCHANGED <<instant, mode, monitored, cached, hint, probing, activeSince>>

\* retain_hosts, when the inventory loses or gains the host; a probe that is
\* under way goes on
Retain(b) ==
  /\ monitored' = b /\ monitored # b
  /\ IF b THEN UNCHANGED <<cached, hint, forced>>
          ELSE cached' = NoSample /\ hint' = FALSE /\ forced' = FALSE
  /\ UNCHANGED <<instant, mode, attended, probing, activeSince, unseen>>

\* the interval of an attended host
AttendedInterval ==
  IF cached.streak > 0 /\ ~hint
  THEN Interval * Min({2 ^ cached.streak, IdleStretch})
  ELSE Interval

\* _processes_due
Due ==
  \/ forced \/ cached = NoSample \/ cached.mode # mode
  \/ instant - cached.at >= IF attended THEN AttendedInterval
                                        ELSE Interval * UnattendedStretch

Start ==
  /\ monitored /\ probing = NotProbing
  /\ probing' = [at |-> instant, mode |-> mode, query |-> Due]
  /\ UNCHANGED <<instant, mode, monitored, cached, hint, forced, attended,
                 activeSince, unseen>>

\* a probe without a result: nothing is merged
ProbeFailed ==
  /\ probing # NotProbing /\ probing' = NotProbing
  /\ UNCHANGED <<instant, mode, monitored, cached, hint, forced, attended,
                 activeSince, unseen>>

\* Broken: the hint of a sample replaces an earlier one.
LatchLast(active) == active
\* an activity hint is never lost before the next process query
Latch(active) == hint \/ active

\* _merge_process_sample.  Activity (_gpu_activity) is seen where processes run,
\* utilization or memory is high, or either is unknown.
QueryAnswered(busy, active) ==
  /\ probing.query /\ (busy => active)
  /\ cached' = [at |-> probing.at, mode |-> probing.mode,
                streak |-> IF busy THEN 0
                           ELSE IF cached = NoSample THEN 1
                           ELSE Min({cached.streak + 1, IdleStretch})]
  /\ hint' = active /\ forced' = FALSE
  /\ activeSince' = active /\ unseen' = FALSE
  /\ probing' = NotProbing
  /\ UNCHANGED <<instant, mode, monitored, attended>>

QueryUnavailable(active) ==
  /\ probing.query
  /\ hint' = Latch(active) /\ forced' = TRUE
  /\ activeSince' = (activeSince \/ active)
  /\ probing' = NotProbing
  /\ UNCHANGED <<instant, mode, monitored, cached, attended, unseen>>

CoreOnly(active) ==
  /\ probing # NotProbing /\ ~probing.query
  /\ hint' = Latch(active)
  /\ activeSince' = (activeSince \/ active)
  /\ probing' = NotProbing
  /\ UNCHANGED <<instant, mode, monitored, cached, forced, attended, unseen>>

CadenceNext ==
  \/ PassTime \/ Start \/ ProbeFailed
  \/ \E m \in Modes : SetMode(m)
  \/ \E b \in BOOLEAN : SetAttended(b) \/ Retain(b) \/ QueryUnavailable(b) \/ CoreOnly(b)
  \/ \E busy, active \in BOOLEAN : QueryAnswered(busy, active)

CadenceSpec == CadenceInit /\ [][CadenceNext]_cadenceVars

-------------------------------------------------------------------------------
(* Properties *)

\* A probe that starts without the process query leaves nobody with an old
\* picture: no viewer has come since the last query was answered, no activity has
\* been reported for an interval since, and an idle host waits four intervals at
\* most ("detection latency never exceeds the base interval", _processes_due).
SkippedOnlyWhenFresh ==
  [][Start /\ ~probing'.query =>
       /\ attended => ~unseen
       /\ attended /\ activeSince => instant - cached.at < Interval
       /\ attended => instant - cached.at < IdleStretch * Interval]_cadenceVars
===============================================================================
