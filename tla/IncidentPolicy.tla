---------------------------- MODULE IncidentPolicy ----------------------------
(*****************************************************************************)
(* What one probe result says about the conditions of its host: the readings *)
(* that ThresholdIncidentPolicy derives from it, the telemetry domains it    *)
(* observed, and whether it is blind to a condition.                         *)
(*                                                                           *)
(* One numeric policy stands for those of CPU, memory, swap, pressure, disks, *)
(* GPU temperature and memory; "cpu", "disk" and "gpu_temperature" are the   *)
(* three shapes they have: a value that can be missing, a line that moves    *)
(* between samples, and a device that can leave the inventory.               *)
(*****************************************************************************)
EXTENDS Integers, FiniteSets

CONSTANTS
  Categories,      \* the categories of conditions that are considered
  Gpus,            \* identities a GPU can have
  ExpectedGpus,    \* expected_gpu_counts of the host
  Threshold,       \* the warning line of a numeric condition
  Critical,        \* its critical line
  Margin,          \* incidents.recovery_margin
  OpenCycles,      \* incidents.resource_open_cycles
  OpenSeconds,     \* incidents.resource_open_seconds
  RecoveryCycles   \* incidents.recovery_cycles

ASSUME PolicyAssumption ==
  /\ IsFiniteSet(Gpus) /\ "host" \notin Gpus
  /\ ExpectedGpus \in Nat
  /\ Threshold \in Nat /\ Critical \in Nat /\ Margin \in Nat
  /\ OpenCycles \in Nat \ {0} /\ RecoveryCycles \in Nat \ {0}
  /\ OpenSeconds \in Nat

\* the status of a probe result; any but the first is a failed probe
Statuses == {"online", "unreachable", "error"}

Single(S) == \A x, y \in S : x = y

\* A probe result.  What may be missing from it is a set of at most one
\* element; a failed query reports no GPUs.
Sample ==
  {s \in [status : Statuses, at : Nat, query : BOOLEAN,
          system : SUBSET [cpu : SUBSET Nat, disk : Nat, starved : BOOLEAN],
          gpus : SUBSET Gpus, temperature : [Gpus -> SUBSET Nat]] :
     /\ Single(s.system) /\ \A sys \in s.system : Single(sys.cpu)
     /\ \A g \in Gpus : Single(s.temperature[g])
     /\ s.status # "online" => ~s.query /\ s.system = {}
     /\ ~s.query => s.gpus = {}}

Online(s) == s.status = "online"

HostCategories == {"connectivity", "gpu_availability", "gpu_count", "cpu", "disk"}

\* A condition key is its category and the GPU it is about, if any.
Keys == {k \in (HostCategories \X {"host"}) \cup ({"gpu_temperature"} \X Gpus) :
           k[1] \in Categories}

-------------------------------------------------------------------------------
(* Conditions *)

Severities == {"warning", "critical"}

\* critical_at is None for a condition without a numeric line.
NoLine == -1

\* `low` is below_threshold: the value is inside the margin below the
\* threshold.  `near` says that it is inside the margin below the critical line.
Condition == [severity : Severities, line : Nat \cup {NoLine}, low : BOOLEAN,
              near : BOOLEAN, cycles : Nat \ {0}, seconds : Nat]

Immediate(severity) ==
  {[severity |-> severity, line |-> NoLine, low |-> FALSE, near |-> FALSE,
    cycles |-> 1, seconds |-> 0]}

\* _add_percentage
Numeric(value, line) ==
  IF value < Threshold - Margin THEN {}
  ELSE {[severity |-> IF value >= line THEN "critical" ELSE "warning",
         line |-> line, low |-> value < Threshold,
         near |-> value >= line - Margin,
         cycles |-> OpenCycles, seconds |-> OpenSeconds]}

\* The condition, if any, that sample s shows under key k.  A filesystem that
\* is short of absolute headroom is critical at any value that alerts at all.
Reading(s, k) ==
  CASE k[1] = "connectivity" ->
         IF Online(s) THEN {} ELSE Immediate("critical")
    [] k[1] = "gpu_availability" ->
         IF Online(s) /\ ~s.query THEN Immediate("critical") ELSE {}
    [] k[1] = "gpu_count" ->
         LET count == Cardinality(s.gpus)
         IN IF ~s.query \/ count = ExpectedGpus THEN {}
            ELSE Immediate(IF count < ExpectedGpus THEN "critical" ELSE "warning")
    [] k[1] = "cpu" ->
         UNION {UNION {Numeric(v, Critical) : v \in sys.cpu} : sys \in s.system}
    [] k[1] = "disk" ->
         UNION {Numeric(sys.disk, IF sys.starved THEN 0 ELSE Critical) :
                sys \in s.system}
    [] k[1] = "gpu_temperature" ->
         IF k[2] \in s.gpus
         THEN UNION {Numeric(v, Critical) : v \in s.temperature[k[2]]} ELSE {}

-------------------------------------------------------------------------------
(* Telemetry domains *)

\* condition_domains
Domains(k) ==
  CASE k[1] = "connectivity" -> {}
    [] k[1] \in {"gpu_availability", "gpu_count"} -> {<<"gpu_query", "host">>}
    [] k[1] = "cpu"  -> {<<"system", "host">>, <<"system_cpu", "host">>}
    [] k[1] = "disk" -> {<<"system", "host">>}
    [] k[1] = "gpu_temperature" ->
         {<<"gpu_present", k[2]>>, <<"gpu_temperature", k[2]>>}

\* observed_domains
Observed(s) ==
  {<<"system", "host">> : sys \in s.system}
    \cup {<<"system_cpu", "host">> : sys \in {sys \in s.system : sys.cpu # {}}}
    \cup (IF s.query THEN {<<"gpu_query", "host">>, <<"gpu_inventory", "host">>}
                     ELSE {})
    \cup ({"gpu_present"} \X s.gpus)
    \cup ({"gpu_temperature"} \X {g \in s.gpus : s.temperature[g] # {}})

\* Broken: every online sample speaks for every condition; a departed GPU
\* keeps its conditions for ever.
NeverUnknown(s, k) == FALSE
UnknownForEver(s, k) == ~(Domains(k) \subseteq Observed(s))

\* telemetry_unknown: the sample lacks a domain of the condition, unless that
\* is about a GPU that a complete inventory no longer lists.
TelemetryUnknown(s, k) ==
  LET missing == Domains(k) \ Observed(s)
      departed == /\ <<"gpu_inventory", "host">> \in Observed(s)
                  /\ \A d \in missing :
                       /\ d[1] \in {"gpu_present", "gpu_temperature"}
                       /\ <<"gpu_present", d[2]>> \notin Observed(s)
  IN missing # {} /\ ~departed

===============================================================================
