--------------------------- MODULE MCIncidentTracker ---------------------------
(* Instances of IncidentTracker for TLC: the lines are at 2 and 4, the margin *)
(* is 1, so that value 0 is healthy, 1 below the threshold but inside the     *)
(* margin, 2 a warning, 3 a warning near the critical line and 4 critical.    *)
EXTENDS IncidentTracker, TLC

CONSTANTS g1

NoTemperature == [g \in Gpus |-> {}]

Offline(t) ==
  [status |-> "unreachable", at |-> t, query |-> FALSE, system |-> {}, gpus |-> {},
   temperature |-> NoTemperature]

\* a host without GPUs whose system section holds sys
System(sys, t) ==
  [status |-> "online", at |-> t, query |-> TRUE, system |-> sys, gpus |-> {},
   temperature |-> NoTemperature]

Disk(v, starved) == {[cpu |-> {}, disk |-> v, starved |-> starved]}
Cpu(cpu)         == {[cpu |-> cpu, disk |-> 0, starved |-> FALSE]}

\* a filesystem in every band, with and without absolute headroom
DiskSamples ==
  UNION {{Offline(t), System({}, t)}
    \cup {System(Disk(v, FALSE), t) : v \in 0 .. 4}
    \cup {System(Disk(v, TRUE), t) : v \in {1, 3}} : t \in {0, 1}}

\* a sample in which the GPU reports its temperature, or none
Hot(temp, t) ==
  [System({}, t) EXCEPT !.gpus = {g1}, !.temperature = (g1 :> temp)]

\* A GPU that answers, loses a reading, departs or is not queried, beside a
\* CPU that is measured or not; what lasts has two times, so that a condition
\* that lasts is a behaviour of changing states.
GpuSamples ==
  {Offline(0), [System({}, 0) EXCEPT !.query = FALSE],
   System(Cpu({}), 0), System(Cpu({4}), 0), Hot({}, 0), Hot({2}, 0)}
    \cup {System(Cpu({0}), t) : t \in {0, 1}}
    \cup {Hot({v}, t) : v \in {0, 4}, t \in {0, 1}}

\* nothing is stored here: the queue and the restart are instantiated in MCStorage
UnstoredNext == (\E s \in Samples : Update(s)) \/ RemoveHost
UnstoredSpec == TrackerInit /\ [][UnstoredNext]_incidentVars
UnstoredFairSpec == UnstoredSpec /\ WF_incidentVars(\E s \in Samples : Update(s))

===============================================================================
