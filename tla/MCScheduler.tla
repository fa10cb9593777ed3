------------------------------ MODULE MCScheduler ------------------------------
(* Instances of Scheduler for TLC. *)
EXTENDS Scheduler, TLC

CONSTANTS h1, h2

Cfg(ex, w, i, topo) ==
  [exclude |-> ex, workers |-> w, interval |-> i, topology |-> topo]

\* one host that an update excludes or includes again, changing the mode too
OneHost == {Cfg({}, 2, 1, FALSE), Cfg({h1}, 1, 1, TRUE)}

\* two hosts: the worker limit and the exclusion change
TwoHosts == {Cfg({}, 2, 1, FALSE), Cfg({h2}, 1, 1, FALSE)}

\* changes of the interval only
TwoIntervals == {Cfg({}, 1, 1, FALSE), Cfg({}, 1, 2, FALSE)}

Workers == Permutations(Pool)

===============================================================================
