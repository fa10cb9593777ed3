------------------------------- MODULE Scheduler -------------------------------
(*****************************************************************************)
(* The collector of mocop: one scheduler thread that refreshes the host      *)
(* inventory, submits bounded SSH probes to a worker pool, drains the ones   *)
(* that completed into the StateStore and sleeps until something is due.     *)
(* Around it run HTTP threads (manual probes, configuration updates), the    *)
(* probe and discovery workers, and the main thread that stops it.           *)
(*                                                                           *)
(* Time is kept as what the loop can tell apart: a deadline is "zero" (0.0   *)
(* or absent), "due" (passed at this iteration's clock) or "later".  The     *)
(* loop reads the clock at its top and when it wakes, so that is where       *)
(* deadlines pass.  The display-only durations of probe batches are left out. *)
(*****************************************************************************)
EXTENDS Integers, FiniteSets

CONSTANTS
  Hosts,       \* SSH aliases
  Pool,        \* worker threads of the probe pool (_MAX_PROBE_WORKERS of them)
  Configs,     \* configurations an operator may install
  MaxEdits,    \* bound: edits of the SSH host source
  MaxUpdates   \* bound: hot configuration updates

ConfigRecord == [exclude : SUBSET Hosts, workers : Nat \ {0},
                 interval : Nat \ {0}, topology : BOOLEAN]

ASSUME HostsAssumption == IsFiniteSet(Hosts)
ASSUME ConfigsAssumption == Configs # {} /\ Configs \subseteq ConfigRecord
ASSUME BoundsAssumption == MaxEdits \in Nat /\ MaxUpdates \in Nat

VARIABLES
  source, edits,                        \* the SSH config read by discovery
  config, generation, discovered,       \* guarded by _config_lock
  updating,                             \* the update_config call in progress
  incarnation, nextIncarnation, shown, polling,           \* StateStore
  runtimeHosts, runtimeInFlight, manualRequests, lastManual, \* control lock
  wakeup, waking, stop,                 \* _scheduler_wakeup and stop_event
  pc, ending, snapshot, activeHosts, inventoryGeneration, \* loop locals
  refreshDue, discovery, future,        \* the refresh of the inventory
  inFlight, inFlightHosts, completed, current, due,       \* probes
  deadline, failing, basis              \* _next_probe_at and its reasons

sourceVars   == <<source, edits>>
configVars   == <<config, generation, discovered, updating>>
storeVars    == <<incarnation, nextIncarnation, shown, polling>>
controlVars  == <<runtimeHosts, runtimeInFlight, manualRequests, lastManual>>
signalVars   == <<wakeup, waking, stop>>
loopVars     == <<pc, ending, snapshot, activeHosts, inventoryGeneration>>
refreshVars  == <<refreshDue, discovery, future>>
probeVars    == <<inFlight, inFlightHosts, completed, current, due>>
scheduleVars == <<deadline, failing, basis>>
vars == <<sourceVars, configVars, storeVars, controlVars, signalVars,
          loopVars, refreshVars, probeVars, scheduleVars>>

-------------------------------------------------------------------------------
(* Data *)

Task == [worker : Pool, host : Hosts, incarnation : Nat,
         phase : {"running", "online", "failed"}]

\* An optional value is a set of at most one element.
NoFuture == [state |-> "none", gen |-> 0, found |-> {}]

\* the hosts of the StateStore
Known == {h \in Hosts : incarnation[h] # 0}

\* What the loop's snapshot of config and generation says is still current.
UpToDateAlways == TRUE
UpToDate == snapshot.gen = generation

\* A probe belongs to the incarnation its host has now.
OwnByName(t) == t.host \in Known
Own(t) == incarnation[t.host] = t.incarnation

\* the manual requests that an inventory of hosts hs leaves queued
QueuedIfSame(hs) == IF hs = activeHosts THEN manualRequests ELSE {}
Queued(hs) == manualRequests \cap hs

\* Broken: a host that comes back finds its old state again.
SetHostsRevived(hs) ==
  /\ incarnation' = [h \in Hosts |-> IF h \in hs THEN 1 ELSE 0]
  /\ nextIncarnation' = 2
  /\ UNCHANGED <<shown, polling>>

\* StateStore.set_hosts: a removed host loses its state, a new one starts a
\* fresh incarnation (one number per call: hosts are never compared).
SetHosts(hs) ==
  /\ incarnation' = [h \in Hosts |-> IF h \notin hs THEN 0
                                     ELSE IF h \in Known THEN incarnation[h]
                                     ELSE nextIncarnation]
  /\ nextIncarnation' = IF hs \subseteq Known THEN nextIncarnation
                                              ELSE nextIncarnation + 1
  /\ shown' = [h \in Hosts |-> IF h \in hs \cap Known THEN shown[h] ELSE 0]
  /\ polling' = polling \cap hs

\* An interrupted or ended loop goes through the `finally` drain.
LeaveInner == pc' = "collect" /\ ending' = ending
LeaveLoop == pc' = "collect" /\ ending' = TRUE

Init ==
  /\ source \in SUBSET Hosts /\ edits = 0
  /\ config \in Configs /\ generation = 0 /\ discovered = {} /\ updating = {}
  /\ incarnation = [h \in Hosts |-> 0] /\ nextIncarnation = 1
  /\ shown = [h \in Hosts |-> 0] /\ polling = {}
  /\ runtimeHosts = {} /\ runtimeInFlight = {}
  /\ manualRequests = {} /\ lastManual = {}
  /\ wakeup = FALSE /\ waking = FALSE /\ stop = FALSE
  /\ pc = "top" /\ ending = FALSE /\ activeHosts = {}
  /\ snapshot = [cfg |-> config, gen |-> 0] /\ inventoryGeneration = -1
  /\ refreshDue = TRUE /\ discovery = {} /\ future = NoFuture
  /\ inFlight = {} /\ inFlightHosts = {} /\ completed = {}
  /\ current = {} /\ due = {}
  /\ deadline = [h \in Hosts |-> "zero"] /\ failing = {}
  /\ basis = [h \in Hosts |-> 0]

-------------------------------------------------------------------------------
(* The environment: operators, HTTP threads, workers, the clock *)

EditSource ==
  /\ edits < MaxEdits
  /\ source' \in (SUBSET Hosts) \ {source}
  /\ edits' = edits + 1
  /\ UNCHANGED <<configVars, storeVars, controlVars, signalVars, loopVars,
                 refreshVars, probeVars, scheduleVars>>

\* update_config resolves the inventory before it takes the config lock; a
\* failed resolution keeps the hosts discovered so far.
UpdateResolve ==
  /\ updating = {} /\ generation < MaxUpdates
  /\ \E cfg \in Configs, found \in {{}, {source}} :
       updating' = {[cfg |-> cfg, found |-> found]}
  /\ UNCHANGED <<sourceVars, config, generation, discovered, storeVars,
                 controlVars, signalVars, loopVars, refreshVars, probeVars,
                 scheduleVars>>

\* ... then installs it, the config and the generation under that lock, which
\* the scheduler holds while it submits probes ("start").
UpdateInstall ==
  /\ pc # "start"
  /\ \E u \in updating :
       LET hs == (IF u.found = {} THEN discovered ELSE UNION u.found)
                    \ u.cfg.exclude
       IN /\ SetHosts(hs)
          /\ discovered' = hs
          /\ runtimeHosts' = runtimeHosts \cap hs
          /\ manualRequests' = Queued(hs)
          /\ config' = u.cfg
  /\ generation' = generation + 1
  /\ updating' = {}
  /\ waking' = TRUE
  /\ UNCHANGED <<sourceVars, runtimeInFlight, lastManual, wakeup, stop,
                 loopVars, refreshVars, probeVars, scheduleVars>>

Requestable == runtimeHosts \ (runtimeInFlight \cup manualRequests)

\* request_probe accepts; its refusals change nothing.  A host with a stamp in
\* lastManual is accepted once its cooldown has elapsed.
RequestProbe(h) ==
  /\ h \in Requestable
  /\ manualRequests' = manualRequests \cup {h}
  /\ lastManual' = lastManual \cup {h}
  /\ waking' = TRUE
  /\ UNCHANGED <<sourceVars, configVars, storeVars, runtimeHosts,
                 runtimeInFlight, wakeup, stop, loopVars, refreshVars,
                 probeVars, scheduleVars>>

\* A signal or a restart sets stop_event; monitor.stop() wakes the loop.
Stop ==
  /\ ~stop
  /\ stop' = TRUE /\ waking' = TRUE
  /\ UNCHANGED <<sourceVars, configVars, storeVars, controlVars, wakeup,
                 loopVars, refreshVars, probeVars, scheduleVars>>

\* The set() that every one of them calls after its own change.
Wake ==
  /\ waking
  /\ wakeup' = TRUE /\ waking' = FALSE
  /\ UNCHANGED <<sourceVars, configVars, storeVars, controlVars, stop,
                 loopVars, refreshVars, probeVars, scheduleVars>>

\* A worker returns a result, or raises, which the drain reports as a failure.
FinishProbe(w) ==
  /\ \E t \in inFlight, outcome \in {"online", "failed"} :
       /\ t.worker = w /\ t.phase = "running"
       /\ inFlight' = (inFlight \ {t}) \cup {[t EXCEPT !.phase = outcome]}
  /\ waking' = TRUE
  /\ UNCHANGED <<sourceVars, configVars, storeVars, controlVars, wakeup, stop,
                 loopVars, refreshVars, inFlightHosts, completed, current, due,
                 scheduleVars>>

FinishDiscovery ==
  /\ future.state = "running"
  /\ \E found \in {{}, {source}} :
       future' = [future EXCEPT !.state = "done", !.found = found]
  /\ waking' = TRUE
  /\ UNCHANGED <<sourceVars, configVars, storeVars, controlVars, wakeup, stop,
                 loopVars, refreshDue, discovery, probeVars, scheduleVars>>

DeadlinePasses(h) ==
  /\ pc \in {"top", "waiting"}
  /\ deadline[h] = "later"
  /\ deadline' = [deadline EXCEPT ![h] = "due"]
  /\ UNCHANGED <<sourceVars, configVars, storeVars, controlVars, signalVars,
                 loopVars, refreshVars, probeVars, failing, basis>>

RefreshPasses ==
  /\ pc \in {"top", "waiting"}
  /\ ~refreshDue
  /\ refreshDue' = TRUE
  /\ UNCHANGED <<sourceVars, configVars, storeVars, controlVars, signalVars,
                 loopVars, discovery, future, probeVars, scheduleVars>>

-------------------------------------------------------------------------------
(* The scheduler thread, MonitorService.run *)

LoopTest ==
  /\ pc = "top"
  /\ IF stop THEN LeaveLoop ELSE pc' = "clear" /\ UNCHANGED ending
  /\ UNCHANGED <<sourceVars, configVars, storeVars, controlVars, signalVars,
                 snapshot, activeHosts, inventoryGeneration, refreshVars,
                 probeVars, scheduleVars>>

ClearWakeup ==
  /\ pc = "clear"
  /\ wakeup' = FALSE
  /\ pc' = "snapshot"
  /\ UNCHANGED <<sourceVars, configVars, storeVars, controlVars, waking, stop,
                 ending, snapshot, activeHosts, inventoryGeneration,
                 refreshVars, probeVars, scheduleVars>>

\* A generation not seen before makes the inventory refresh due at once.
\* Harvest a finished discovery if it still answers this generation, then
\* start the next one: in the background for topologies, else in place.
Discover ==
  /\ pc = "snapshot"
  /\ snapshot' = [cfg |-> config, gen |-> generation]
  /\ inventoryGeneration' = generation
  /\ LET refresh == refreshDue \/ generation # inventoryGeneration
         harvest == future.state = "done" /\ future.gen = generation
         launch  == future.state # "running" /\ refresh /\ ~harvest
         idle    == IF future.state = "done" THEN NoFuture ELSE future
     IN \/ /\ ~launch
           /\ discovery' = IF harvest THEN future.found ELSE {}
           /\ refreshDue' = (refresh /\ ~harvest)
           /\ future' = idle
        \/ /\ launch /\ config.topology
           /\ future' = [state |-> "running", gen |-> generation, found |-> {}]
           /\ discovery' = {}
           /\ refreshDue' = TRUE
        \/ /\ launch /\ ~config.topology
           /\ discovery' \in {{}, {source}}
           /\ refreshDue' = FALSE
           /\ future' = idle
  /\ pc' = "install"
  /\ UNCHANGED <<sourceVars, configVars, storeVars, controlVars, signalVars,
                 ending, activeHosts, probeVars, scheduleVars>>

\* _prune_schedules, called when the set of active hosts changed
PruneSchedules(hs) ==
  /\ deadline' = [h \in Hosts |-> IF h \in hs THEN deadline[h] ELSE "zero"]
  /\ failing' = failing \cap hs
  /\ basis' = [h \in Hosts |-> IF h \in hs THEN basis[h] ELSE 0]
  /\ lastManual' = lastManual \cap hs

\* Under the config lock: a snapshot that an update overtook restarts the loop
\* and drops what was discovered for it.
Install ==
  /\ pc = "install"
  /\ discovery' = {}
  /\ \/ /\ ~UpToDate
        /\ pc' = "top"
        /\ UNCHANGED <<discovered, storeVars, controlVars, activeHosts,
                       scheduleVars>>
     \/ /\ UpToDate
        /\ pc' = "collect"
        /\ discovered' = IF discovery = {} THEN discovered
                         ELSE (UNION discovery) \ snapshot.cfg.exclude
        /\ IF discovery = {} THEN UNCHANGED storeVars
                             ELSE SetHosts(discovered')
        /\ activeHosts' = discovered'
        /\ runtimeHosts' = discovered'
        /\ manualRequests' = Queued(discovered')
        /\ IF discovered' = activeHosts THEN UNCHANGED <<scheduleVars, lastManual>>
                                        ELSE PruneSchedules(discovered')
        /\ UNCHANGED runtimeInFlight
  /\ UNCHANGED <<sourceVars, config, generation, updating, signalVars, ending,
                 snapshot, inventoryGeneration, refreshDue, future, probeVars>>

\* the hosts whose deadline was computed from another poll interval, and those
\* of them that wait for a retry (_rebase_failure_backoff)
Stale == {h \in Hosts : basis[h] \notin {0, config.interval}}
StaleRetries == Stale \cap failing

\* Retry deadlines follow a changed interval, then manual requests become due
\* at once, then the cadence of healthy idle hosts follows the interval too.
Rebase ==
  LET manual  == (manualRequests \cap activeHosts) \ runtimeInFlight
      healthy == Stale \ (failing \cup inFlightHosts)
      retries == StaleRetries \ manual
  IN /\ \E passed \in SUBSET (healthy \cup retries) :
          deadline' = [h \in Hosts |->
            IF h \in passed THEN "due"
            ELSE IF h \in healthy \cup retries THEN "later"
            ELSE IF h \in manual THEN "zero" ELSE deadline[h]]
     /\ basis' = [h \in Hosts |-> IF h \in healthy \cup StaleRetries
                                  THEN config.interval ELSE basis[h]]

\* The loop rebases and then enters drain_completed with the futures that are
\* done by now; a loop that ended enters it without rebasing.
Collect ==
  /\ pc = "collect"
  /\ IF ending THEN UNCHANGED <<deadline, basis>> ELSE Rebase
  /\ completed' = {t \in inFlight : t.phase # "running"}
  /\ pc' = "drain"
  /\ UNCHANGED <<sourceVars, configVars, storeVars, controlVars, signalVars,
                 ending, snapshot, activeHosts, inventoryGeneration,
                 refreshVars, inFlight, inFlightHosts, current, due, failing>>

-------------------------------------------------------------------------------
(* drain_completed, one future at a time and outside the config lock *)

\* An active host whose incarnation the probe belongs to is rescheduled and
\* its result applied; otherwise the result is discarded.
Drain(t) ==
  /\ pc = "drain" /\ t \in completed
  /\ completed' = completed \ {t}
  /\ inFlight' = inFlight \ {t}
  /\ inFlightHosts' = inFlightHosts \ {t.host}
  /\ runtimeInFlight' = runtimeInFlight \ {t.host}
  /\ IF t.host \in activeHosts /\ Own(t)
     THEN /\ failing' = IF t.phase = "online" THEN failing \ {t.host}
                                              ELSE failing \cup {t.host}
          /\ deadline' = [deadline EXCEPT ![t.host] = "later"]
          /\ basis' = [basis EXCEPT ![t.host] = config.interval]
          /\ current' = {t}
          /\ pc' = "apply"
     ELSE UNCHANGED <<scheduleVars, current, pc>>
  /\ UNCHANGED <<sourceVars, configVars, storeVars, runtimeHosts,
                 manualRequests, lastManual, signalVars, ending, snapshot,
                 activeHosts, inventoryGeneration, refreshVars, due>>

\* StateStore.apply checks the incarnation again, under the store's own lock.
Apply(t) ==
  /\ pc = "apply" /\ t \in current
  /\ IF Own(t)
     THEN /\ shown' = [shown EXCEPT ![t.host] = t.incarnation]
          /\ polling' = polling \ {t.host}
     ELSE UNCHANGED <<shown, polling>>
  /\ current' = {}
  /\ pc' = "drain"
  /\ UNCHANGED <<sourceVars, configVars, incarnation, nextIncarnation,
                 controlVars, signalVars, ending, snapshot, activeHosts,
                 inventoryGeneration, refreshVars, inFlight, inFlightHosts,
                 completed, due, scheduleVars>>

-------------------------------------------------------------------------------
(* Submission, the wait and the end *)

DueAgain == {h \in activeHosts : deadline[h] # "later"}
DueNonZero == {h \in activeHosts \ inFlightHosts : deadline[h] = "due"}
DueHosts == {h \in activeHosts \ inFlightHosts : deadline[h] # "later"}

FreeSlotsOfAll == snapshot.cfg.workers
FreeSlots == snapshot.cfg.workers - Cardinality(inFlight)

\* The earliest deadlines that free workers can take; "zero" sorts first.
Earliest(D) ==
  LET free    == FreeSlots
      zero(S) == {h \in S : deadline[h] = "zero"}
  IN /\ D \subseteq DueHosts
     /\ \/ Cardinality(D) = free
        \/ free < 0 /\ D = {}
        \/ D = DueHosts /\ Cardinality(D) < free
     /\ D = zero(D) \/ zero(DueHosts) \subseteq D

\* begin_poll marks all selected hosts before the first probe is submitted.
Select ==
  /\ pc = "drain" /\ completed = {} /\ ~ending
  /\ \/ stop /\ LeaveLoop /\ UNCHANGED <<due, polling>>
     \/ /\ ~stop /\ ~UpToDate
        /\ pc' = "top" /\ UNCHANGED <<ending, due, polling>>
     \/ /\ ~stop /\ UpToDate
        /\ \E D \in SUBSET DueHosts :
             /\ Earliest(D)
             /\ due' = D
             /\ polling' = polling \cup (D \cap Known)
             /\ pc' = IF D = {} THEN "plan" ELSE "start"
        /\ UNCHANGED ending
  /\ UNCHANGED <<sourceVars, configVars, incarnation, nextIncarnation, shown,
                 controlVars, signalVars, snapshot, activeHosts,
                 inventoryGeneration, refreshVars, inFlight, inFlightHosts,
                 completed, current, scheduleVars>>

FreeWorkers == Pool \ {t.worker : t \in inFlight}

StartProbe(h) ==
  /\ pc = "start" /\ h \in due
  /\ \E w \in FreeWorkers :
       inFlight' = inFlight \cup {[worker |-> w, host |-> h, phase |-> "running",
                                   incarnation |-> incarnation[h]]}
  /\ inFlightHosts' = inFlightHosts \cup {h}
  /\ runtimeInFlight' = runtimeInFlight \cup {h}
  /\ manualRequests' = manualRequests \ {h}
  /\ due' = due \ {h}
  /\ pc' = IF due = {h} THEN "plan" ELSE "start"
  /\ UNCHANGED <<sourceVars, configVars, storeVars, runtimeHosts, lastManual,
                 signalVars, ending, snapshot, activeHosts,
                 inventoryGeneration, refreshVars, completed, current,
                 scheduleVars>>

\* pool.submit raises: the host is released, the rest of the batch is not
\* started and the exception ends the loop.
StartFails(h) ==
  /\ pc = "start" /\ h \in due
  /\ manualRequests' = manualRequests \ {h}
  /\ due' = {}
  /\ LeaveLoop
  /\ UNCHANGED <<sourceVars, configVars, storeVars, runtimeHosts,
                 runtimeInFlight, lastManual, signalVars, snapshot,
                 activeHosts, inventoryGeneration, refreshVars, inFlight,
                 inFlightHosts, completed, current, scheduleVars>>

\* Broken: the wakeup is cleared when the loop is about to wait.
PlanWaitClears ==
  /\ pc = "plan"
  /\ wakeup' = FALSE
  /\ pc' = "waiting"
  /\ UNCHANGED <<sourceVars, configVars, storeVars, controlVars, waking, stop,
                 ending, snapshot, activeHosts, inventoryGeneration,
                 refreshVars, probeVars, scheduleVars>>

\* stop() may have lost its wakeup to the clear at the top: look again.
PlanWait ==
  /\ pc = "plan"
  /\ IF stop THEN LeaveLoop ELSE pc' = "waiting" /\ UNCHANGED ending
  /\ UNCHANGED <<sourceVars, configVars, storeVars, controlVars, signalVars,
                 snapshot, activeHosts, inventoryGeneration, refreshVars,
                 probeVars, scheduleVars>>

\* what ends the timed wait: the refresh, unless one is running, or the
\* earliest deadline of an idle host, if a worker is free for it
TimedOutByProbe == FreeSlots > 0 /\ DueHosts # {}
TimedOut == \/ future.state = "none" /\ refreshDue
            \/ FreeSlots > 0 /\ DueHosts # {}

Awake ==
  /\ pc = "waiting"
  /\ wakeup \/ TimedOut
  /\ pc' = "top"
  /\ UNCHANGED <<sourceVars, configVars, storeVars, controlVars, signalVars,
                 ending, snapshot, activeHosts, inventoryGeneration,
                 refreshVars, probeVars, scheduleVars>>

Retire ==
  /\ pc = "drain" /\ completed = {} /\ ending
  /\ runtimeHosts' = {} /\ runtimeInFlight' = {} /\ manualRequests' = {}
  /\ pc' = "done"
  /\ UNCHANGED <<sourceVars, configVars, storeVars, lastManual, signalVars,
                 ending, snapshot, activeHosts, inventoryGeneration,
                 refreshVars, probeVars, scheduleVars>>

Ended == pc = "done" /\ UNCHANGED vars

-------------------------------------------------------------------------------

Loop ==
  \/ LoopTest \/ ClearWakeup \/ Discover \/ Install \/ Collect
  \/ (\E t \in completed : Drain(t)) \/ (\E t \in current : Apply(t))
  \/ Select \/ (\E h \in due : StartProbe(h) \/ StartFails(h))
  \/ PlanWait \/ Awake \/ Retire

Environment ==
  \/ EditSource \/ UpdateResolve \/ UpdateInstall \/ Stop \/ Wake
  \/ (\E h \in Hosts : RequestProbe(h) \/ DeadlinePasses(h))
  \/ (\E w \in Pool : FinishProbe(w))
  \/ FinishDiscovery \/ RefreshPasses

Next == Loop \/ Environment \/ Ended

Spec == Init /\ [][Next]_vars

\* The scheduler thread runs; a thread that changed something calls set();
\* probes and discoveries are cut off by their timeouts; time passes, and a
\* host source that can be read is eventually read.
Fairness ==
  /\ WF_vars(Loop) /\ WF_vars(Wake) /\ WF_vars(UpdateInstall)
  /\ \A w \in Pool : WF_vars(FinishProbe(w))
  /\ WF_vars(FinishDiscovery)
  /\ SF_vars(RefreshPasses)
  /\ \A h \in Hosts : SF_vars(DeadlinePasses(h))
  /\ SF_vars(Discover /\ discovery' # {})
  /\ SF_vars(FinishDiscovery /\ future'.found # {})

FairSpec == Spec /\ Fairness

-------------------------------------------------------------------------------
(* Properties *)

Phases == {"top", "clear", "snapshot", "install", "collect", "drain", "apply",
           "start", "plan", "waiting", "done"}

\* The types of all variables of the collector and of the state it shares.
TypeOK ==
  /\ source \in SUBSET Hosts /\ edits \in Nat
  /\ config \in Configs /\ generation \in Nat /\ discovered \in SUBSET Hosts
  /\ updating \in SUBSET [cfg : Configs, found : SUBSET SUBSET Hosts]
  /\ incarnation \in [Hosts -> Nat] /\ nextIncarnation \in Nat \ {0}
  /\ shown \in [Hosts -> Nat] /\ polling \in SUBSET Hosts
  /\ runtimeHosts \in SUBSET Hosts /\ runtimeInFlight \in SUBSET Hosts
  /\ manualRequests \in SUBSET Hosts /\ lastManual \in SUBSET Hosts
  /\ wakeup \in BOOLEAN /\ waking \in BOOLEAN /\ stop \in BOOLEAN
  /\ pc \in Phases /\ ending \in BOOLEAN /\ activeHosts \in SUBSET Hosts
  /\ snapshot \in [cfg : Configs, gen : Nat]
  /\ inventoryGeneration \in Nat \cup {-1}
  /\ refreshDue \in BOOLEAN /\ discovery \in SUBSET SUBSET Hosts
  /\ future \in [state : {"none", "running", "done"}, gen : Nat,
                 found : SUBSET SUBSET Hosts]
  /\ inFlight \in SUBSET Task /\ inFlightHosts \in SUBSET Hosts
  /\ completed \in SUBSET Task /\ current \in SUBSET Task
  /\ due \in SUBSET Hosts
  /\ deadline \in [Hosts -> {"zero", "due", "later"}]
  /\ failing \in SUBSET Hosts /\ basis \in [Hosts -> Nat]

\* No host is probed twice at once, also when it is removed and added again
\* while its old probe still runs, and no two probes share a worker.
OneProbePerHost ==
  \A t, u \in inFlight : t.host = u.host \/ t.worker = u.worker => t = u

\* What the scheduler, request_probe and the futures call "in flight" agree,
\* and a manual request is never queued behind a running probe of its host.
InFlightAgrees ==
  /\ inFlightHosts = {t.host : t \in inFlight}
  /\ pc # "done" => runtimeInFlight = inFlightHosts
  /\ manualRequests \cap runtimeInFlight = {}

\* Every inventory that the scheduler trusts names hosts of the StateStore, so
\* that the assertion after pool.submit (incarnation is not None) cannot fail,
\* and no excluded host is probed under the configuration that excludes it.
SubmittableHosts ==
  pc = "start" => due \subseteq (Known \cap discovered) \ config.exclude

\* The result of a host that was not removed since its probe started is never
\* discarded: the drain's active_host_set still holds it.
LiveResultKept ==
  \A t \in inFlight \cup current :
    t.incarnation = incarnation[t.host] => t.host \in activeHosts

\* The data shown for a host come from a probe of its own incarnation, however
\* long a probe of a removed host outlives the removal.
OwnIncarnation == \A h \in Hosts : shown[h] \in {0, incarnation[h]}

\* The dashboard shows "polling" only for a host whose probe will clear it.
PollingTruthful ==
  ~ending => \A h \in polling :
               \/ h \in due
               \/ \E t \in inFlight \cup current :
                     t.host = h /\ t.incarnation = incarnation[h]

\* The scheduler sleeps without a wakeup on its way only when nothing waits
\* for it: no update, no stop, no result, no finished discovery.
NoLostWakeup ==
  pc = "waiting" /\ ~wakeup /\ ~waking =>
    /\ snapshot.gen = generation /\ ~stop
    /\ \A t \in inFlight : t.phase = "running"
    /\ future.state # "done"

\* A queued manual probe keeps the scheduler asleep only while every worker
\* the configuration allows is busy (request_probe, "Queue one bounded host
\* probe without changing the periodic schedule").
ManualNotSleptOn ==
  pc = "waiting" /\ ~wakeup /\ ~waking /\ manualRequests # {} =>
    Cardinality(inFlight) >= config.workers

\* A step that starts a probe stays within the worker limit of the current
\* configuration, also right after the limit was lowered.
WorkerLimit ==
  [][Cardinality(inFlight') > Cardinality(inFlight)
       => Cardinality(inFlight') <= config.workers]_vars

\* An accepted manual request leaves the queue only because its probe starts,
\* its host is removed, or the collector ends.
RequestKept ==
  [][\A h \in manualRequests \ manualRequests' :
       h \in runtimeInFlight' \/ h \notin discovered' \/ ending']_vars

\* An accepted manual request is eventually served or withdrawn.
ManualProbeServed ==
  \A h \in Hosts : h \in manualRequests ~> h \notin manualRequests

\* A stop ends the scheduler thread.
StopTerminates == stop ~> pc = "done"

\* An active host is probed again and again while the collector runs.
ProbedAgain ==
  \A h \in Hosts : []<>(\/ h \in inFlightHosts \/ h \notin activeHosts
                        \/ pc = "done")

\* Once edits and updates cease, the inventory is what the host source and the
\* configuration say, whatever discoveries were in flight meanwhile.
InventoryConverges ==
  <>[](pc = "done" \/ activeHosts = source \ config.exclude)

-------------------------------------------------------------------------------
(* The inductive invariant behind the safety properties *)

Asleep == ~wakeup /\ ~waking

\* the part of the loop that works with one snapshot
Iteration == {"install", "collect", "drain", "apply", "start", "plan", "waiting"}

InventoryInv ==
  /\ discovered = Known
  /\ discovered \cap config.exclude = {}
  /\ \A h \in Hosts : incarnation[h] < nextIncarnation
  /\ snapshot.gen <= generation
  /\ snapshot.gen = generation => snapshot.cfg = config
  /\ snapshot.gen = generation /\ ~ending /\ pc \in Iteration \ {"install"}
       => activeHosts = discovered

TaskInv ==
  /\ \A t \in inFlight \cup current :
       t.incarnation # 0 /\ t.incarnation < nextIncarnation
  /\ \A t \in completed : t \in inFlight /\ t.phase # "running"
  /\ completed # {} => pc \in {"drain", "apply"}
  /\ current # {} => pc = "apply"
  /\ \A t, u \in current : t = u
  /\ due # {} => pc = "start"
  /\ ending => pc \in {"collect", "drain", "apply", "done"}
  /\ pc = "start" =>
       /\ snapshot.gen = generation
       /\ due \subseteq activeHosts \ inFlightHosts

\* What the loop has not looked at yet leaves a wakeup behind.
WakeupInv ==
  Asleep /\ ~ending =>
    /\ pc \in Iteration => snapshot.gen = generation /\ future.state # "done"
    /\ pc = "waiting" => ~stop
    /\ pc \in Iteration \ {"install", "collect"} =>
         \A t \in inFlight : t.phase = "running" \/ t \in completed

\* All of it: together with the properties it implies, it is preserved by
\* every step of the collector and of its environment.
IInv ==
  /\ TypeOK /\ InventoryInv /\ TaskInv /\ WakeupInv
  /\ OneProbePerHost /\ InFlightAgrees /\ LiveResultKept /\ OwnIncarnation
  /\ PollingTruthful

\* While a batch is being submitted, what is still to start finds a slot
\* within the worker limit: it is what WorkerLimit rests on.
BatchFits ==
  pc = "start" => Cardinality(inFlight) + Cardinality(due) <= config.workers

===============================================================================
