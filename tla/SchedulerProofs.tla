---------------------------- MODULE SchedulerProofs ----------------------------
(*****************************************************************************)
(* Proofs that the safety properties of Scheduler hold for every set of      *)
(* hosts, every worker pool, every set of configurations and every bound.    *)
(*****************************************************************************)
EXTENDS Scheduler, FiniteSetTheorems, TLAPS

\* the one-line names of conditions that the actions share
USE DEF UpToDate, Own, Queued, Requestable

-------------------------------------------------------------------------------
(* Types *)

\* The initial values have their types.
LEMMA TypeInit == Init => TypeOK
<1> SUFFICES ASSUME Init PROVE TypeOK
  OBVIOUS
<1>1. /\ snapshot \in [cfg : Configs, gen : Nat]
      /\ future \in [state : {"none", "running", "done"}, gen : Nat,
                     found : SUBSET SUBSET Hosts]
  BY DEF Init, NoFuture
<1>2. /\ inFlight \in SUBSET Task /\ completed \in SUBSET Task
      /\ current \in SUBSET Task
      /\ updating \in SUBSET [cfg : Configs, found : SUBSET SUBSET Hosts]
  BY DEF Init
<1>3. /\ deadline \in [Hosts -> {"zero", "due", "later"}]
      /\ incarnation \in [Hosts -> Nat] /\ shown \in [Hosts -> Nat]
      /\ basis \in [Hosts -> Nat] /\ nextIncarnation \in Nat \ {0}
      /\ inventoryGeneration \in Nat \cup {-1}
  BY DEF Init
<1>4. pc \in Phases
  BY DEF Init, Phases
<1> HIDE DEF Phases
<1> QED BY <1>1, <1>2, <1>3, <1>4 DEF Init, TypeOK

\* Installing an inventory keeps the StateStore well typed.
LEMMA SetHostsType ==
  ASSUME TypeOK, NEW hs \in SUBSET Hosts, SetHosts(hs)
  PROVE  /\ incarnation' \in [Hosts -> Nat] /\ nextIncarnation' \in Nat \ {0}
         /\ shown' \in [Hosts -> Nat] /\ polling' \in SUBSET Hosts
BY DEF TypeOK, SetHosts, Known

\* Every step of the environment keeps the types.
LEMMA TypeEnvironment == TypeOK /\ Environment => TypeOK'
<1> SUFFICES ASSUME TypeOK, Environment PROVE TypeOK'
  OBVIOUS
<1> USE DEF TypeOK, sourceVars, configVars, storeVars, controlVars, signalVars,
            loopVars, refreshVars, probeVars, scheduleVars
<1>1. CASE EditSource BY <1>1 DEF EditSource
<1>2. CASE UpdateResolve BY <1>2 DEF UpdateResolve
<1>3. CASE UpdateInstall
  <2>1. PICK u \in updating :
          LET hs == (IF u.found = {} THEN discovered ELSE UNION u.found)
                       \ u.cfg.exclude
          IN /\ SetHosts(hs)
             /\ discovered' = hs
             /\ runtimeHosts' = runtimeHosts \cap hs
             /\ manualRequests' = manualRequests \cap hs
             /\ config' = u.cfg
    BY <1>3 DEF UpdateInstall
  <2>2. u \in [cfg : Configs, found : SUBSET SUBSET Hosts]
    OBVIOUS
  <2>3. discovered' \in SUBSET Hosts /\ SetHosts(discovered')
    BY <2>1, <2>2
  <2>4. /\ incarnation' \in [Hosts -> Nat] /\ nextIncarnation' \in Nat \ {0}
        /\ shown' \in [Hosts -> Nat] /\ polling' \in SUBSET Hosts
    BY <2>3, SetHostsType
  <2> QED BY <1>3, <2>1, <2>2, <2>3, <2>4 DEF UpdateInstall
<1>4. CASE Stop BY <1>4 DEF Stop
<1>5. CASE Wake BY <1>5 DEF Wake
<1>6. ASSUME NEW h \in Hosts, RequestProbe(h) PROVE TypeOK'
  BY <1>6 DEF RequestProbe
<1>7. ASSUME NEW h \in Hosts, DeadlinePasses(h) PROVE TypeOK'
  BY <1>7 DEF DeadlinePasses
<1>8. ASSUME NEW w \in Pool, FinishProbe(w) PROVE TypeOK'
  <2>1. PICK t \in inFlight, outcome \in {"online", "failed"} :
          inFlight' = (inFlight \ {t}) \cup {[t EXCEPT !.phase = outcome]}
    BY <1>8 DEF FinishProbe
  <2>2. [t EXCEPT !.phase = outcome] \in Task
    BY <2>1 DEF Task
  <2>3. inFlight' \in SUBSET Task
    BY <2>1, <2>2
  <2> QED BY <1>8, <2>3 DEF FinishProbe
<1>9. CASE FinishDiscovery
  <2>1. future' \in [state : {"none", "running", "done"}, gen : Nat,
                     found : SUBSET SUBSET Hosts]
    <3>1. PICK found \in {{}, {source}} :
            future' = [future EXCEPT !.state = "done", !.found = found]
      BY <1>9 DEF FinishDiscovery
    <3>2. found \in SUBSET SUBSET Hosts
      OBVIOUS
    <3> QED BY <3>1, <3>2
  <2> QED BY <1>9, <2>1 DEF FinishDiscovery
<1>10. CASE RefreshPasses BY <1>10 DEF RefreshPasses
<1> QED
  BY <1>1, <1>2, <1>3, <1>4, <1>5, <1>6, <1>7, <1>8, <1>9, <1>10
  DEF Environment

\* Every step of the scheduler thread keeps the types.
LEMMA TypeLoop == TypeOK /\ Loop => TypeOK'
<1> SUFFICES ASSUME TypeOK, Loop PROVE TypeOK'
  OBVIOUS
<1> USE DEF TypeOK, Phases, sourceVars, configVars, storeVars, controlVars,
            signalVars, loopVars, refreshVars, probeVars, scheduleVars
<1>1. CASE LoopTest BY <1>1 DEF LoopTest, LeaveLoop
<1>2. CASE ClearWakeup BY <1>2 DEF ClearWakeup
<1>3. CASE Discover
  <2>1. /\ snapshot' \in [cfg : Configs, gen : Nat]
        /\ discovery' \in SUBSET SUBSET Hosts /\ refreshDue' \in BOOLEAN
    BY <1>3 DEF Discover
  <2>2. future' \in [state : {"none", "running", "done"}, gen : Nat,
                     found : SUBSET SUBSET Hosts]
    BY <1>3 DEF Discover, NoFuture
  <2> QED BY <1>3, <2>1, <2>2 DEF Discover
<1>4. CASE Install
  <2>1. CASE snapshot.gen # generation BY <1>4, <2>1 DEF Install
  <2>2. CASE snapshot.gen = generation
    <3>1. discovered' \in SUBSET Hosts
      BY <1>4, <2>2 DEF Install
    <3>2. /\ incarnation' \in [Hosts -> Nat] /\ nextIncarnation' \in Nat \ {0}
          /\ shown' \in [Hosts -> Nat] /\ polling' \in SUBSET Hosts
      BY <1>4, <2>2, <3>1, SetHostsType DEF Install
    <3>3. /\ deadline' \in [Hosts -> {"zero", "due", "later"}]
          /\ failing' \in SUBSET Hosts /\ basis' \in [Hosts -> Nat]
          /\ lastManual' \in SUBSET Hosts
      BY <1>4, <2>2, <3>1 DEF Install, PruneSchedules
    <3> QED BY <1>4, <2>2, <3>1, <3>2, <3>3 DEF Install
  <2> QED BY <2>1, <2>2
<1>5. CASE Collect
  <2>1. config.interval \in Nat
    BY ConfigsAssumption DEF ConfigRecord
  <2>2. /\ deadline' \in [Hosts -> {"zero", "due", "later"}]
        /\ basis' \in [Hosts -> Nat]
    BY <1>5, <2>1 DEF Collect, Rebase
  <2> QED BY <1>5, <2>2 DEF Collect
<1>6. ASSUME NEW t \in completed, Drain(t) PROVE TypeOK'
  <2>1. config.interval \in Nat /\ t.host \in Hosts
    BY ConfigsAssumption DEF ConfigRecord, Task
  <2> QED BY <1>6, <2>1 DEF Drain
<1>7. ASSUME NEW t \in current, Apply(t) PROVE TypeOK'
  BY <1>7 DEF Apply, Task
<1>8. CASE Select
  <2>1. due' \in SUBSET Hosts /\ polling' \in SUBSET Hosts
    BY <1>8 DEF Select, DueHosts, Known
  <2>2. pc' \in Phases /\ ending' \in BOOLEAN
    BY <1>8 DEF Select, LeaveLoop
  <2> QED BY <1>8, <2>1, <2>2 DEF Select
<1>9. ASSUME NEW h \in due, StartProbe(h) PROVE TypeOK'
  <2>1. PICK w \in Pool :
          inFlight' = inFlight \cup
            {[worker |-> w, host |-> h, phase |-> "running",
              incarnation |-> incarnation[h]]}
    BY <1>9 DEF StartProbe, FreeWorkers
  <2>2. inFlight' \in SUBSET Task
    BY <2>1 DEF Task
  <2> QED BY <1>9, <2>2 DEF StartProbe
<1>10. ASSUME NEW h \in due, StartFails(h) PROVE TypeOK'
  BY <1>10 DEF StartFails, LeaveLoop
<1>11. CASE PlanWait BY <1>11 DEF PlanWait, LeaveLoop
<1>12. CASE Awake BY <1>12 DEF Awake
<1>13. CASE Retire BY <1>13 DEF Retire
<1> QED
  BY <1>1, <1>2, <1>3, <1>4, <1>5, <1>6, <1>7, <1>8, <1>9, <1>10, <1>11,
     <1>12, <1>13
  DEF Loop

\* All variables of the collector keep their types.
THEOREM TypeCorrect == Spec => []TypeOK
<1>1. TypeOK /\ UNCHANGED vars => TypeOK'
  BY DEF TypeOK, vars, sourceVars, configVars, storeVars, controlVars,
         signalVars, loopVars, refreshVars, probeVars, scheduleVars
<1>2. TypeOK /\ [Next]_vars => TypeOK'
  BY <1>1, TypeEnvironment, TypeLoop DEF Next, Ended
<1> QED BY <1>2, TypeInit, PTL DEF Spec

-------------------------------------------------------------------------------
(* The inductive invariant *)

\* What StateStore.set_hosts does to an inventory: it becomes the known hosts,
\* and no surviving or earlier incarnation number is given out again.
LEMMA SetHostsEffect ==
  ASSUME TypeOK, InventoryInv, OwnIncarnation,
         NEW hs \in SUBSET Hosts, SetHosts(hs)
  PROVE  /\ Known' = hs
         /\ \A h \in Hosts : incarnation'[h] < nextIncarnation'
         /\ \A h \in Hosts : h \in hs /\ incarnation[h] # 0
                               => incarnation'[h] = incarnation[h]
         /\ \A h \in Hosts : incarnation'[h] \in {0, incarnation[h], nextIncarnation}
         /\ nextIncarnation' >= nextIncarnation
         /\ OwnIncarnation'
         /\ polling' = polling \cap hs
<1> USE DEF TypeOK, InventoryInv, OwnIncarnation, SetHosts, Known
<1>1. Known' = hs
  OBVIOUS
<1>2. \A h \in Hosts : incarnation'[h] < nextIncarnation'
  OBVIOUS
<1>3. OwnIncarnation'
  OBVIOUS
<1> QED BY <1>1, <1>2, <1>3

\* The hosts whose probe is running or being applied keep a live incarnation
\* through a change of inventory, or lose it for good.
LEMMA SetHostsTasks ==
  ASSUME IInv, NEW hs \in SUBSET Hosts, SetHosts(hs), pc # "start",
         UNCHANGED <<inFlight, current, due, ending>>
  PROVE  /\ \A t \in inFlight \cup current :
               /\ t.incarnation < nextIncarnation'
               /\ t.incarnation = incarnation'[t.host]
                    => t.incarnation = incarnation[t.host] /\ t.host \in hs
         /\ PollingTruthful'
<1>1. \A t \in inFlight \cup current :
         t \in Task /\ t.incarnation # 0 /\ t.incarnation < nextIncarnation
  BY DEF IInv, TypeOK, TaskInv
<1>2. \A t \in inFlight \cup current : t.host \in Hosts /\ t.incarnation \in Nat
  BY <1>1 DEF Task
<1>3. TypeOK /\ InventoryInv /\ OwnIncarnation /\ PollingTruthful /\ TaskInv
  BY DEF IInv
<1>4. /\ Known' = hs
      /\ \A h \in Hosts : h \in hs /\ incarnation[h] # 0
                            => incarnation'[h] = incarnation[h]
      /\ \A h \in Hosts : incarnation'[h] \in {0, incarnation[h], nextIncarnation}
      /\ nextIncarnation' >= nextIncarnation
      /\ polling' = polling \cap hs
  BY <1>3, SetHostsEffect
<1>5. nextIncarnation \in Nat /\ nextIncarnation' \in Nat
  BY <1>3, SetHostsType DEF TypeOK
<1>6. \A t \in inFlight \cup current :
         /\ t.incarnation < nextIncarnation'
         /\ t.incarnation = incarnation'[t.host]
              => t.incarnation = incarnation[t.host] /\ t.host \in hs
  BY <1>1, <1>2, <1>4, <1>5 DEF Known
<1>7. PollingTruthful'
  BY <1>1, <1>2, <1>3, <1>4 DEF PollingTruthful, TaskInv, TypeOK
<1> QED BY <1>6, <1>7

\* Every step of the environment preserves the inductive invariant.
LEMMA InvEnvironment == IInv /\ TypeOK' /\ Environment => IInv'
<1> SUFFICES ASSUME IInv, TypeOK', Environment PROVE IInv'
  OBVIOUS
<1> USE DEF IInv, InventoryInv, TaskInv, WakeupInv, OneProbePerHost,
            InFlightAgrees, LiveResultKept, OwnIncarnation, PollingTruthful,
            Known, Asleep, Iteration, sourceVars, configVars, storeVars,
            controlVars, signalVars, loopVars, refreshVars, probeVars,
            scheduleVars
<1>1. CASE EditSource BY <1>1 DEF EditSource
<1>2. CASE UpdateResolve BY <1>2 DEF UpdateResolve
<1>3. CASE UpdateInstall
  <2>1. PICK u \in updating :
          LET hs == (IF u.found = {} THEN discovered ELSE UNION u.found)
                       \ u.cfg.exclude
          IN /\ SetHosts(hs)
             /\ discovered' = hs
             /\ runtimeHosts' = runtimeHosts \cap hs
             /\ manualRequests' = manualRequests \cap hs
             /\ config' = u.cfg
    BY <1>3 DEF UpdateInstall
  <2>2. discovered' \in SUBSET Hosts /\ SetHosts(discovered')
    BY <2>1 DEF TypeOK
  <2>3. discovered' \cap config'.exclude = {}
    BY <2>1
  <2>4. InventoryInv'
    <3>1. Known' = discovered' /\ \A h \in Hosts : incarnation'[h] < nextIncarnation'
      BY <2>2, SetHostsEffect
    <3>2. snapshot'.gen <= generation' /\ snapshot'.gen # generation'
      BY <1>3 DEF UpdateInstall, TypeOK
    <3> QED BY <2>3, <3>1, <3>2
  <2>5. PollingTruthful' /\ TaskInv' /\ LiveResultKept'
    BY <1>3, <2>2, SetHostsTasks DEF UpdateInstall
  <2>6. OwnIncarnation'
    BY <2>2, SetHostsEffect
  <2>7. WakeupInv' /\ OneProbePerHost'
    BY <1>3 DEF UpdateInstall
  <2>8. InFlightAgrees'
    BY <1>3, <2>1 DEF UpdateInstall
  <2> QED BY <2>4, <2>5, <2>6, <2>7, <2>8
<1>4. CASE Stop BY <1>4 DEF Stop
<1>5. CASE Wake BY <1>5 DEF Wake
<1>6. ASSUME NEW h \in Hosts, RequestProbe(h) PROVE IInv'
  BY <1>6 DEF RequestProbe
<1>7. ASSUME NEW h \in Hosts, DeadlinePasses(h) PROVE IInv'
  BY <1>7 DEF DeadlinePasses
<1>8. ASSUME NEW w \in Pool, FinishProbe(w) PROVE IInv'
  <2>1. PICK t \in inFlight, outcome \in {"online", "failed"} :
          /\ t.phase = "running"
          /\ inFlight' = (inFlight \ {t}) \cup {[t EXCEPT !.phase = outcome]}
    BY <1>8 DEF FinishProbe
  <2> DEFINE r == [t EXCEPT !.phase = outcome]
  <2>2. /\ r.host = t.host /\ r.worker = t.worker
        /\ r.incarnation = t.incarnation /\ r.phase # "running"
    BY <2>1 DEF TypeOK, Task
  <2>3. inFlight' = (inFlight \ {t}) \cup {r}
    BY <2>1
  <2> HIDE DEF r
  <2>4. InventoryInv' /\ WakeupInv' /\ OwnIncarnation'
    BY <1>8 DEF FinishProbe
  <2>5. TaskInv'
    BY <1>8, <2>1, <2>2, <2>3 DEF FinishProbe
  <2>6. OneProbePerHost'
    BY <2>2, <2>3
  <2>7. InFlightAgrees'
    BY <1>8, <2>2, <2>3 DEF FinishProbe
  <2>8. LiveResultKept' /\ PollingTruthful'
    BY <1>8, <2>2, <2>3 DEF FinishProbe
  <2> QED BY <2>4, <2>5, <2>6, <2>7, <2>8
<1>9. CASE FinishDiscovery BY <1>9 DEF FinishDiscovery
<1>10. CASE RefreshPasses BY <1>10 DEF RefreshPasses
<1> QED
  BY <1>1, <1>2, <1>3, <1>4, <1>5, <1>6, <1>7, <1>8, <1>9, <1>10
  DEF Environment

\* Every step of the scheduler thread preserves the inductive invariant.
LEMMA InvLoop == IInv /\ TypeOK' /\ Loop => IInv'
<1> SUFFICES ASSUME IInv, TypeOK', Loop PROVE IInv'
  OBVIOUS
<1> USE DEF IInv, InventoryInv, TaskInv, WakeupInv, OneProbePerHost,
            InFlightAgrees, LiveResultKept, OwnIncarnation, PollingTruthful,
            Known, Asleep, Iteration, LeaveLoop, sourceVars, configVars,
            storeVars, controlVars, signalVars, loopVars, refreshVars,
            probeVars, scheduleVars
<1>1. CASE LoopTest BY <1>1 DEF LoopTest
<1>2. CASE ClearWakeup BY <1>2 DEF ClearWakeup
<1>3. CASE Discover
  <2>1. future'.state # "done"
    BY <1>3 DEF Discover, NoFuture, TypeOK
  <2>2. /\ snapshot'.gen = generation' /\ snapshot'.cfg = config'
        /\ snapshot'.gen <= generation'
    BY <1>3 DEF Discover, TypeOK
  <2> QED BY <1>3, <2>1, <2>2 DEF Discover
<1>4. CASE Install
  <2>1. CASE snapshot.gen # generation BY <1>4, <2>1 DEF Install
  <2>2. CASE snapshot.gen = generation
    <3>1. discovered' \in SUBSET Hosts
      BY DEF TypeOK
    <3>a. /\ snapshot.cfg = config /\ activeHosts' = discovered'
          /\ manualRequests' = manualRequests \cap discovered'
          /\ pc' = "collect"
      BY <1>4, <2>2 DEF Install
    <3>2. CASE discovery = {}
      <4>1. discovered' = discovered /\ UNCHANGED storeVars
        BY <1>4, <2>2, <3>2 DEF Install
      <4>2. InventoryInv' /\ OwnIncarnation' /\ PollingTruthful'
        BY <1>4, <3>a, <4>1 DEF Install
      <4>3. TaskInv' /\ LiveResultKept'
        BY <1>4, <3>a, <4>1 DEF Install, TypeOK, Task
      <4>4. WakeupInv' /\ OneProbePerHost' /\ InFlightAgrees'
        BY <1>4, <2>2, <3>a DEF Install
      <4> QED BY <4>2, <4>3, <4>4
    <3>3. CASE discovery # {}
      <4>1. SetHosts(discovered')
        BY <1>4, <2>2, <3>3 DEF Install
      <4>2. /\ Known' = discovered' /\ OwnIncarnation'
            /\ \A h \in Hosts : incarnation'[h] < nextIncarnation'
        BY <3>1, <4>1, SetHostsEffect
      <4>3. InventoryInv'
        <5>1. config'.exclude = snapshot.cfg.exclude
          BY <1>4, <3>a DEF Install
        <5>2. \A h \in discovered' : h \notin snapshot.cfg.exclude
          BY <1>4, <2>2, <3>3 DEF Install
        <5>3. discovered' \cap config'.exclude = {}
          BY <5>1, <5>2
        <5> QED BY <1>4, <3>a, <4>2, <5>3 DEF Install
      <4>4. /\ \A t \in inFlight \cup current :
                /\ t.incarnation < nextIncarnation'
                /\ t.incarnation = incarnation'[t.host]
                     => t.incarnation = incarnation[t.host] /\ t.host \in discovered'
            /\ PollingTruthful'
        BY <1>4, <3>1, <3>a, <4>1, SetHostsTasks DEF Install
      <4>5. TaskInv' /\ LiveResultKept'
        BY <1>4, <3>a, <4>4 DEF Install
      <4>6. WakeupInv' /\ OneProbePerHost' /\ InFlightAgrees'
        BY <1>4, <2>2, <3>a DEF Install
      <4> QED BY <4>2, <4>3, <4>4, <4>5, <4>6
    <3> QED BY <3>2, <3>3
  <2> QED BY <2>1, <2>2
<1>5. CASE Collect BY <1>5 DEF Collect
<1>6. ASSUME NEW t \in completed, Drain(t) PROVE IInv'
  <2>1. /\ t \in inFlight /\ current = {} /\ ~(\E u \in inFlight \ {t} : u.host = t.host)
    BY <1>6 DEF Drain
  <2>2. InventoryInv' /\ WakeupInv' /\ OneProbePerHost' /\ OwnIncarnation'
    BY <1>6 DEF Drain
  <2>3. TaskInv'
    BY <1>6, <2>1 DEF Drain
  <2>4. InFlightAgrees' /\ LiveResultKept'
    BY <1>6, <2>1 DEF Drain
  <2>5. PollingTruthful'
    BY <1>6, <2>1 DEF Drain
  <2> QED BY <2>2, <2>3, <2>4, <2>5
<1>7. ASSUME NEW t \in current, Apply(t) PROVE IInv'
  <2>1. OwnIncarnation'
    BY <1>7 DEF Apply, TypeOK, Task
  <2>2. PollingTruthful'
    BY <1>7 DEF Apply
  <2> QED BY <1>7, <2>1, <2>2 DEF Apply
<1>8. CASE Select
  <2>1. PollingTruthful' BY <1>8 DEF Select, DueHosts
  <2>2. TaskInv' BY <1>8 DEF Select, DueHosts
  <2> QED BY <1>8, <2>1, <2>2 DEF Select
<1>9. ASSUME NEW h \in due, StartProbe(h) PROVE IInv'
  <2>1. PICK w \in FreeWorkers :
          inFlight' = inFlight \cup
            {[worker |-> w, host |-> h, phase |-> "running",
              incarnation |-> incarnation[h]]}
    BY <1>9 DEF StartProbe
  <2> DEFINE r == [worker |-> w, host |-> h, phase |-> "running",
                   incarnation |-> incarnation[h]]
  <2>2. /\ r.host = h /\ r.worker = w /\ r.phase = "running"
        /\ r.incarnation = incarnation[h]
        /\ inFlight' = inFlight \cup {r}
    BY <2>1
  <2> HIDE DEF r
  <2>3. h \in Hosts /\ h \in activeHosts \ inFlightHosts /\ h \in Known
    BY <1>9 DEF StartProbe, TypeOK
  <2>4. InventoryInv' /\ OwnIncarnation'
    BY <1>9 DEF StartProbe
  <2>5. WakeupInv'
    BY <1>9, <2>2 DEF StartProbe
  <2>6. TaskInv' /\ LiveResultKept'
    BY <1>9, <2>2, <2>3 DEF StartProbe
  <2>7. OneProbePerHost'
    BY <1>9, <2>2, <2>3 DEF StartProbe, FreeWorkers
  <2>8. InFlightAgrees'
    BY <1>9, <2>2, <2>3 DEF StartProbe
  <2>9. PollingTruthful'
    BY <1>9, <2>2, <2>3 DEF StartProbe
  <2> QED BY <2>4, <2>5, <2>6, <2>7, <2>8, <2>9
<1>10. ASSUME NEW h \in due, StartFails(h) PROVE IInv'
  BY <1>10 DEF StartFails
<1>11. CASE PlanWait BY <1>11 DEF PlanWait
<1>12. CASE Awake BY <1>12 DEF Awake
<1>13. CASE Retire BY <1>13 DEF Retire
<1> QED
  BY <1>1, <1>2, <1>3, <1>4, <1>5, <1>6, <1>7, <1>8, <1>9, <1>10, <1>11,
     <1>12, <1>13
  DEF Loop

\* IInv holds in every reachable state.  It is needed because none of the
\* properties below is preserved by the actions on its own: that a live result
\* is kept, for instance, rests on the inventory being exactly the hosts of
\* the StateStore and on incarnation numbers never being reused.
THEOREM Invariance == Spec => []IInv
<1>1. Init => IInv
  <2> SUFFICES ASSUME Init PROVE IInv
    OBVIOUS
  <2>1. TypeOK
    BY TypeInit
  <2>2. InventoryInv
    BY DEF Init, InventoryInv, Known
  <2>3. TaskInv /\ WakeupInv
    BY DEF Init, TaskInv, WakeupInv, Asleep, Iteration
  <2>4. OneProbePerHost /\ InFlightAgrees /\ LiveResultKept /\ PollingTruthful
    BY DEF Init, OneProbePerHost, InFlightAgrees, LiveResultKept,
           PollingTruthful
  <2>5. OwnIncarnation
    BY DEF Init, OwnIncarnation
  <2> QED BY <2>1, <2>2, <2>3, <2>4, <2>5 DEF IInv
<1>2. IInv /\ TypeOK' /\ UNCHANGED vars => IInv'
  BY DEF IInv, InventoryInv, TaskInv, WakeupInv, OneProbePerHost,
         InFlightAgrees, LiveResultKept, OwnIncarnation, PollingTruthful,
         Known, Asleep, vars, sourceVars, configVars, storeVars, controlVars,
         signalVars, loopVars, refreshVars, probeVars, scheduleVars
<1>3. IInv /\ TypeOK' /\ [Next]_vars => IInv'
  BY <1>2, InvEnvironment, InvLoop DEF Next, Ended
<1> QED BY <1>1, <1>3, TypeCorrect, PTL DEF Spec

-------------------------------------------------------------------------------
(* The properties of Scheduler *)

\* A host is never probed twice at once, for any number of hosts and workers.
THEOREM ProbesAreExclusive == Spec => []OneProbePerHost
<1>1. IInv => OneProbePerHost BY DEF IInv
<1> QED BY <1>1, Invariance, PTL

\* The scheduler's and request_probe's views of what is in flight agree.
THEOREM InFlightAgreement == Spec => []InFlightAgrees
<1>1. IInv => InFlightAgrees BY DEF IInv
<1> QED BY <1>1, Invariance, PTL

\* The assertion after pool.submit cannot fail, and nothing excluded is probed.
THEOREM SubmissionSafe == Spec => []SubmittableHosts
<1>1. IInv => SubmittableHosts
  BY DEF IInv, InventoryInv, TaskInv, SubmittableHosts, Iteration
<1> QED BY <1>1, Invariance, PTL

\* The result of a host that stayed in the inventory is never thrown away.
THEOREM LiveResults == Spec => []LiveResultKept
<1>1. IInv => LiveResultKept BY DEF IInv
<1> QED BY <1>1, Invariance, PTL

\* A removed host's late result never shows up as its successor's data.
THEOREM IncarnationIsolation == Spec => []OwnIncarnation
<1>1. IInv => OwnIncarnation BY DEF IInv
<1> QED BY <1>1, Invariance, PTL

\* "polling" is never shown for a host that nothing will clear.
THEOREM PollingIsTruthful == Spec => []PollingTruthful
<1>1. IInv => PollingTruthful BY DEF IInv
<1> QED BY <1>1, Invariance, PTL

\* The scheduler never goes to sleep on an update, a stop or a result.
THEOREM WakeupsAreNotLost == Spec => []NoLostWakeup
<1>1. IInv => NoLostWakeup
  BY DEF IInv, TypeOK, TaskInv, WakeupInv, NoLostWakeup, Asleep, Iteration
<1> QED BY <1>1, Invariance, PTL

\* No step drops an accepted manual request except by serving it, removing its
\* host or ending the collector.
THEOREM RequestsAreKept == Spec => RequestKept
<1>1. IInv /\ [Next]_vars =>
        [\A h \in manualRequests \ manualRequests' :
           h \in runtimeInFlight' \/ h \notin discovered' \/ ending']_vars
  <2> SUFFICES ASSUME IInv, Next,
                      NEW h \in manualRequests, h \notin manualRequests'
               PROVE  h \in runtimeInFlight' \/ h \notin discovered' \/ ending'
    OBVIOUS
  <2> USE DEF sourceVars, configVars, storeVars, controlVars, signalVars,
              loopVars, refreshVars, probeVars, scheduleVars
  <2>1. CASE Environment
    BY <2>1 DEF Environment, EditSource, UpdateResolve, UpdateInstall, Stop,
       Wake, RequestProbe, DeadlinePasses, FinishProbe, FinishDiscovery,
       RefreshPasses
  <2>2. CASE Loop
    BY <2>2 DEF Loop, LoopTest, ClearWakeup, Discover, Install, Collect, Drain,
       Apply, Select, StartProbe, StartFails, PlanWait, Awake, Retire, LeaveLoop
  <2>3. CASE Ended
    BY <2>3 DEF Ended, vars
  <2> QED BY <2>1, <2>2, <2>3 DEF Next
<1> QED BY <1>1, Invariance, PTL DEF Spec, RequestKept

-------------------------------------------------------------------------------
(* The worker limit *)

\* Probes in flight are finitely many: no host has two of them.
LEMMA InFlightFinite ==
  ASSUME IInv
  PROVE  IsFiniteSet(inFlight) /\ Cardinality(inFlight) \in Nat
<1> DEFINE f == [t \in inFlight |-> t.host]
<1>1. f \in [inFlight -> Hosts]
  BY DEF IInv, TypeOK, Task
<1>2. \A t, u \in inFlight : f[t] = f[u] => t = u
  BY DEF IInv, OneProbePerHost
<1>3. f \in Injection(inFlight, Hosts)
  BY <1>1, <1>2 DEF Injection, IsInjective
<1>4. IsFiniteSet(inFlight)
  BY <1>3, HostsAssumption, FS_Injection
<1> QED BY <1>4, FS_CardinalityType

\* A result that a worker returns takes the place of its running probe.
LEMMA FinishKeepsCount ==
  ASSUME IInv, NEW w \in Pool, FinishProbe(w)
  PROVE  Cardinality(inFlight') = Cardinality(inFlight)
<1>1. PICK t \in inFlight, outcome \in {"online", "failed"} :
        inFlight' = (inFlight \ {t}) \cup {[t EXCEPT !.phase = outcome]}
  BY DEF FinishProbe
<1> DEFINE r == [t EXCEPT !.phase = outcome]
           rest == inFlight \ {t}
<1>2. r.host = t.host
  BY DEF IInv, TypeOK, Task
<1>3. inFlight' = rest \cup {r}
  BY <1>1
<1> HIDE DEF r
<1>4. r \notin rest
  BY <1>2 DEF IInv, OneProbePerHost
<1>5. IsFiniteSet(rest) /\ Cardinality(rest) = Cardinality(inFlight) - 1
  BY InFlightFinite, FS_RemoveElement
<1>6. Cardinality(rest \cup {r}) = Cardinality(rest) + 1
  BY <1>4, <1>5, FS_AddElement
<1> QED BY <1>3, <1>5, <1>6, InFlightFinite

\* Only a probe that starts raises the number in flight, and by one.
LEMMA OnlyStartsAdd ==
  ASSUME IInv, [Next]_vars
  PROVE  /\ Cardinality(inFlight') \in Nat
         /\ \/ Cardinality(inFlight') <= Cardinality(inFlight)
            \/ \E h \in due :
                 /\ StartProbe(h)
                 /\ Cardinality(inFlight') <= Cardinality(inFlight) + 1
<1> USE DEF sourceVars, configVars, storeVars, controlVars, signalVars,
            loopVars, refreshVars, probeVars, scheduleVars
<1> DEFINE Fewer == /\ Cardinality(inFlight') \in Nat
                    /\ Cardinality(inFlight') <= Cardinality(inFlight)
<1>1. IsFiniteSet(inFlight) /\ Cardinality(inFlight) \in Nat
  BY InFlightFinite
<1>2. CASE UNCHANGED inFlight
  <2>1. Fewer BY <1>1, <1>2
  <2> QED BY <2>1
<1>3. ASSUME NEW w \in Pool, FinishProbe(w) PROVE Fewer
  BY <1>1, <1>3, FinishKeepsCount
<1>4. ASSUME NEW t \in completed, Drain(t) PROVE Fewer
  <2>1. inFlight' = inFlight \ {t}
    BY <1>4 DEF Drain
  <2>2. IsFiniteSet(inFlight \ {t})
    BY <1>1, FS_RemoveElement
  <2>3. /\ Cardinality(inFlight \ {t}) \in Nat
        /\ Cardinality(inFlight \ {t}) <= Cardinality(inFlight)
    BY <1>1, <2>2, FS_RemoveElement, FS_CardinalityType
  <2> QED BY <2>1, <2>3
<1>5. ASSUME NEW h \in due, StartProbe(h)
      PROVE  /\ Cardinality(inFlight') \in Nat
             /\ Cardinality(inFlight') <= Cardinality(inFlight) + 1
  <2>1. PICK r : inFlight' = inFlight \cup {r}
    BY <1>5 DEF StartProbe
  <2>2. \/ Cardinality(inFlight \cup {r}) = Cardinality(inFlight)
        \/ Cardinality(inFlight \cup {r}) = Cardinality(inFlight) + 1
    BY <1>1, FS_AddElement, Zenon
  <2> QED BY <1>1, <2>1, <2>2
<1>6. \/ UNCHANGED inFlight
      \/ \E w \in Pool : FinishProbe(w)
      \/ \E t \in completed : Drain(t)
      \/ \E h \in due : StartProbe(h)
  BY DEF Next, Loop, Environment, Ended, vars, EditSource, UpdateResolve,
     UpdateInstall, Stop, Wake, RequestProbe, DeadlinePasses, FinishDiscovery,
     RefreshPasses, LoopTest, ClearWakeup, Discover, Install, Collect, Apply,
     Select, StartFails, PlanWait, Awake, Retire
<1> QED BY <1>2, <1>3, <1>4, <1>5, <1>6

\* A selected batch fills at most the slots that the running probes leave of
\* the worker limit, which no update changes until the batch is submitted.
LEMMA SelectFits ==
  ASSUME IInv, Select, pc' = "start"
  PROVE  Cardinality(inFlight') + Cardinality(due') <= config'.workers
<1>1. PICK D \in SUBSET DueHosts :
        /\ Earliest(D) /\ due' = D /\ D # {} /\ snapshot.gen = generation
  BY DEF Select, LeaveLoop
<1>2. inFlight' = inFlight /\ config' = config /\ snapshot.cfg = config
  BY <1>1 DEF Select, probeVars, configVars, IInv, InventoryInv
<1>3. Cardinality(inFlight) \in Nat /\ config.workers \in Nat
  BY InFlightFinite, ConfigsAssumption DEF IInv, TypeOK, ConfigRecord
<1>4. Cardinality(D) \in Nat
  <2>1. DueHosts \subseteq Hosts
    BY DEF DueHosts, IInv, TypeOK
  <2>2. IsFiniteSet(D)
    BY <2>1, HostsAssumption, FS_Subset
  <2> QED BY <2>2, FS_CardinalityType
<1>5. Cardinality(D) <= snapshot.cfg.workers - Cardinality(inFlight)
  BY <1>1, <1>2, <1>3, <1>4 DEF Earliest, FreeSlots
<1> QED BY <1>1, <1>2, <1>3, <1>4, <1>5

\* A probe that starts gives its slot of the batch to what is in flight.
LEMMA StartFits ==
  ASSUME IInv, BatchFits, NEW h \in due, StartProbe(h),
         Cardinality(inFlight') \in Nat,
         Cardinality(inFlight') <= Cardinality(inFlight) + 1
  PROVE  /\ Cardinality(inFlight') <= config.workers
         /\ Cardinality(inFlight') + Cardinality(due') <= config'.workers
<1>1. IsFiniteSet(due) /\ due \subseteq Hosts
  BY HostsAssumption, FS_Subset DEF IInv, TypeOK
<1>2. /\ Cardinality(due) \in Nat /\ Cardinality(due \ {h}) \in Nat
      /\ Cardinality(due \ {h}) = Cardinality(due) - 1
  BY <1>1, FS_RemoveElement, FS_CardinalityType
<1>3. Cardinality(inFlight) + Cardinality(due) <= config.workers
  BY DEF StartProbe, BatchFits
<1>4. due' = due \ {h} /\ config' = config
  BY DEF StartProbe, configVars
<1>5. Cardinality(inFlight) \in Nat /\ config.workers \in Nat
  BY InFlightFinite, ConfigsAssumption DEF IInv, TypeOK, ConfigRecord
<1> QED BY <1>2, <1>3, <1>4, <1>5

\* What is still to start always finds a slot within the worker limit.
LEMMA BatchAlwaysFits == Spec => []BatchFits
<1>1. Init => BatchFits
  BY DEF Init, BatchFits
<1>2. IInv /\ BatchFits /\ [Next]_vars => BatchFits'
  <2> SUFFICES ASSUME IInv, BatchFits, [Next]_vars, pc' = "start"
               PROVE  Cardinality(inFlight') + Cardinality(due') <= config'.workers
    BY DEF BatchFits
  <2>1. CASE Select
    BY <2>1, SelectFits
  <2>2. ASSUME NEW h \in due, StartProbe(h)
        PROVE  Cardinality(inFlight') + Cardinality(due') <= config'.workers
    <3>1. /\ Cardinality(inFlight') \in Nat
          /\ Cardinality(inFlight') <= Cardinality(inFlight) + 1
      BY InFlightFinite, OnlyStartsAdd
    <3> QED BY <2>2, <3>1, StartFits
  <2>3. CASE ~Select /\ ~(\E h \in due : StartProbe(h))
    <3>1. pc = "start" /\ due' = due /\ config' = config
      BY <2>3 DEF Next, Loop, Environment, Ended, vars, EditSource,
         UpdateResolve, UpdateInstall, Stop, Wake, RequestProbe,
         DeadlinePasses, FinishProbe, FinishDiscovery, RefreshPasses, LoopTest,
         ClearWakeup, Discover, Install, Collect, Drain, Apply, StartFails,
         PlanWait, Awake, Retire, LeaveLoop, sourceVars, configVars, storeVars,
         controlVars, signalVars, loopVars, refreshVars, probeVars, scheduleVars
    <3>2. /\ Cardinality(inFlight') \in Nat
          /\ Cardinality(inFlight') <= Cardinality(inFlight)
      BY <2>3, OnlyStartsAdd
    <3>3. IsFiniteSet(due)
      BY HostsAssumption, FS_Subset DEF IInv, TypeOK
    <3>4. /\ Cardinality(inFlight) \in Nat /\ Cardinality(due) \in Nat
          /\ config.workers \in Nat
      BY <3>3, InFlightFinite, FS_CardinalityType, ConfigsAssumption
      DEF IInv, TypeOK, ConfigRecord
    <3> QED BY <3>1, <3>2, <3>4 DEF BatchFits
  <2> QED BY <2>1, <2>2, <2>3
<1> QED BY <1>1, <1>2, Invariance, PTL DEF Spec

\* A step that raises the number of probes in flight stays within the worker
\* limit of the configuration in force, however far an update lowered it.
THEOREM LimitIsKept == Spec => WorkerLimit
<1>1. IInv /\ BatchFits /\ [Next]_vars =>
        [Cardinality(inFlight') > Cardinality(inFlight)
           => Cardinality(inFlight') <= config.workers]_vars
  <2> SUFFICES ASSUME IInv, BatchFits, [Next]_vars,
                      Cardinality(inFlight') > Cardinality(inFlight)
               PROVE  Cardinality(inFlight') <= config.workers
    OBVIOUS
  <2>1. Cardinality(inFlight) \in Nat
    BY InFlightFinite
  <2>2. /\ Cardinality(inFlight') \in Nat
        /\ \E h \in due : /\ StartProbe(h)
                          /\ Cardinality(inFlight') <= Cardinality(inFlight) + 1
    BY <2>1, OnlyStartsAdd
  <2> QED BY <2>2, StartFits
<1> QED BY <1>1, Invariance, BatchAlwaysFits, PTL DEF Spec, WorkerLimit

===============================================================================
