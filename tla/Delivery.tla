-------------------------------- MODULE Delivery --------------------------------
(*****************************************************************************)
(* From a probe result to a webhook receiver: StateStore.apply turns changes *)
(* of conditions into events, leaves out the muted ones and publishes the    *)
(* rest after it released the store's lock; the worker of one endpoint       *)
(* delivers them in order, asks again whether each is still actionable,      *)
(* retries, and pairs every recovery with an alert that it delivered.  The   *)
(* main thread shuts both down in order, and a restart resumes what the      *)
(* database calls open.                                                      *)
(*                                                                           *)
(* A condition is <<host, key>>.  Counters, payloads, delays and test events *)
(* are left out; the store confirms conditions as IncidentTracker says, here *)
(* at any time; the database keeps up with the store while it is open.       *)
(*****************************************************************************)
EXTENDS Integers, FiniteSets, Sequences, SequencesExt

CONSTANTS
  Conditions,     \* the conditions considered, among them <<h, "connectivity">>
  Subscriptions,  \* the sets of states an endpoint may subscribe to
  Actions,        \* the actions operators take: "acknowledged", "silenced"
  QueueSize,      \* _WEBHOOK_QUEUE_CAPACITY
  PairSize,       \* _WEBHOOK_SEEN_CAPACITY, the limit of _active_conditions
  BindSize,       \* _notification_event_capacity
  MaxAttempts,    \* max_attempts of the endpoint
  MaxEvents,      \* bound: notification events of the run
  MaxTroubles     \* bound: actions, windows, inventory changes, stops, restarts

Hosts == {c[1] : c \in Conditions}
States == {"opened", "resolved", "escalated", "deescalated"}
Severity == {"none", "warning", "critical"}

ASSUME DeliveryAssumption ==
  /\ IsFiniteSet(Conditions) /\ \A c \in Conditions : c = <<c[1], c[2]>>
  /\ Subscriptions \subseteq (SUBSET States) \ {{}}
  /\ Actions \subseteq {"acknowledged", "silenced"}
  /\ {QueueSize, PairSize, BindSize, MaxAttempts} \subseteq Nat \ {0}
  /\ {MaxEvents, MaxTroubles} \subseteq Nat

VARIABLES
  active,                 \* severity of each condition in the tracker, or "none"
  incarnation, nextIncarnation,   \* StateStore: hosts of the inventory
  maintenance, action,    \* hosts in a window; action on a condition
  bound,                  \* notification events bound to an incarnation so far
  pending,                \* what apply has yet to publish
  saved,                  \* severity of each condition in the database
  events,                 \* the subscription of the endpoint
  queue, paired, saturated,       \* _queue, _active_conditions of the worker
  wpc, current, attempt,  \* the worker thread
  phase, collector, probing, forced,   \* the shutdown
  received,               \* what the receiver was told last of each condition,
                          \* not followed for the tainted ones
  tainted,                \* conditions of which something was lost or doubtful
  quiet,                  \* open conditions that, since they opened, were muted
                          \* or had an event withdrawn that the store forgot
  primed,                 \* conditions that a restart took for delivered
  troubles

storeVars    == <<active, bound, saved>>
hostVars     == <<incarnation, nextIncarnation>>
overlayVars  == <<maintenance, action>>
workerVars   == <<queue, paired, saturated, wpc, current, attempt>>
shutdownVars == <<phase, collector, probing, forced>>
ghostVars    == <<tainted, quiet, primed>>
vars == <<storeVars, hostVars, overlayVars, pending, events, workerVars,
          shutdownVars, received, ghostVars, troubles>>

-------------------------------------------------------------------------------
(* Data *)

Event == [n : Nat \ {0}, cond : Conditions, state : States,
          severity : Severity, incarnation : Nat]

Inventory == {h \in Hosts : incarnation[h] # 0}
IsConnectivity(c) == c[2] = "connectivity"

\* maintained, or silenced by an action on this generation of the condition
Muted(c) == c[1] \in maintenance \/ action[c] = "silenced"

\* What the tracker may make of a result of host h: any failed probe opens its
\* connectivity condition at once and freezes the others.
Outcomes(h, online) ==
  {new \in [Conditions -> Severity] :
     \A c \in Conditions :
       IF c[1] # h THEN new[c] = active[c]
       ELSE IF online
       THEN IsConnectivity(c) => new[c] \in {active[c], "none"}
       ELSE new[c] = IF IsConnectivity(c) THEN "critical" ELSE active[c]}

Transition(c, new) ==
  IF active[c] = "none" THEN "opened" ELSE IF new = "none" THEN "resolved"
  ELSE IF new = "critical" THEN "escalated" ELSE "deescalated"

\* A resolved event always passes, the others unless they are muted.
Passes(c, new) == new = "none" \/ ~Muted(c)

\* The receiver no longer hears everything about the conditions S.
Taint(S) ==
  /\ tainted' = tainted \cup S
  /\ received' = [c \in Conditions |-> IF c \in S THEN "none" ELSE received[c]]

IsPaired == {"opened", "resolved"} \subseteq events

\* Broken: only the latest binding is kept.
ActionableLatest(e) ==
  \/ e.state = "resolved"
  \/ /\ e.n = bound
     /\ incarnation[e.cond[1]] = e.incarnation
     /\ active[e.cond] # "none"
     /\ ~Muted(e.cond)

\* BindSize later events were bound to an incarnation; the store keeps no more.
Forgotten(e) == e.n <= bound - BindSize

\* _notification_event_actionable: the binding is still known, the host and
\* the condition are still there and the condition is not muted.
StillActionable(e) ==
  \/ e.state = "resolved"
  \/ /\ ~Forgotten(e)
     /\ incarnation[e.cond[1]] = e.incarnation
     /\ active[e.cond] # "none"
     /\ ~Muted(e.cond)

\* Broken: every recovery is delivered.
UnpairedNever(e) == FALSE

\* a recovery of a condition the receiver never saw
Unpaired(e) ==
  /\ IsPaired /\ e.state = "resolved"
  /\ e.cond \notin ToSet(paired) /\ ~saturated

\* the pairing table, an ordered dictionary, without the condition c
PairedWithout(c) ==
  IF c \in ToSet(paired)
  THEN RemoveAt(paired, CHOOSE i \in DOMAIN paired : paired[i] = c)
  ELSE paired

\* Broken: eviction is not remembered.
PairForgets(e) ==
  LET others == PairedWithout(e.cond)
      all == IF e.state = "resolved" THEN others ELSE Append(others, e.cond)
  IN paired' = (IF Len(all) > PairSize THEN Tail(all) ELSE all)
       /\ UNCHANGED saturated

\* A delivered event adds its condition to the end of the pairing table, a
\* recovery removes it; the oldest entry makes room.
Pair(e) ==
  LET others == PairedWithout(e.cond)
      all == IF e.state = "resolved" THEN others ELSE Append(others, e.cond)
  IN IF ~IsPaired THEN UNCHANGED <<paired, saturated>>
     ELSE /\ paired' = IF Len(all) > PairSize THEN Tail(all) ELSE all
          /\ saturated' = (saturated \/ Len(all) > PairSize)

Init ==
  /\ active = [c \in Conditions |-> "none"]
  /\ incarnation = [h \in Hosts |-> 1] /\ nextIncarnation = 2
  /\ maintenance = {} /\ action = [c \in Conditions |-> "none"]
  /\ bound = 0 /\ pending = <<>> /\ saved = active
  /\ events \in Subscriptions
  /\ queue = <<>> /\ paired = <<>> /\ saturated = FALSE
  /\ wpc = "idle" /\ current = {} /\ attempt = 0
  /\ phase = "running" /\ collector = "running" /\ probing = {} /\ forced = FALSE
  /\ received = [c \in Conditions |-> "none"] /\ tainted = {} /\ quiet = {}
  /\ primed = {} /\ troubles = 0

-------------------------------------------------------------------------------
(* The collector thread *)

\* StateStore.apply with a result of host h; a cancelled probe is a failed one.
\* After the stop only the probes that were running then are still applied.
Apply(h, online) ==
  /\ collector = "running" /\ pending = <<>> /\ h \in Inventory
  /\ phase = "running" \/ h \in probing
  /\ probing' = probing \ {h}
  /\ \E new \in Outcomes(h, online) :
       LET changed == {c \in Conditions : new[c] # active[c]}
           passing == SetToSeq({c \in changed : Passes(c, new[c])})
           opening == {c \in changed : active[c] = "none"}
       IN /\ bound + Len(passing) <= MaxEvents
          /\ active' = new
          /\ bound' = bound + Len(passing)
          /\ pending' = [i \in DOMAIN passing |->
               [n |-> bound + i, cond |-> passing[i],
                state |-> Transition(passing[i], new[passing[i]]),
                severity |-> new[passing[i]], incarnation |-> incarnation[h]]]
          /\ saved' = IF phase \in {"running", "stopping"}
                      THEN [c \in Conditions |-> IF c \in changed THEN new[c]
                                                                  ELSE saved[c]]
                      ELSE saved
          /\ action' = [c \in Conditions |-> IF new[c] = "none" THEN "none"
                                                                ELSE action[c]]
          /\ quiet' = {c \in quiet : new[c] # "none"}
                        \cup {c \in opening : Muted(c)}
  /\ UNCHANGED <<hostVars, maintenance, events, workerVars, phase, collector,
                 forced, received, tainted, primed, troubles>>

\* _WebhookWorker.publish of one event: what the endpoint did not subscribe to
\* is ignored; a closed endpoint or a full queue drops it.
Publish ==
  /\ pending # <<>>
  /\ pending' = Tail(pending)
  /\ LET e == Head(pending)
         accepted == phase # "closing" /\ Len(queue) < QueueSize
     IN \/ e.state \notin events /\ UNCHANGED <<queue, received, tainted>>
        \/ /\ e.state \in events /\ accepted
           /\ queue' = Append(queue, e) /\ UNCHANGED <<received, tainted>>
        \/ e.state \in events /\ ~accepted /\ Taint({e.cond}) /\ UNCHANGED queue
  /\ UNCHANGED <<storeVars, hostVars, overlayVars, events, paired, saturated,
                 wpc, current, attempt, shutdownVars, quiet, primed, troubles>>

\* The final drain of the scheduler is over.
CollectorEnds ==
  /\ collector = "running" /\ phase # "running" /\ pending = <<>>
  /\ collector' = "ended"
  /\ UNCHANGED <<storeVars, hostVars, overlayVars, pending, events, workerVars,
                 phase, probing, forced, received, ghostVars, troubles>>

-------------------------------------------------------------------------------
(* The worker thread of the endpoint *)

Take ==
  /\ wpc = "idle" /\ queue # <<>>
  /\ queue' = Tail(queue)
  /\ LET e == Head(queue)
     IN IF Unpaired(e)
        THEN UNCHANGED <<wpc, current, attempt>>
        ELSE wpc' = "gate" /\ current' = {e} /\ attempt' = 0
  /\ UNCHANGED <<storeVars, hostVars, overlayVars, pending, events, paired,
                 saturated, shutdownVars, received, ghostVars, troubles>>

\* the worker gives the current event up and goes on to pc
Release(pc) == current' = {} /\ attempt' = 0 /\ wpc' = pc

\* After the delay of a retry and of the rate limit: a forced stop loses the
\* event, one that stopped being actionable or is forgotten is suppressed.
Gate(e) ==
  /\ wpc = "gate" /\ e \in current
  /\ \/ forced /\ Release("ended") /\ Taint({e.cond}) /\ UNCHANGED quiet
     \/ /\ ~forced /\ ~StillActionable(e) /\ Release("idle")
        /\ quiet' = IF Forgotten(e) /\ active[e.cond] # "none"
                    THEN quiet \cup {e.cond} ELSE quiet
        /\ UNCHANGED <<received, tainted>>
     \/ /\ ~forced /\ StillActionable(e) /\ wpc' = "sending"
        /\ UNCHANGED <<current, attempt, received, tainted, quiet>>
  /\ UNCHANGED <<storeVars, hostVars, overlayVars, pending, events, queue,
                 paired, saturated, shutdownVars, primed, troubles>>

\* success: the receiver answered 2xx
Delivered(e) ==
  /\ wpc = "sending" /\ e \in current
  /\ received' = [received EXCEPT ![e.cond] =
                    IF e.state = "resolved" \/ e.cond \in tainted THEN "none"
                                                               ELSE e.severity]
  /\ Pair(e) /\ Release("idle")
  /\ UNCHANGED <<storeVars, hostVars, overlayVars, pending, events, queue,
                 shutdownVars, tainted, quiet, primed, troubles>>

\* Broken: a retryable failure is retried for ever.
RetryForEver == wpc' = "gate" /\ UNCHANGED <<current, attempt>>

Retry ==
  IF attempt + 1 < MaxAttempts
  THEN wpc' = "gate" /\ attempt' = attempt + 1 /\ UNCHANGED current
  ELSE Release("idle")

\* The request fails for good, or may be retried; a receiver may have got the
\* event although its answer was lost, which leaves its state in doubt.
Fails(e) ==
  /\ wpc = "sending" /\ e \in current
  /\ \/ Release("idle") /\ Taint({e.cond})
     \/ Retry /\ Taint({e.cond})
     \/ Retry /\ wpc' # "idle" /\ UNCHANGED <<received, tainted>>
  /\ UNCHANGED <<storeVars, hostVars, overlayVars, pending, events, queue,
                 paired, saturated, shutdownVars, quiet, primed, troubles>>

WorkerEnds ==
  /\ wpc = "idle" /\ phase = "closing" /\ queue = <<>>
  /\ wpc' = "ended"
  /\ UNCHANGED <<storeVars, hostVars, overlayVars, pending, events, queue,
                 paired, saturated, current, attempt, shutdownVars, received,
                 tainted, quiet, primed, troubles>>

-------------------------------------------------------------------------------
(* Operators, discovery and the clock *)

Trouble == troubles < MaxTroubles /\ troubles' = troubles + 1

\* an action on the open generation of a condition, or its end
SetAction(c, a) ==
  /\ Trouble
  /\ active[c] # "none" /\ action[c] # a
  /\ action' = [action EXCEPT ![c] = a]
  /\ quiet' = IF a = "silenced" THEN quiet \cup {c} ELSE quiet
  /\ UNCHANGED <<storeVars, hostVars, maintenance, pending, events, workerVars,
                 shutdownVars, received, tainted, primed>>

SetMaintenance(h) ==
  /\ Trouble
  /\ IF h \in maintenance
     THEN maintenance' = maintenance \ {h} /\ UNCHANGED quiet
     ELSE /\ maintenance' = maintenance \cup {h}
          /\ quiet' = quiet \cup {c \in Conditions :
                                     c[1] = h /\ active[c] # "none"}
  /\ UNCHANGED <<storeVars, hostVars, action, pending, events, workerVars,
                 shutdownVars, received, tainted, primed>>

\* set_hosts: a removed host takes its conditions along without an event.
RemoveHost(h) ==
  LET gone == {c \in Conditions : c[1] = h}
  IN /\ Trouble
     /\ h \in Inventory
     /\ incarnation' = [incarnation EXCEPT ![h] = 0]
     /\ active' = [c \in Conditions |-> IF c \in gone THEN "none" ELSE active[c]]
     /\ action' = [c \in Conditions |-> IF c \in gone THEN "none" ELSE action[c]]
     /\ Taint({c \in gone : active[c] # "none"})
     /\ quiet' = quiet \ gone
     /\ UNCHANGED <<nextIncarnation, maintenance, bound, saved, pending, events,
                    workerVars, shutdownVars, primed>>

AddHost(h) ==
  /\ Trouble
  /\ h \notin Inventory
  /\ incarnation' = [incarnation EXCEPT ![h] = nextIncarnation]
  /\ nextIncarnation' = nextIncarnation + 1
  /\ UNCHANGED <<storeVars, overlayVars, pending, events, workerVars,
                 shutdownVars, received, ghostVars>>

-------------------------------------------------------------------------------
(* The main thread: shutdown and restart *)

\* stop_event, and monitor.stop() cancels the probes that are running.
Stop ==
  /\ Trouble
  /\ phase = "running"
  /\ phase' = "stopping"
  /\ probing' \in SUBSET Inventory
  /\ UNCHANGED <<storeVars, hostVars, overlayVars, pending, events, workerVars,
                 collector, forced, received, ghostVars>>

\* persistence.close, once the collector was joined or the wait for it was over
CloseHistory ==
  /\ phase = "stopping"
  /\ phase' = "flushed"
  /\ UNCHANGED <<storeVars, hostVars, overlayVars, pending, events, workerVars,
                 collector, probing, forced, received, ghostVars, troubles>>

CloseNotifications ==
  /\ phase = "flushed"
  /\ phase' = "closing"
  /\ UNCHANGED <<storeVars, hostVars, overlayVars, pending, events, workerVars,
                 collector, probing, forced, received, ghostVars, troubles>>

\* Half of the budget is over and the worker is still alive.
ForceStop ==
  /\ phase = "closing" /\ ~forced /\ wpc # "ended"
  /\ forced' = TRUE
  /\ UNCHANGED <<storeVars, hostVars, overlayVars, pending, events, workerVars,
                 phase, collector, probing, received, ghostVars, troubles>>

\* The pairing table is primed with what the database calls open.
RestartPrimed ==
  LET known == SetToSeq({c \in Conditions : saved[c] # "none"})
      excess == IF Len(known) > PairSize THEN Len(known) - PairSize ELSE 0
  IN /\ paired' = SubSeq(known, excess + 1, Len(known))
     /\ saturated' = (excess > 0)

\* Broken: the store starts without the conditions that were open.
ResumedNothing == [c \in Conditions |-> "none"]

\* Open conditions of hosts that are still configured are resumed.
Resumed ==
  [c \in Conditions |-> IF c[1] \in Inventory THEN saved[c] ELSE "none"]

\* The process ended, in order or by a crash, and a new one starts.
Restart ==
  /\ Trouble
  /\ active' = Resumed
  /\ incarnation' = [h \in Hosts |-> IF h \in Inventory THEN 1 ELSE 0]
  /\ nextIncarnation' = 2
  /\ RestartPrimed
  /\ pending' = <<>> /\ queue' = <<>>
  /\ Release("idle")
  /\ phase' = "running" /\ collector' = "running" /\ probing' = {}
  /\ forced' = FALSE
  /\ Taint({e.cond : e \in ToSet(pending) \cup ToSet(queue) \cup current}
             \cup {c \in Conditions : saved[c] # active[c]})
  /\ primed' = ToSet(paired')
  /\ UNCHANGED <<overlayVars, bound, saved, events, quiet>>

-------------------------------------------------------------------------------

Worker ==
  \/ Take \/ WorkerEnds
  \/ (\E e \in current : Gate(e) \/ Delivered(e) \/ Fails(e))

Main == Stop \/ CloseHistory \/ CloseNotifications \/ ForceStop \/ Restart

Next ==
  \/ (\E h \in Hosts, online \in BOOLEAN : Apply(h, online))
  \/ Publish \/ CollectorEnds \/ Worker \/ Main
  \/ (\E c \in Conditions, a \in Actions \cup {"none"} : SetAction(c, a))
  \/ (\E h \in Hosts : SetMaintenance(h) \/ RemoveHost(h) \/ AddHost(h))

Spec == Init /\ [][Next]_vars

\* The publishing thread and the worker run, and a request ends (each has a
\* timeout); nothing makes a probe fail, a receiver answer or a process stop.
FairSpec == Spec /\ WF_vars(Publish) /\ WF_vars(Worker)

-------------------------------------------------------------------------------
(* Properties *)

\* The types of the store, the worker, the shutdown and the receiver.
TypeOK ==
  /\ active \in [Conditions -> Severity] /\ saved \in [Conditions -> Severity]
  /\ incarnation \in [Hosts -> Nat] /\ nextIncarnation \in Nat \ {0}
  /\ maintenance \in SUBSET Hosts
  /\ action \in [Conditions -> {"none", "acknowledged", "silenced"}]
  /\ bound \in Nat /\ pending \in Seq(Event) /\ queue \in Seq(Event)
  /\ events \in SUBSET States
  /\ paired \in Seq(Conditions) /\ Len(paired) <= PairSize
  /\ saturated \in BOOLEAN
  /\ wpc \in {"idle", "gate", "sending", "ended"}
  /\ current \in SUBSET Event /\ attempt \in 0 .. MaxAttempts - 1
  /\ current = {} <=> wpc \in {"idle", "ended"}
  /\ phase \in {"running", "stopping", "flushed", "closing"}
  /\ collector \in {"running", "ended"} /\ probing \in SUBSET Hosts
  /\ forced \in BOOLEAN
  /\ received \in [Conditions -> Severity]
  /\ tainted \in SUBSET Conditions /\ quiet \in SUBSET Conditions
  /\ primed \in SUBSET Conditions /\ troubles \in Nat

Settled == pending = <<>> /\ queue = <<>> /\ wpc = "idle"

\* The state is well typed, the pairing table within its bound, and once
\* everything published is handled, a receiver of both states holds an alert
\* only for a condition that is still open: no recovery is suppressed that it
\* waits for, in a window, after a retry or after a restart.
NoHangingAlert ==
  /\ TypeOK
  /\ Settled /\ IsPaired =>
       \A c \in Conditions \ tainted : received[c] # "none" => active[c] # "none"

\* Once everything published is handled, a receiver knows every open condition
\* that was never muted while open and of which the store forgot no event, at
\* the severity it has now if it hears of changes: no alert is withdrawn
\* without a reason, and none because of an earlier generation or host.
AlertsArrive ==
  Settled =>
    \A c \in Conditions \ (tainted \cup quiet) :
      active[c] # "none" =>
        /\ "opened" \in events => received[c] # "none"
        /\ events = States => received[c] = active[c]

\* A recovery reaches a receiver of both states only after the alert, except
\* where the worker cannot know: its table overflowed or was primed.
RecoveriesPair ==
  [][\A e \in current : Delivered(e) =>
       \/ e.state # "resolved" \/ ~IsPaired \/ saturated
       \/ e.cond \in tainted \cup primed \/ received[e.cond] # "none"]_vars

\* An alert is not opened twice at the receiver, also not by a restart.
NoRepeatedOpen ==
  [][\A e \in current : Delivered(e) =>
       \/ e.state # "opened" \/ "resolved" \notin events
       \/ e.cond \in tainted \/ received[e.cond] = "none"]_vars

\* What was published is eventually handled, and a closing worker ends.
Settles == []<>(wpc = "ended" \/ (Settled /\ phase # "closing"))

\* The worker starts to send only what is actionable ("Only actionable
\* transitions are sent ...; an event that is silenced or acknowledged while
\* it waits is withdrawn").
ActionableSent ==
  [][\A e \in current : wpc = "gate" /\ wpc' = "sending" =>
       e.state = "resolved" \/ action[e.cond] = "none"]_vars

===============================================================================
