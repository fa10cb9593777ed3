------------------------------- MODULE MCControl --------------------------------
(*****************************************************************************)
(* Instances for TLC of what the dashboard and the collector control: the    *)
(* configuration file, the discovery of hosts, the probe of a host (its      *)
(* child process, its payload, when it queries processes) and the update of  *)
(* the program itself.  They share no state that is modelled, so each        *)
(* behaviour is one of a single machine, chosen at first; the others stay in *)
(* one state.                                                                *)
(*****************************************************************************)
EXTENDS MCConfig, SshTopology, ProbeRun, ProbePayload, ProbeCadence, SelfUpdate

CONSTANTS p1, p2

VARIABLE machine                                       \* the one that runs

controlVars == <<machine, configVars, topologyVars, payloadVars, runVars,
                 cadenceVars, updateVars>>

-------------------------------------------------------------------------------
(* Four aliases, of which two are a numbered fleet; each is direct, behind one *)
(* or two jumps of which one is no alias, or behind a command.                 *)

Aliases == 1..4
FleetOf(a) == IF a \in {1, 2} THEN 7 ELSE 0
Way(kind, options, hops) == [kind |-> kind, options |-> options, hops |-> hops]
After(a, n) == ((a + n - 1) % 4) + 1
WaysOf(a) ==
  {Way("direct", <<>>, <<>>), Way("jump", <<>>, <<After(a, 1)>>),
   Way("jump", <<>>, <<After(a, 2), -1>>),
   Way("command", <<[by |-> "o", hops |-> <<After(a, 3)>>], [by |-> "o", hops |-> <<>>]>>,
       <<After(a, 1)>>)}
EveryWay == {w \in [Aliases -> UNION {WaysOf(a) : a \in Aliases}] :
               \A a \in Aliases : w[a] \in WaysOf(a)}
Setup(explicit, excluded, codeHosts, local, auto) ==
  [explicit |-> explicit, excluded |-> excluded, code |-> codeHosts,
   local |-> local, auto |-> auto]

SetupsOfFour ==
  {Setup({1, 5}, {4}, {}, 0, TRUE), Setup({1, 2, 3, 4}, {}, {}, 0, FALSE),
   Setup({2, 3, 1}, {}, {4}, 2, TRUE)}

-------------------------------------------------------------------------------
(* Machines with up to two GPUs: sound, with one UUID or one index twice, with *)
(* odd health or an odd row; their processes; and the failures of their tools. *)

Gpu(i, uuid, sound, health) ==
  [index |-> i, uuid |-> uuid, sound |-> sound, health |-> health]
Process(uuid, pid, sound) == [uuid |-> uuid, pid |-> pid, sound |-> sound]
First == Gpu(0, "a", TRUE, "sound")
GpuLists ==
  {<<>>, <<First, Gpu(1, "b", TRUE, "sound")>>, <<First, Gpu(1, "a", TRUE, "sound")>>,
   <<First, Gpu(0, "b", TRUE, "sound")>>, <<First, Gpu(1, "b", FALSE, "sound")>>,
   <<Gpu(0, "a", TRUE, "odd"), Gpu(1, "", TRUE, "sound")>>}
ProcessLists ==
  {<<>>, <<Process("a", 1, TRUE), Process("b", 1, TRUE)>>,
   <<Process("a", 1, TRUE), Process("", 2, TRUE)>>,
   <<Process("a", 1, TRUE), Process("b", 2, FALSE)>>}
Answering(gpus, procs) ==
  [smi |-> "combined", gpus |-> gpus, query |-> TRUE, procs |-> procs, readable |-> {1},
   odd |-> {}, disks |-> <<"disk">>, psi |-> "psi", core |-> TRUE]
MonitoredMachines ==
  {[Answering(g, p) EXCEPT !.smi = s, !.odd = o] :
     g \in GpuLists, p \in ProcessLists, s \in {"combined", "fallback"}, o \in {{}, {1}}}
  \cup {[Answering(<<>>, <<>>) EXCEPT !.smi = "absent", !.disks = <<"odd", "disk">>,
                                      !.psi = "odd psi"],
        [Answering(<<>>, <<>>) EXCEPT !.smi = "fails", !.query = FALSE, !.psi = "none"],
        [Answering(<<First>>, <<Process("a", 1, TRUE)>>) EXCEPT !.query = FALSE],
        [Answering(<<>>, <<>>) EXCEPT !.core = FALSE],
        [Answering(<<>>, <<>>) EXCEPT !.disks = <<"disk", "odd", "disk", "disk">>]}

EverySample ==
  {[tier |-> 0, processes |-> TRUE], [tier |-> 2, processes |-> TRUE],
   [tier |-> 2, processes |-> FALSE]}

-------------------------------------------------------------------------------
(* Two probe threads                                                         *)

ProbeThreads == {p1, p2}

\* handlers and probe threads are interchangeable
Threads == Permutations(HandlerThreads) \cup Permutations(ProbeThreads)

-------------------------------------------------------------------------------

\* One state of a machine that does not run: an initial one, and of the controller the
\* one where no process comes up, because the loader refuses the file.
ConfigParked == file = Mistaken /\ Untouched
TopologyParked ==
  /\ setup = Setup({1, 2, 3, 4}, {}, {}, 0, FALSE)
  /\ ways = [a \in Aliases |-> Way("direct", <<>>, <<>>)] /\ TopologyInit
PayloadParked ==
  /\ sample = [tier |-> 2, processes |-> TRUE]
  /\ host = Answering(<<>>, <<>>) /\ PayloadInit
CadenceParked == mode = "m1" /\ CadenceInit

ControlInit ==
  /\ machine \in {"config", "topology", "payload", "run", "cadence", "update"}
  /\ IF machine = "config" THEN ConfigInit ELSE ConfigParked
  /\ IF machine = "topology" THEN TopologyInit ELSE TopologyParked
  /\ IF machine = "payload" THEN PayloadInit ELSE PayloadParked
  /\ IF machine = "cadence" THEN CadenceInit ELSE CadenceParked
  /\ RunInit /\ UpdateInit

Only(m) == machine = m /\ UNCHANGED machine
OnlyConfig ==
  /\ Only("config")
  /\ UNCHANGED <<topologyVars, payloadVars, runVars, cadenceVars, updateVars>>
OnlyTopology ==
  /\ Only("topology")
  /\ UNCHANGED <<configVars, payloadVars, runVars, cadenceVars, updateVars>>
OnlyPayload ==
  /\ Only("payload")
  /\ UNCHANGED <<configVars, topologyVars, runVars, cadenceVars, updateVars>>
OnlyRun ==
  /\ Only("run")
  /\ UNCHANGED <<configVars, topologyVars, payloadVars, cadenceVars, updateVars>>
OnlyCadence ==
  /\ Only("cadence")
  /\ UNCHANGED <<configVars, topologyVars, payloadVars, runVars, updateVars>>
OnlyUpdate ==
  /\ Only("update")
  /\ UNCHANGED <<configVars, topologyVars, payloadVars, runVars, cadenceVars>>

ControlNext ==
  \/ \E d \in Documents : OnlyConfig /\ Edit(d)
  \/ \E h \in Handlers, r \in Requests : OnlyConfig /\ Enter(h, r)
  \/ \E h \in Handlers : OnlyConfig /\ Load(h)
  \/ \E h \in Handlers : OnlyConfig /\ Read(h)
  \/ \E h \in Handlers : OnlyConfig /\ Replace(h)
  \/ \E h \in Handlers : OnlyConfig /\ WriteFails(h)
  \/ \E h \in Handlers : OnlyConfig /\ ApplyFails(h)
  \/ \E h \in Handlers : OnlyConfig /\ UpdateConfig(h)
  \/ \E h \in Handlers : OnlyConfig /\ Pace(h)
  \/ OnlyTopology /\ Discover
  \/ OnlyTopology /\ NextBatch
  \/ \E a \in Aliases : OnlyTopology /\ RouteFound(a)
  \/ \E a \in Aliases : OnlyTopology /\ RouteFails(a)
  \/ OnlyTopology /\ PublishTopology
  \/ OnlyPayload /\ OpenSection
  \/ OnlyPayload /\ CloseSection
  \/ OnlyPayload /\ GpuLine
  \/ OnlyPayload /\ ProcessLine
  \/ OnlyPayload /\ HealthLine
  \/ OnlyPayload /\ WorkloadLine
  \/ OnlyPayload /\ DiskLine
  \/ OnlyPayload /\ CoreLine
  \/ OnlyPayload /\ Finish
  \/ OnlyPayload /\ Lose
  \/ OnlyPayload /\ Repeat
  \/ OnlyPayload /\ Cut
  \/ \E p \in Probes, c \in Codes : OnlyRun /\ ChildExits(p, c)
  \/ \E p \in Probes : OnlyRun /\ StreamsClose(p)
  \/ \E p \in Probes : OnlyRun /\ Begin(p)
  \/ \E p \in Probes : OnlyRun /\ Spawn(p)
  \/ \E p \in Probes : OnlyRun /\ SpawnFails(p)
  \/ \E p \in Probes : OnlyRun /\ Register(p)
  \/ \E p \in Probes : OnlyRun /\ LoopTop(p)
  \/ \E p \in Probes : OnlyRun /\ SelectCancel(p)
  \/ \E p \in Probes : OnlyRun /\ SelectTimeout(p)
  \/ \E p \in Probes : OnlyRun /\ SelectOutput(p)
  \/ \E p \in Probes : OnlyRun /\ SelectEnd(p)
  \/ \E p \in Probes : OnlyRun /\ Ended(p)
  \/ \E p \in Probes : OnlyRun /\ Wait(p)
  \/ \E p \in Probes : OnlyRun /\ Finally(p)
  \/ \E p \in Probes : OnlyRun /\ Conclude(p)
  \/ OnlyRun /\ CancelSet
  \/ OnlyRun /\ CancelWake
  \/ OnlyRun /\ CancelCopy
  \/ OnlyRun /\ CancelKill
  \/ OnlyCadence /\ PassTime
  \/ OnlyCadence /\ Start
  \/ OnlyCadence /\ ProbeFailed
  \/ \E m \in {"m1", "m2"} : OnlyCadence /\ SetMode(m)
  \/ \E b \in BOOLEAN : OnlyCadence /\ SetAttended(b)
  \/ \E b \in BOOLEAN : OnlyCadence /\ Retain(b)
  \/ \E b \in BOOLEAN : OnlyCadence /\ QueryUnavailable(b)
  \/ \E b \in BOOLEAN : OnlyCadence /\ CoreOnly(b)
  \/ \E busy, active \in BOOLEAN : OnlyCadence /\ QueryAnswered(busy, active)
  \/ \E v \in Versions : OnlyUpdate /\ Release(v)
  \/ OnlyUpdate /\ PollFetch
  \/ OnlyUpdate /\ PollPublish
  \/ \E a \in Attempts : OnlyUpdate /\ Apply(a)
  \/ \E a \in Attempts : OnlyUpdate /\ StartWorker(a)
  \/ \E a \in Attempts : OnlyUpdate /\ StartFails(a)
  \/ \E a \in Attempts : OnlyUpdate /\ Fail(a)
  \/ \E a \in Attempts : OnlyUpdate /\ FailInside(a)
  \/ \E a \in Attempts : OnlyUpdate /\ CleanedUp(a)
  \/ \E a \in Attempts : OnlyUpdate /\ CleanupFails(a)
  \/ \E a \in Attempts : OnlyUpdate /\ WorkerFetch(a)
  \/ \E a \in Attempts : OnlyUpdate /\ WorkerPublish(a)
  \/ \E a \in Attempts : OnlyUpdate /\ Download(a)
  \/ \E a \in Attempts : OnlyUpdate /\ Install(a)
  \/ \E a \in Attempts : OnlyUpdate /\ Verify(a)
  \/ \E a \in Attempts : OnlyUpdate /\ RequestRestart(a)
  \/ OnlyUpdate /\ NewProcess

ControlSpec == ControlInit /\ [][ControlNext]_controlVars

===============================================================================
