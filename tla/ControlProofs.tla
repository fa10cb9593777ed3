----------------------------- MODULE ControlProofs -----------------------------
(*****************************************************************************)
(* Proofs about three components that the process controls by threads of its *)
(* own: a cancellation reaches every probe, for any number of them and       *)
(* wherever each is when it comes; the queries for the processes of a host   *)
(* are left out only while the last answer is fresh enough, for every        *)
(* interval and stretch; and the update manager keeps its status honest and  *)
(* installs only what it was offered, for every set of versions, with any    *)
(* number of apply requests and whenever the poll thread publishes.          *)
(*****************************************************************************)
EXTENDS ProbeRun, ProbeCadence, SelfUpdate, FiniteSetTheorems, TLAPS

-------------------------------------------------------------------------------
(* The cancellation of probes *)

Places == {"idle", "again", "spawn", "register", "top", "select", "ended", "wait",
           "finally", "over"}
Watched == {"top", "select", "ended", "wait"}

\* What cancel() has done follows from where it is.  A probe that waits is
\* registered, so that a copy of the registry that was made after the flag was
\* set holds every probe that waits without having seen the flag.
CancelInv ==
  /\ at \in [Probes -> Places]
  /\ child \in [Probes -> {"none", "running", "dead", "reaped"}]
  /\ DOMAIN piped = Probes /\ DOMAIN escaped = Probes /\ DOMAIN code = Probes
  /\ cancelAt \in {"before", "set", "woken", "copied", "done"}
  /\ cancelAt # "before" => cancelled
  /\ cancelAt \in {"woken", "copied", "done"} => wakeup
  /\ \A p \in Probes :
       /\ at[p] \in {"idle", "again", "spawn", "over"} => child[p] # "running"
       /\ at[p] \in Watched => p \in registered
       /\ at[p] \in Watched \cup {"register"} => child[p] # "none"
       /\ at[p] = "wait" /\ cancelAt = "copied" => p \in snapshot
       /\ at[p] = "wait" /\ cancelAt = "done" => Exited(p)

\* Nothing runs at the start.
LEMMA CancelInvInit == RunInit => CancelInv
BY DEF RunInit, CancelInv, Places, Watched, Exited

\* A step of a probe or of its child keeps the invariant.
LEMMA CancelInvProbe ==
  ASSUME CancelInv, NEW p \in Probes,
         \/ \E c \in Codes : ChildExits(p, c)
         \/ StreamsClose(p)
         \/ Begin(p) \/ Spawn(p) \/ SpawnFails(p) \/ Register(p) \/ LoopTop(p)
         \/ SelectCancel(p) \/ SelectTimeout(p) \/ SelectOutput(p) \/ SelectEnd(p)
         \/ Ended(p) \/ Wait(p) \/ Finally(p) \/ Conclude(p)
  PROVE  CancelInv'
<1> USE DEF CancelInv, Places, Watched, Exited, Goto, Outcome, runThread, runChild,
            runCancel
<1>1. ASSUME NEW c \in Codes, ChildExits(p, c) PROVE CancelInv'
  BY <1>1 DEF ChildExits
<1>2. CASE StreamsClose(p) BY <1>2 DEF StreamsClose
<1>3. CASE Begin(p) BY <1>3 DEF Begin
<1>4. CASE Spawn(p) BY <1>4 DEF Spawn
<1>5. CASE SpawnFails(p) BY <1>5 DEF SpawnFails
<1>6. CASE Register(p) BY <1>6 DEF Register
<1>7. CASE LoopTop(p) BY <1>7 DEF LoopTop
<1>8. CASE SelectCancel(p) BY <1>8 DEF SelectCancel, WakeupLeft
<1>9. CASE SelectTimeout(p) BY <1>9 DEF SelectTimeout
<1>10. CASE SelectOutput(p) BY <1>10 DEF SelectOutput
<1>11. CASE SelectEnd(p) BY <1>11 DEF SelectEnd
<1>12. CASE Ended(p) BY <1>12 DEF Ended
<1>13. CASE Wait(p) BY <1>13 DEF Wait
<1>14. CASE Finally(p) BY <1>14 DEF Finally
<1>15. CASE Conclude(p) BY <1>15 DEF Conclude
<1> QED
  BY <1>1, <1>2, <1>3, <1>4, <1>5, <1>6, <1>7, <1>8, <1>9, <1>10, <1>11, <1>12,
     <1>13, <1>14, <1>15

\* Every step keeps the invariant.
LEMMA CancelInvNext == CancelInv /\ [RunNext]_runVars => CancelInv'
<1> SUFFICES ASSUME CancelInv, [RunNext]_runVars PROVE CancelInv'
  OBVIOUS
<1>1. CASE CancelSet
  BY <1>1 DEF CancelSet, CancelInv, Exited, runThread, runChild
<1>2. CASE CancelWake
  BY <1>2 DEF CancelWake, CancelInv, Exited, runThread, runChild
<1>3. CASE CancelCopy
  BY <1>3 DEF CancelCopy, CancelInv, Exited, Watched, runThread, runChild
<1>4. CASE CancelKill
  BY <1>4 DEF CancelKill, CancelInv, Exited, Watched, runThread
<1>5. CASE UNCHANGED runVars
  BY <1>5 DEF CancelInv, Exited, runVars, runThread, runChild, runCancel
<1> QED
  BY <1>1, <1>2, <1>3, <1>4, <1>5, CancelInvProbe DEF RunNext

\* Once cancel() has returned no probe waits for its deadline, and a probe that is
\* over leaves no child that nobody killed (_ActiveProcessRegistry, _run_bounded_process).
THEOREM CancellationReachesAll == RunSpec => []NobodyLeftWaiting
<1>1. CancelInv => NobodyLeftWaiting
  BY DEF CancelInv, NobodyLeftWaiting
<1> QED BY <1>1, CancelInvInit, CancelInvNext, PTL DEF RunSpec

-------------------------------------------------------------------------------
(* The update of the program *)

Steps == Working \cup {"unused", "unstarted", "restart", "cleanup", "over"}

\* At most one attempt has the state, until a cleanup disowns it, and the status says
\* so; an attempt under way holds a release that was official since it was accepted,
\* and from the installation on one that is newer than what the process runs.
UpdateInv ==
  /\ step \in [Attempts -> Steps]
  /\ DOMAIN held = Attempts /\ DOMAIN offered = Attempts
  /\ status = "updating" => \E a \in Attempts : Owns(a)
  /\ ~disowned => \A a \in Attempts : Owns(a) => status = "updating"
  /\ ~disowned => \A a, b \in Attempts : Owns(a) /\ Owns(b) => a = b
  /\ \A a \in Attempts :
       /\ Active(a) => official \in offered[a]
       /\ step[a] \in {"publish", "download", "install", "verify", "restart"}
            => held[a] \in offered[a]
       /\ step[a] \in {"install", "verify", "restart"} => held[a] > current

\* No worker runs at the start.
LEMMA UpdateInvInit == UpdateInit => UpdateInv
BY DEF UpdateInit, UpdateInv, Steps, Working, Active, Owns

\* Every step of the update manager keeps the invariant.
LEMMA UpdateInvNext == UpdateInv /\ [UpdateNext]_updateVars => UpdateInv'
<1> SUFFICES ASSUME UpdateInv, [UpdateNext]_updateVars PROVE UpdateInv'
  OBVIOUS
<1> USE DEF UpdateInv, Steps, Working, Active, Owns
<1>1. ASSUME NEW v \in Versions, Release(v) PROVE UpdateInv'
  BY <1>1 DEF Release
<1>2. CASE PollFetch
  BY <1>2 DEF PollFetch
<1>3. CASE PollPublish
  BY <1>3 DEF PollPublish, Publish, Superseded
<1>4. ASSUME NEW a \in Attempts, Apply(a) PROVE UpdateInv'
  <2>1. /\ step' = [step EXCEPT ![a] = "start"] /\ status # "updating"
        /\ status' = "updating" /\ offered' = [offered EXCEPT ![a] = {official}]
        /\ UNCHANGED <<official, current, held, disowned>>
    BY <1>4 DEF Apply, Advance
  <2>2. Owns(a)'
    BY <2>1
  <2>3. ASSUME ~disowned, NEW b \in Attempts, Owns(b)' PROVE b = a
    BY <2>1, <2>3
  <2> QED BY <2>1, <2>2, <2>3
<1>5. ASSUME NEW a \in Attempts, StartWorker(a) PROVE UpdateInv'
  BY <1>5 DEF StartWorker, Advance
<1>6. ASSUME NEW a \in Attempts, StartFails(a) PROVE UpdateInv'
  BY <1>6 DEF StartFails, Leaves, Advance
<1>7. ASSUME NEW a \in Attempts, Fail(a) \/ FailInside(a) PROVE UpdateInv'
  BY <1>7 DEF Fail, FailInside, Leaves, Advance
<1>8. ASSUME NEW a \in Attempts, CleanedUp(a) \/ CleanupFails(a) PROVE UpdateInv'
  BY <1>8 DEF CleanedUp, CleanupFails, Advance
<1>9. ASSUME NEW a \in Attempts, WorkerFetch(a) PROVE UpdateInv'
  BY <1>9 DEF WorkerFetch, Advance
<1>10. ASSUME NEW a \in Attempts, WorkerPublish(a) PROVE UpdateInv'
  BY <1>10 DEF WorkerPublish, Advance, Publish, Superseded
<1>11. ASSUME NEW a \in Attempts, Download(a) PROVE UpdateInv'
  BY <1>11 DEF Download, Advance, Chosen
<1>12. ASSUME NEW a \in Attempts, Install(a) PROVE UpdateInv'
  BY <1>12 DEF Install, Advance
<1>13. ASSUME NEW a \in Attempts, Verify(a) PROVE UpdateInv'
  BY <1>13 DEF Verify, Advance
<1>14. ASSUME NEW a \in Attempts, RequestRestart(a) PROVE UpdateInv'
  BY <1>14 DEF RequestRestart, Leaves, Advance
<1>15. CASE NewProcess
  BY <1>15 DEF NewProcess
<1>16. CASE UNCHANGED updateVars
  BY <1>16 DEF updateVars
<1> QED
  BY <1>1, <1>2, <1>3, <1>4, <1>5, <1>6, <1>7, <1>8, <1>9, <1>10, <1>11, <1>12,
     <1>13, <1>14, <1>15, <1>16 DEF UpdateNext

\* The invariant says that the attempts that have the state are one or none.
LEMMA UpdateInvOwned == UpdateInv => UpdatingOwned
<1> SUFFICES ASSUME UpdateInv PROVE UpdatingOwned
  OBVIOUS
<1> DEFINE W == {a \in Attempts : Owns(a)}
<1>1. ASSUME ~disowned PROVE Cardinality(W) <= 1
  <2>1. CASE W = {} BY <2>1, FS_EmptySet
  <2>2. CASE W # {}
    <3>1. PICK a \in W : W = {a}
      BY <1>1, <2>2 DEF UpdateInv
    <3>2. Cardinality(W) = 1
      BY <3>1, FS_Singleton
    <3> QED BY <3>2
  <2> QED BY <2>1, <2>2
<1> QED BY <1>1 DEF UpdateInv, UpdatingOwned

\* The poll thread never takes the state from a worker, and no two workers have it at
\* once, unless a cleanup fails after an attempt has (UpdateManager.apply,
\* _refresh_release).
THEOREM UpdatesHaveOneOwner == UpdateSpec => []UpdatingOwned
<1>1. UpdateInv /\ [UpdateNext]_updateVars => UpdateInv'
  BY UpdateInvNext
<1> QED BY <1>1, UpdateInvInit, UpdateInvOwned, PTL DEF UpdateSpec

\* Whatever is published meanwhile, an attempt installs a release that was
\* official since it was accepted and that is newer than the running one
\* (_refresh_release, _install).
THEOREM UpdatesAreFresh == UpdateSpec => []FreshRelease
<1>1. UpdateInv => FreshRelease
  BY DEF UpdateInv, FreshRelease
<1>2. UpdateInv /\ [UpdateNext]_updateVars => UpdateInv'
  BY UpdateInvNext
<1> QED BY <1>1, <1>2, UpdateInvInit, PTL DEF UpdateSpec

\* The poll thread neither takes the state from a worker nor changes the release that
\* it installs, whatever is released or withdrawn (UpdateManager.apply,
\* _refresh_release).
THEOREM UpdatesAreOwned == UpdateSpec => []UpdatesOwned
BY UpdatesHaveOneOwner, UpdatesAreFresh, PTL DEF UpdatesOwned

-------------------------------------------------------------------------------
(* The pace of the process queries *)

\* What the probe remembers of a host is what the property observes of it: a viewer
\* who waits has forced the next query, and activity since the last one is hinted, as
\* long as an answer is cached.
CadenceInv ==
  /\ instant \in Nat
  /\ cached = NoSample \/ (cached.at \in Nat /\ cached.streak \in Nat)
  /\ probing = NotProbing \/ probing.at \in Nat
  /\ unseen => forced \/ cached = NoSample
  /\ activeSince => hint \/ cached = NoSample

\* A power of two is the number of subsets of a set.
LEMMA PowersAreNat == \A n \in Nat : 2 ^ n \in Nat
<1> SUFFICES ASSUME NEW n \in Nat PROVE 2 ^ n \in Nat
  OBVIOUS
<1>1. IsFiniteSet(1..n) /\ Cardinality(1..n) = n
  BY FS_Interval
<1>2. IsFiniteSet(SUBSET (1..n)) /\ Cardinality(SUBSET (1..n)) = 2 ^ Cardinality(1..n)
  BY <1>1, FS_SUBSET
<1>3. Cardinality(SUBSET (1..n)) \in Nat
  BY <1>2, FS_CardinalityType
<1> QED BY <1>1, <1>2, <1>3

\* The smaller one of two numbers.
LEMMA MinOfTwo ==
  ASSUME NEW a \in Nat, NEW b \in Nat
  PROVE  Min({a, b}) \in {a, b} /\ Min({a, b}) <= a /\ Min({a, b}) <= b
<1>1. \E x \in {a, b} : \A y \in {a, b} : x <= y
  <2>1. CASE a <= b
    BY <2>1
  <2>2. CASE b <= a
    BY <2>2
  <2> QED BY <2>1, <2>2
<1> QED BY <1>1 DEF Min

\* An attended host waits IdleStretch intervals at most, and one after activity.
LEMMA StretchIsBounded ==
  ASSUME CadenceInv, cached # NoSample
  PROVE  /\ AttendedInterval <= IdleStretch * Interval /\ AttendedInterval \in Nat
         /\ IdleStretch * Interval \in Nat
         /\ hint => AttendedInterval = Interval
<1> DEFINE m == Min({2 ^ cached.streak, IdleStretch})
<1>1. Interval \in Nat /\ IdleStretch \in Nat /\ IdleStretch >= 1
  BY CadenceAssumption
<1>2. m \in Nat /\ m <= IdleStretch
  <2>1. 2 ^ cached.streak \in Nat
    BY PowersAreNat DEF CadenceInv
  <2> QED BY <1>1, <2>1, MinOfTwo
<1>3. AttendedInterval = IF cached.streak > 0 /\ ~hint THEN Interval * m ELSE Interval
  BY DEF AttendedInterval
<1> HIDE DEF m
<1>4. \A i, x, y \in Nat : x <= y => i * x <= y * i /\ i * x \in Nat /\ y * i \in Nat
  OBVIOUS
<1>5. Interval * m <= IdleStretch * Interval /\ Interval * m \in Nat
  BY ONLY <1>1, <1>2, <1>4
<1>6. Interval <= IdleStretch * Interval /\ IdleStretch * Interval \in Nat
  <2>1. 1 \in Nat /\ Interval * 1 = Interval
    BY ONLY <1>1
  <2> QED BY ONLY <1>1, <1>4, <2>1
<1> QED BY <1>1, <1>3, <1>5, <1>6

\* No step forgets a viewer who waits, or activity.
LEMMA CadenceInvNext == CadenceInv /\ [CadenceNext]_cadenceVars => CadenceInv'
<1> SUFFICES ASSUME CadenceInv, [CadenceNext]_cadenceVars PROVE CadenceInv'
  OBVIOUS
<1> USE DEF CadenceInv
<1>1. CASE PassTime \/ ProbeFailed \/ (\E m \in Modes : SetMode(m))
  BY <1>1 DEF PassTime, ProbeFailed, SetMode
<1>2. CASE Start
  BY <1>2 DEF Start
<1>3. ASSUME NEW b \in BOOLEAN, SetAttended(b) PROVE CadenceInv'
  BY <1>3 DEF SetAttended
<1>4. ASSUME NEW b \in BOOLEAN, Retain(b) PROVE CadenceInv'
  BY <1>4 DEF Retain
<1>5. ASSUME NEW b \in BOOLEAN, QueryUnavailable(b) PROVE CadenceInv'
  BY <1>5 DEF QueryUnavailable, Latch
<1>6. ASSUME NEW b \in BOOLEAN, CoreOnly(b) PROVE CadenceInv'
  BY <1>6 DEF CoreOnly, Latch
<1>7. ASSUME NEW busy \in BOOLEAN, NEW active \in BOOLEAN, QueryAnswered(busy, active)
      PROVE  CadenceInv'
  <2>1. probing # NotProbing
    <3>1. ~NotProbing.query
      BY ONLY DEF NotProbing
    <3>2. probing.query
      BY <1>7 DEF QueryAnswered
    <3> QED BY ONLY <3>1, <3>2
  <2>2. cached'.at = probing.at
    BY <1>7 DEF QueryAnswered
  <2>3. cached'.streak = IF busy THEN 0 ELSE IF cached = NoSample THEN 1
                         ELSE Min({cached.streak + 1, IdleStretch})
    BY <1>7 DEF QueryAnswered
  <2>4. cached'.streak \in Nat
    <3>1. cached # NoSample => Min({cached.streak + 1, IdleStretch}) \in Nat
      BY CadenceAssumption, MinOfTwo
    <3> QED BY <2>3, <3>1
  <2> QED BY <1>7, <2>1, <2>2, <2>4 DEF QueryAnswered
<1>8. CASE UNCHANGED cadenceVars
  BY <1>8 DEF cadenceVars
<1> QED BY <1>1, <1>2, <1>3, <1>4, <1>5, <1>6, <1>7, <1>8 DEF CadenceNext

\* Whatever the intervals: a probe that does not ask for processes leaves nobody with
\* an old picture (_processes_due).
THEOREM QueriesAreFresh == CadenceSpec => SkippedOnlyWhenFresh
<1>1. CadenceInit => CadenceInv
  BY DEF CadenceInit, CadenceInv
<1>2. CadenceInv /\ [CadenceNext]_cadenceVars =>
        [Start /\ ~probing'.query =>
           /\ attended => ~unseen
           /\ attended /\ activeSince => instant - cached.at < Interval
           /\ attended => instant - cached.at < IdleStretch * Interval]_cadenceVars
  <2> SUFFICES ASSUME CadenceInv, Start, ~probing'.query, attended
               PROVE  /\ ~unseen
                      /\ activeSince => instant - cached.at < Interval
                      /\ instant - cached.at < IdleStretch * Interval
    OBVIOUS
  <2>1. ~Due
    BY DEF Start
  <2>2. ~forced /\ cached # NoSample /\ ~(instant - cached.at >= AttendedInterval)
    BY <2>1 DEF Due
  <2>3. ~unseen /\ (activeSince => hint)
    BY <2>2 DEF CadenceInv
  <2>4. instant - cached.at \in Int
    BY <2>2 DEF CadenceInv
  <2>5. /\ AttendedInterval <= IdleStretch * Interval /\ AttendedInterval \in Nat
        /\ IdleStretch * Interval \in Nat
        /\ hint => AttendedInterval = Interval
    BY <2>2, StretchIsBounded
  <2>6. \A d \in Int : \A x, y \in Nat : ~(d >= x) => d < x /\ (x <= y => d < y)
    OBVIOUS
  <2> QED BY ONLY <2>2, <2>3, <2>4, <2>5, <2>6
<1> QED BY <1>1, <1>2, CadenceInvNext, PTL DEF CadenceSpec, SkippedOnlyWhenFresh

===============================================================================
