------------------------------ MODULE SelfUpdate -------------------------------
(*****************************************************************************)
(* The update manager: the poll thread, the apply requests of the dashboard, *)
(* the worker that each accepted one starts, and the supervised restart.     *)
(* Fetching and publishing a release are separate steps, because the fetch   *)
(* runs without the lock: the poll thread may publish an answer older than   *)
(* the worker's.  A release is its version; the wheel it ships is the one of *)
(* its version or unusable, which shows when it is downloaded.               *)
(*****************************************************************************)
EXTENDS Integers, FiniteSets

CONSTANTS
  Versions,     \* versions that are released, the first one is installed
  Attempts      \* bound: apply requests accepted by one process

VARIABLES
  official,     \* the latest release on the release server
  latest,       \* _latest (with _assets), 0: none yet
  status,       \* _state
  current,      \* _current, the version that this process runs
  installed,    \* the version in the environment
  pollHeld,     \* what the poll thread has fetched and not published, 0: nothing
  step,         \* attempt -> where its worker is
  held,         \* attempt -> the release that its worker has fetched
  offered,      \* attempt -> releases that were official since it was accepted
  restarting,   \* restart_event
  disowned      \* a cleanup has failed after its attempt had, and took the state
                \* from another one

updateVars == <<official, latest, status, current, installed, pollHeld, step,
                held, offered, restarting, disowned>>

Working == {"start", "fetch", "publish", "download", "install", "verify"}
Active(a) == step[a] \in Working \cup {"restart"}

\* the state is that of attempt a, whose worker is at work or could not be started
Owns(a) == step[a] \in Working \cup {"unstarted"}

UpdateInit ==
  /\ official = 1
  /\ latest = 0 /\ status = "idle" /\ pollHeld = 0
  /\ current = 1 /\ installed = 1
  /\ step = [a \in Attempts |-> "unused"]
  /\ held = [a \in Attempts |-> 0]
  /\ offered = [a \in Attempts |-> {}]
  /\ restarting = FALSE /\ disowned = FALSE

\* a release is made, or withdrawn so that an older one is the latest again
Release(v) ==
  /\ official' = v /\ v # official
  /\ offered' = [a \in Attempts |-> IF Active(a) THEN offered[a] \cup {v}
                                                 ELSE offered[a]]
  /\ UNCHANGED <<latest, status, current, installed, pollHeld, step, held,
                 restarting, disowned>>

\* _update_available_locked, once release v is the one published
Available(v) == v > current

-------------------------------------------------------------------------------
(* Publishing a release: the second half of _refresh_release *)

\* Broken: any state gives way to the offer of a release.
SupersededAlways(v) == Available(v)
\* a failed attempt is forgotten when a release is on offer
Superseded(v) == status = "failed" /\ Available(v)

Publish(v) ==
  /\ latest' = v
  /\ status' = IF Superseded(v) THEN "idle" ELSE status

-------------------------------------------------------------------------------
(* The poll thread: check_now *)

PollFetch ==
  /\ pollHeld = 0 /\ pollHeld' = official
  /\ UNCHANGED <<official, latest, status, current, installed, step, held,
                 offered, restarting, disowned>>

PollPublish ==
  /\ pollHeld # 0 /\ pollHeld' = 0
  /\ Publish(pollHeld)
  /\ UNCHANGED <<official, current, installed, step, held, offered, restarting,
                 disowned>>

-------------------------------------------------------------------------------
(* Applying *)

Advance(a, next) == step' = [step EXCEPT ![a] = next]

\* apply: the only guard is that no worker says that it is updating.  The lock is
\* released before the thread is started.
Apply(a) ==
  /\ step[a] = "unused" /\ \A b \in Attempts : b < a => step[b] # "unused"
  /\ status # "updating" /\ latest # 0 /\ Available(latest)
  /\ status' = "updating" /\ Advance(a, "start")
  /\ offered' = [offered EXCEPT ![a] = {official}]
  /\ UNCHANGED <<official, latest, current, installed, pollHeld, held, restarting,
                 disowned>>

\* Attempt a does nothing more with a release, and its locals are gone.
Leaves(a, next) ==
  /\ Advance(a, next)
  /\ held' = [held EXCEPT ![a] = 0] /\ offered' = [offered EXCEPT ![a] = {}]

StartWorker(a) ==
  /\ step[a] = "start" /\ Advance(a, "fetch")
  /\ UNCHANGED <<official, latest, status, current, installed, pollHeld, held,
                 offered, restarting, disowned>>

\* Thread.start() raises: the state stays as it is, and nobody else will change it
StartFails(a) ==
  /\ step[a] = "start" /\ Leaves(a, "unstarted")
  /\ UNCHANGED <<official, latest, status, current, installed, pollHeld,
                 restarting, disowned>>

\* _fail, from any step of the worker before the restart, or an exception
Fail(a) ==
  /\ step[a] \in Working \ {"start"}
  /\ Leaves(a, "over") /\ status' = "failed"
  /\ UNCHANGED <<official, latest, current, installed, pollHeld, restarting,
                 disowned>>

\* _fail while the temporary directory is there still
FailInside(a) ==
  /\ step[a] \in {"install", "verify"}
  /\ Leaves(a, "cleanup") /\ status' = "failed"
  /\ UNCHANGED <<official, latest, current, installed, pollHeld, restarting,
                 disowned>>

CleanedUp(a) ==
  /\ step[a] = "cleanup" /\ Advance(a, "over")
  /\ UNCHANGED <<official, latest, status, current, installed, pollHeld, held,
                 offered, restarting, disowned>>

\* the directory cannot be removed: the exception is a second failure, and another
\* attempt may have been accepted since the first one
CleanupFails(a) ==
  /\ step[a] = "cleanup" /\ Advance(a, "over")
  /\ status' = "failed" /\ disowned' = (disowned \/ status = "updating")
  /\ UNCHANGED <<official, latest, current, installed, pollHeld, held, offered,
                 restarting>>

WorkerFetch(a) ==
  /\ step[a] = "fetch" /\ Advance(a, "publish")
  /\ held' = [held EXCEPT ![a] = official]
  /\ UNCHANGED <<official, latest, status, current, installed, pollHeld,
                 offered, restarting, disowned>>

WorkerPublish(a) ==
  /\ step[a] = "publish" /\ Advance(a, "download")
  /\ Publish(held[a])
  /\ UNCHANGED <<official, current, installed, pollHeld, held, offered, restarting,
                 disowned>>

\* the release that the worker goes on with
Chosen(a) == held[a]

\* the release is still newer, its wheel is there and has the digest it should
Download(a) ==
  /\ step[a] = "download" /\ Chosen(a) > current
  /\ held' = [held EXCEPT ![a] = Chosen(a)]
  /\ Advance(a, "install")
  /\ UNCHANGED <<official, latest, status, current, installed, pollHeld,
                 offered, restarting, disowned>>

\* _install; an installer that fails leaves the environment as it was
Install(a) ==
  /\ step[a] = "install" /\ Advance(a, "verify")
  /\ installed' = held[a]
  /\ UNCHANGED <<official, latest, status, current, pollHeld, held, offered,
                 restarting, disowned>>

\* _verify_installed
Verified(a) == installed = held[a]

Verify(a) ==
  /\ step[a] = "verify" /\ Verified(a)
  /\ Advance(a, "restart") /\ status' = "restarting"
  /\ UNCHANGED <<official, latest, current, installed, pollHeld, held, offered,
                 restarting, disowned>>

RequestRestart(a) ==
  /\ step[a] = "restart" /\ Leaves(a, "over")
  /\ restarting' = TRUE
  /\ UNCHANGED <<official, latest, status, current, installed, pollHeld, disowned>>

\* The process ends, after a restart request or for any other reason; another one
\* runs what is installed.  An installation that was under way is complete or
\* never happened.
NewProcess ==
  /\ \E i \in {installed} \cup {held[a] : a \in {b \in Attempts : step[b] = "install"}} :
        current' = i /\ installed' = i
  /\ latest' = 0 /\ status' = "idle" /\ pollHeld' = 0 /\ restarting' = FALSE
  /\ disowned' = FALSE
  /\ step' = [a \in Attempts |-> "unused"]
  /\ held' = [a \in Attempts |-> 0]
  /\ offered' = [a \in Attempts |-> {}]
  /\ UNCHANGED official

UpdateNext ==
  \/ \E v \in Versions : Release(v)
  \/ PollFetch \/ PollPublish
  \/ \E a \in Attempts :
       \/ Apply(a) \/ StartWorker(a) \/ StartFails(a) \/ Fail(a) \/ FailInside(a)
       \/ CleanedUp(a) \/ CleanupFails(a) \/ WorkerFetch(a) \/ WorkerPublish(a)
       \/ Download(a) \/ Install(a) \/ Verify(a) \/ RequestRestart(a)
  \/ NewProcess

UpdateSpec == UpdateInit /\ [][UpdateNext]_updateVars

-------------------------------------------------------------------------------
(* Properties *)

\* The poll thread, publishing what it fetched at any time before, never takes the
\* state from an attempt: it says "updating" from the request until the worker has
\* failed or been verified (for good, if the worker could not be started), and no
\* other is then at work.  An attempt can lose it to an earlier one only, one whose
\* directory cannot be removed after it has failed (UpdateManager.apply,
\* _refresh_release).
UpdatingOwned ==
  /\ status = "updating" => \E a \in Attempts : Owns(a)
  /\ ~disowned =>
       /\ \A a \in Attempts : Owns(a) => status = "updating"
       /\ Cardinality({a \in Attempts : Owns(a)}) <= 1

\* Whatever was published meanwhile, an attempt installs a release that was the
\* official one at some time since it was accepted and that is newer than what
\* the process runs ("Apply must use its own fresh answer even if a concurrent
\* poll publishes another one", _refresh_release).
FreshRelease ==
  \A a \in Attempts : step[a] \in {"install", "verify", "restart"} =>
    held[a] \in offered[a] /\ held[a] > current

\* Both at once: the poll thread neither takes the state from a worker nor changes the
\* release that it installs (UpdateManager.apply, _refresh_release).
UpdatesOwned == UpdatingOwned /\ FreshRelease
===============================================================================
