------------------------------- MODULE ProbeRun --------------------------------
(*****************************************************************************)
(* One probe of a host at the level of processes: the bounded run of the SSH *)
(* client, its retry over a fresh transport, and the cancellation of every   *)
(* probe at shutdown.  Probes run in worker threads, the cancellation in     *)
(* another; a child may exit, go silent with its streams open, close them    *)
(* and stay, or leave a descendant outside its process group that keeps them *)
(* open.  The deadline may pass at any moment: every check of it may find it *)
(* so.                                                                       *)
(*****************************************************************************)
EXTENDS FiniteSets, Naturals

CONSTANTS
  Probes        \* probe threads

VARIABLES
  at,           \* probe -> where its thread is
  again,        \* probe -> this is the retry
  child,        \* probe -> "none" (is left), "running", "dead" (has exited, or has
                \* been sent a SIGKILL) or "reaped" (its exit status is known)
  code,         \* probe -> how the child exited
  piped,        \* probe -> somebody holds the child's streams open
  escaped,      \* probe -> a descendant outside the process group does
  heard,        \* probe -> output was read
  result,       \* probe -> outcome of the run, later of the probe
  registered,   \* _ActiveProcessRegistry._processes
  cancelled,    \* its event
  wakeup,       \* a byte in its pipe
  cancelAt,     \* where cancel() is
  snapshot      \* the processes that cancel() has copied

runThread == <<at, again, result, heard>>
runChild  == <<child, code, piped, escaped>>
runCancel == <<cancelled, wakeup, cancelAt, snapshot>>
runVars   == <<runThread, runChild, registered, runCancel>>

\* exit statuses: 255, of the SSH client a failure of the transport (of a local probe
\* one like any other), and any other failure
Codes == {"ok", "lost", "failed"}

RunInit ==
  /\ at = [p \in Probes |-> "idle"] /\ again = [p \in Probes |-> FALSE]
  /\ child = [p \in Probes |-> "none"] /\ code = [p \in Probes |-> "ok"]
  /\ piped = [p \in Probes |-> FALSE] /\ escaped = [p \in Probes |-> FALSE]
  /\ heard = [p \in Probes |-> FALSE]
  /\ result = [p \in Probes |-> "none"]
  /\ registered = {}
  /\ cancelled = FALSE /\ wakeup = FALSE /\ cancelAt = "before" /\ snapshot = {}

Goto(p, l) == at' = [at EXCEPT ![p] = l]

-------------------------------------------------------------------------------
(* The child *)

\* exit, with the streams closed unless somebody else holds them
ChildExits(p, c) ==
  /\ child[p] = "running"
  /\ child' = [child EXCEPT ![p] = "dead"] /\ code' = [code EXCEPT ![p] = c]
  /\ piped' = [piped EXCEPT ![p] = escaped[p]]
  /\ UNCHANGED <<runThread, escaped, registered, runCancel>>

\* the child and whoever inherited its streams close them
StreamsClose(p) ==
  /\ piped[p]
  /\ piped' = [piped EXCEPT ![p] = FALSE] /\ escaped' = [escaped EXCEPT ![p] = FALSE]
  /\ UNCHANGED <<runThread, child, code, registered, runCancel>>

-------------------------------------------------------------------------------
(* _run_bounded_process *)

\* the check before anything is started, for the first run and for the retry
Begin(p) ==
  /\ at[p] \in {"idle", "again"}
  /\ again' = [again EXCEPT ![p] = at[p] = "again"]
  /\ IF cancelled
     THEN Goto(p, "over") /\ result' = [result EXCEPT ![p] = "cancelled"]
     ELSE Goto(p, "spawn") /\ result' = [result EXCEPT ![p] = "none"]
  /\ UNCHANGED <<heard, runChild, registered, runCancel>>

\* Popen
Spawn(p) ==
  /\ at[p] = "spawn" /\ Goto(p, "register")
  /\ child' = [child EXCEPT ![p] = "running"]
  /\ piped' = [piped EXCEPT ![p] = TRUE]
  /\ \E e \in BOOLEAN : escaped' = [escaped EXCEPT ![p] = e]
  /\ UNCHANGED <<again, result, heard, code, registered, runCancel>>

SpawnFails(p) ==
  /\ at[p] = "spawn" /\ Goto(p, "over")
  /\ result' = [result EXCEPT ![p] = "failed"]
  /\ UNCHANGED <<again, heard, runChild, registered, runCancel>>

\* what the run ends with; the finally clause follows
Outcome(p, r) == Goto(p, "finally") /\ result' = [result EXCEPT ![p] = r]

\* the registry refuses a process once it is cancelled
Register(p) ==
  /\ at[p] = "register"
  /\ IF cancelled
     THEN Outcome(p, "cancelled") /\ UNCHANGED registered
     ELSE /\ registered' = registered \cup {p}
          /\ Goto(p, "top") /\ UNCHANGED result
  /\ UNCHANGED <<again, heard, runChild, runCancel>>

\* the head of the loop
LoopTop(p) ==
  /\ at[p] = "top"
  /\ IF cancelled THEN Outcome(p, "cancelled")
     ELSE Outcome(p, "timeout") \/ (Goto(p, "select") /\ UNCHANGED result)
  /\ UNCHANGED <<again, heard, runChild, registered, runCancel>>

\* Broken: the first probe that is woken takes the byte out of the pipe.
WakeupConsumed == FALSE
\* the byte is never read, so that every selector sees it
WakeupLeft == wakeup

\* select: the byte, the deadline, output (perhaps too much), or end of file
SelectCancel(p) ==
  /\ at[p] = "select" /\ wakeup
  /\ Outcome(p, "cancelled") /\ wakeup' = WakeupLeft
  /\ UNCHANGED <<again, heard, runChild, registered, cancelled, cancelAt, snapshot>>

SelectTimeout(p) ==
  /\ at[p] = "select" /\ Goto(p, "top")
  /\ UNCHANGED <<again, result, heard, runChild, registered, runCancel>>

SelectOutput(p) ==
  /\ at[p] = "select" /\ piped[p]
  /\ heard' = [heard EXCEPT ![p] = TRUE]
  /\ \/ Goto(p, "top") /\ UNCHANGED result
     \/ Outcome(p, "failed")
  /\ UNCHANGED <<again, runChild, registered, runCancel>>

SelectEnd(p) ==
  /\ at[p] = "select" /\ ~piped[p] /\ Goto(p, "ended")
  /\ UNCHANGED <<again, result, heard, runChild, registered, runCancel>>

Exited(p) == child[p] \in {"dead", "reaped"}

\* the checks between the streams and the wait for the exit
Ended(p) ==
  /\ at[p] = "ended"
  /\ IF cancelled THEN Outcome(p, "cancelled")
     ELSE \/ Outcome(p, IF Exited(p) THEN code[p] ELSE "timeout")
          \/ Goto(p, "wait") /\ UNCHANGED result
  /\ UNCHANGED <<again, heard, runChild, registered, runCancel>>

\* process.wait, which no byte interrupts
Wait(p) ==
  /\ at[p] = "wait"
  /\ \/ /\ Exited(p)
        /\ child' = [child EXCEPT ![p] = "reaped"]
        /\ Outcome(p, code[p])
     \/ ~Exited(p) /\ Outcome(p, "timeout") /\ UNCHANGED child
  /\ UNCHANGED <<again, heard, code, piped, escaped, registered, runCancel>>

\* unregister, kill what still runs, and give it a second to be reaped
Finally(p) ==
  /\ at[p] = "finally" /\ Goto(p, "over")
  /\ registered' = registered \ {p}
  /\ \E c \in {"none", "dead"} : child' = [child EXCEPT ![p] = c]
  /\ code' = [code EXCEPT ![p] = "ok"]
  /\ piped' = [piped EXCEPT ![p] = FALSE] /\ escaped' = [escaped EXCEPT ![p] = FALSE]
  /\ UNCHANGED <<again, result, heard, runCancel>>

-------------------------------------------------------------------------------
(* probe: retry and classification *)

\* the payload of an output that is complete may still be refused, see ProbePayload
Status(p, local) ==
  CASE result[p] = "ok" -> "online"
    [] ~local /\ result[p] = "lost" -> "unreachable"
    [] ~local /\ result[p] = "timeout" /\ ~heard[p] -> "unreachable"
    [] OTHER -> "error"

\* A transport that its message shows to be stale is worth one more run, if the
\* deadline leaves time for it.  Only here it matters whether the host is the local one.
Conclude(p) ==
  /\ at[p] = "over"
  /\ \/ result[p] = "lost" /\ ~again[p] /\ Goto(p, "again") /\ UNCHANGED result
     \/ \E local \in BOOLEAN :
          /\ again[p] => ~local
          /\ Goto(p, "idle") /\ result' = [result EXCEPT ![p] = Status(p, local)]
  /\ again' = [again EXCEPT ![p] = FALSE] /\ heard' = [heard EXCEPT ![p] = FALSE]
  /\ UNCHANGED <<runChild, registered, runCancel>>

-------------------------------------------------------------------------------
(* cancel *)

CancelSet ==
  /\ cancelAt = "before" /\ cancelAt' = "set" /\ cancelled' = TRUE
  /\ UNCHANGED <<runThread, runChild, registered, wakeup, snapshot>>

CancelWake ==
  /\ cancelAt = "set" /\ cancelAt' = "woken" /\ wakeup' = TRUE
  /\ UNCHANGED <<runThread, runChild, registered, cancelled, snapshot>>

CancelCopy ==
  /\ cancelAt = "woken" /\ cancelAt' = "copied" /\ snapshot' = registered
  /\ UNCHANGED <<runThread, runChild, registered, cancelled, wakeup>>

\* _kill_process_group: a descendant outside the group survives
CancelKill ==
  /\ cancelAt = "copied" /\ cancelAt' = "done"
  /\ LET hit == {p \in snapshot : child[p] = "running"}
     IN /\ child' = [p \in Probes |-> IF p \in hit THEN "dead" ELSE child[p]]
        /\ code' = [p \in Probes |-> IF p \in hit THEN "failed" ELSE code[p]]
        /\ piped' = [p \in Probes |-> IF p \in hit THEN escaped[p] ELSE piped[p]]
  /\ UNCHANGED <<runThread, escaped, registered, cancelled, wakeup, snapshot>>

RunNext ==
  \/ \E p \in Probes :
       \/ \E c \in Codes : ChildExits(p, c)
       \/ StreamsClose(p)
       \/ Begin(p) \/ Spawn(p) \/ SpawnFails(p) \/ Register(p) \/ LoopTop(p)
       \/ SelectCancel(p) \/ SelectTimeout(p) \/ SelectOutput(p) \/ SelectEnd(p)
       \/ Ended(p) \/ Wait(p) \/ Finally(p) \/ Conclude(p)
  \/ CancelSet \/ CancelWake \/ CancelCopy \/ CancelKill

RunSpec == RunInit /\ [][RunNext]_runVars

-------------------------------------------------------------------------------
(* Properties *)

\* Once cancel() has returned, no probe waits for anything that only its deadline
\* would bring, whatever its child does and wherever the probe was when the
\* cancellation came; and a probe that is over has left no child that nobody killed
\* (_ActiveProcessRegistry, _run_bounded_process).
NobodyLeftWaiting ==
  /\ cancelAt = "done" => \A p \in Probes :
       /\ at[p] = "select" => wakeup \/ ~piped[p]
       /\ at[p] = "wait" => Exited(p)
  /\ \A p \in Probes : at[p] \in {"idle", "over", "again"} => child[p] # "running"
===============================================================================
