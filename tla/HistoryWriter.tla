----------------------------- MODULE HistoryWriter -----------------------------
(*****************************************************************************)
(* The asynchronous history storage of mocop, SqliteTelemetryPersistence:    *)
(* producers admit writes to a bounded queue without waiting; one writer     *)
(* thread commits them in batches; a flush is a barrier in the same queue;   *)
(* close ends admission and lets the writer finish.                          *)
(*                                                                           *)
(* A write is of one of three kinds that the transaction treats differently: *)
(* "history"; "gpu", which needs the hourly rollups and may be outside the    *)
(* retention window; and "incident", a transition and the critical line of    *)
(* one condition.  SQLite is a transaction that commits or fails.            *)
(*****************************************************************************)
EXTENDS Integers, Sequences, FiniteSets, Subsequences

CONSTANTS
  Kinds,       \* kinds of writes that occur
  Capacity,    \* _QUEUE_CAPACITY
  BatchSize,   \* _WRITE_BATCH_SIZE
  Lines,       \* critical lines of the condition
  Calls,       \* calls of flush()
  MaxWrites    \* bound: writes offered

ASSUME KindsAssumption == Kinds \subseteq {"history", "gpu", "incident"}
ASSUME SizesAssumption == Capacity \in Nat \ {0} /\ BatchSize \in Nat \ {0}
ASSUME LinesAssumption == Lines \subseteq Nat \ {0}
ASSUME MaxWritesAssumption == MaxWrites \in Nat

VARIABLES
  offered, tracked,                   \* the producer: writes so far, the line
                                      \* of the open condition (0: not open)
  queue, closed, writerFailed,        \* _queue, _closed, _writer_failed
  dropped, flushedDrops,              \* _dropped_writes, _flushed_drops
  calls,                              \* flush calls and their barriers
  companions, rollups,                \* _companions_enabled, _rollups_enabled
  wpc, batch, pruned,                 \* the writer thread and its locals
  cache,                              \* _incident_criteria of the condition
  stored, db,                         \* what was committed; the rows of the
                                      \* condition's latest transition
  lost                                \* losses in the order they were counted

producerVars == <<offered, tracked>>
statusVars   == <<closed, writerFailed, dropped, flushedDrops>>
startVars    == <<companions, rollups>>
writerVars   == <<wpc, batch, pruned>>
diskVars     == <<cache, stored, db>>
vars == <<producerVars, queue, statusVars, calls, startVars, writerVars,
          diskVars, lost>>

-------------------------------------------------------------------------------
(* Data *)

Write == [kind : {"history", "gpu", "incident"}, id : 1..MaxWrites,
          event : {"none", "opened", "resolved"}, line : Lines \cup {0}]

Barrier == [kind : {"flush"}, id : Calls, event : {"none"}, line : {0}]

IsWrite(item) == item.kind # "flush"
Writes(items) == Picked(items, {i \in DOMAIN items : IsWrite(items[i])})
IdsOf(items) == [i \in DOMAIN Writes(items) |-> Writes(items)[i].id]

\* The writes that one more sample may record: persist_incidents records a
\* transition with the lines of the conditions open after it.
Offers ==
  LET W(k, e, l) == [kind |-> k, id |-> offered + 1, event |-> e, line |-> l]
  IN {W(k, "none", 0) : k \in Kinds \ {"incident"}}
     \cup (IF "incident" \notin Kinds THEN {}
           ELSE IF tracked = 0 THEN {W("incident", "opened", l) : l \in Lines}
           ELSE {W("incident", "none", l) : l \in Lines}
                \cup {W("incident", "resolved", 0)})

Alive == wpc # "dead"

\* a call that has not begun or that has returned keeps nothing
NoCall(state) ==
  [state |-> state, base |-> 0, dropped |-> 0, failed |-> FALSE, mark |-> 0]

Init ==
  /\ offered = 0 /\ tracked = 0
  /\ queue = <<>> /\ closed = FALSE /\ writerFailed = FALSE
  /\ dropped = 0 /\ flushedDrops = 0
  /\ calls = [c \in Calls |-> NoCall("idle")]
  /\ companions \in BOOLEAN /\ rollups \in BOOLEAN /\ (rollups => companions)
  /\ wpc = "open" /\ batch = <<>> /\ pruned = FALSE
  /\ cache = 0 /\ stored = <<>> /\ lost = <<>>
  /\ db = [state |-> "none", line |-> 0]

-------------------------------------------------------------------------------
(* Producers: collector and HTTP threads *)

Refused == closed \/ writerFailed \/ ~Alive \/ Len(queue) >= Capacity

\* _enqueue, under the admission lock: never waits
Offer(w) ==
  /\ offered < MaxWrites
  /\ offered' = offered + 1
  /\ tracked' = IF w.kind = "incident" THEN w.line ELSE tracked
  /\ IF Refused THEN /\ dropped' = dropped + 1
                     /\ lost' = Append(lost, w.id)
                     /\ UNCHANGED queue
                ELSE /\ queue' = Append(queue, w)
                     /\ UNCHANGED <<dropped, lost>>
  /\ UNCHANGED <<closed, writerFailed, flushedDrops, calls, startVars,
                 writerVars, diskVars>>

\* Broken: only the losses during the call count.
FlushBaseNow == dropped
\* the losses that earlier flushes acknowledged
FlushBase == flushedDrops

FlushStart(c) ==
  /\ calls[c].state = "idle"
  /\ calls' = [calls EXCEPT ![c].state = "admitting", ![c].base = FlushBase]
  /\ UNCHANGED <<producerVars, queue, statusVars, startVars, writerVars,
                 diskVars, lost>>

\* The barrier is admitted like a write, but is offered again while the queue
\* is full.
FlushAdmit(c) ==
  /\ calls[c].state = "admitting"
  /\ \/ /\ closed \/ writerFailed
        /\ calls' = [calls EXCEPT ![c] = NoCall("false")]
        /\ UNCHANGED queue
     \/ /\ ~closed /\ ~writerFailed /\ Len(queue) < Capacity
        /\ queue' = Append(queue, [kind |-> "flush", id |-> c,
                                   event |-> "none", line |-> 0])
        /\ calls' = [calls EXCEPT ![c].state = "waiting", ![c].mark = offered]
  /\ UNCHANGED <<producerVars, statusVars, startVars, writerVars, diskVars,
                 lost>>

FlushTimesOut(c) ==
  /\ calls[c].state \in {"admitting", "waiting"}
  /\ calls' = [calls EXCEPT ![c] = NoCall("false")]
  /\ UNCHANGED <<producerVars, queue, statusVars, startVars, writerVars,
                 diskVars, lost>>

FlushReturns(c) ==
  /\ calls[c].state = "done"
  /\ LET b == calls[c]
     IN /\ flushedDrops' = IF b.dropped > flushedDrops THEN b.dropped
                                                       ELSE flushedDrops
        /\ calls' = [calls EXCEPT ![c] =
             NoCall(IF ~b.failed /\ b.dropped = b.base THEN "true" ELSE "false")]
  /\ UNCHANGED <<producerVars, queue, closed, writerFailed, dropped, startVars,
                 writerVars, diskVars, lost>>

\* close: ends admission and requests the stop; the join may time out
Close ==
  /\ ~closed
  /\ closed' = TRUE
  /\ UNCHANGED <<producerVars, queue, writerFailed, dropped, flushedDrops,
                 calls, startVars, writerVars, diskVars, lost>>

-------------------------------------------------------------------------------
(* The writer thread, _write_loop *)

Open ==
  /\ wpc = "open"
  /\ wpc' = "get"
  /\ UNCHANGED <<producerVars, queue, statusVars, calls, startVars, batch,
                 pruned, diskVars, lost>>

\* the first item of a batch, and then what is queued behind it until the
\* batch is full, a barrier ends it or the queue is empty
Get ==
  /\ wpc = "get" /\ queue # <<>>
  /\ batch' = <<Head(queue)>>
  /\ queue' = Tail(queue)
  /\ wpc' = IF IsWrite(Head(queue)) THEN "fill" ELSE "commit"
  /\ UNCHANGED <<producerVars, statusVars, calls, startVars, pruned, diskVars,
                 lost>>

Fill ==
  /\ wpc = "fill"
  /\ IF queue = <<>> \/ Len(batch) = BatchSize
     THEN wpc' = "commit" /\ UNCHANGED <<batch, queue>>
     ELSE /\ batch' = Append(batch, Head(queue))
          /\ queue' = Tail(queue)
          /\ wpc' = IF IsWrite(Head(queue)) THEN "fill" ELSE "commit"
  /\ UNCHANGED <<producerVars, statusVars, calls, startVars, pruned, diskVars,
                 lost>>

\* The wait for an item timed out: what happens between that and the look at
\* the stop request is missed.
SeeEmpty ==
  /\ wpc = "get" /\ queue = <<>>
  /\ wpc' = "empty"
  /\ UNCHANGED <<producerVars, queue, statusVars, calls, startVars, batch,
                 pruned, diskVars, lost>>

\* Idle: exit if stop was requested, else maybe prune, and get again.
Idle ==
  /\ wpc = "empty"
  /\ wpc' = IF closed THEN "dead" ELSE "get"
  /\ UNCHANGED <<producerVars, queue, statusVars, calls, startVars, batch,
                 pruned, diskVars, lost>>

\* A transaction whose metadata tables are missing is rejected as a whole.
Rejected ==
  \E w \in Elements(Writes(batch)) :
    \/ ~companions /\ w.kind \in {"gpu", "incident"}
    \/ ~rollups /\ w.kind = "gpu"

\* prepare_incident_write: the line the cache knows after write w, where s is
\* the cached line and the row as this transaction has left them so far; an
\* open condition missing from the cache is looked up in the database.
KnownLine(s, w) ==
  IF \/ w.event = "opened"
     \/ w.event = "none" /\ (s.known # 0 \/ s.row.state = "opened")
  THEN w.line ELSE 0

\* A criterion is written only when it differs from the known one.
LineChanged(s, w) ==
  s.row.state = "opened" /\ w.line # IF s.known = 0 THEN s.row.line ELSE s.known

\* _write: a transition adds the latest row, a criterion updates an open one.
WrittenRow(s, w) ==
  IF w.event # "none" THEN [state |-> w.event, line |-> w.line]
  ELSE IF LineChanged(s, w) THEN [s.row EXCEPT !.line = w.line] ELSE s.row

\* the batch-local cache and the row after the first i items of the transaction
After[i \in 0..Len(batch)] ==
  IF i = 0 THEN [known |-> cache, row |-> db]
  ELSE IF batch[i].kind # "incident" THEN After[i-1]
  ELSE [known |-> KnownLine(After[i-1], batch[i]),
        row |-> WrittenRow(After[i-1], batch[i])]

Prepared == After[Len(batch)]

\* Broken: the cache is changed in place, also when the transaction fails.
CacheAfterAlways(committed) == Prepared.known
\* published only after the commit
CacheAfter(committed) == IF committed THEN Prepared.known ELSE cache

\* commit_batch ends: the transaction commits, except for the points outside
\* the retention window, or fails and drops every write of the batch.
Commit ==
  /\ wpc = "commit"
  /\ \E late \in SUBSET {i \in DOMAIN Writes(batch) : Writes(batch)[i].kind = "gpu"},
        ok \in BOOLEAN :
       LET W == Writes(batch)
           gone == IF ok THEN late ELSE DOMAIN W
       IN /\ ok => ~Rejected
          /\ ~ok => late = {} /\ W # <<>>
          /\ stored' = stored \o Picked(IdsOf(batch), DOMAIN W \ gone)
          /\ lost' = lost \o Picked(IdsOf(batch), gone)
          /\ dropped' = dropped + Cardinality(gone)
          /\ db' = IF ok THEN Prepared.row ELSE db
          /\ cache' = CacheAfter(ok)
  /\ wpc' = "finish" /\ pruned' = FALSE
  /\ UNCHANGED <<producerVars, queue, closed, writerFailed, flushedDrops,
                 calls, startVars, batch>>

\* A full database is pruned and the batch tried once more.
Retry ==
  /\ wpc = "commit" /\ ~pruned /\ Writes(batch) # <<>> /\ ~Rejected
  /\ pruned' = TRUE
  /\ UNCHANGED <<producerVars, queue, statusVars, calls, startVars, wpc, batch,
                 diskVars, lost>>

Release(c, items, failed) ==
  LET mine == \E i \in DOMAIN items : items[i].kind = "flush" /\ items[i].id = c
  IN IF mine /\ calls[c].state = "waiting"
     THEN [calls[c] EXCEPT !.state = "done", !.dropped = dropped', !.failed = failed]
     ELSE calls[c]

\* Broken: the barriers of a failing writer are left alone.
ReleasedUnlessFailed(items, failed) ==
  IF failed THEN calls ELSE [c \in Calls |-> Release(c, items, failed)]
\* _finish_items: a caller that gave up does not see its barrier any more
Released(items, failed) == [c \in Calls |-> Release(c, items, failed)]

Finish ==
  /\ wpc = "finish"
  /\ UNCHANGED dropped
  /\ calls' = Released(batch, FALSE)
  /\ batch' = <<>> /\ wpc' = "get"
  /\ UNCHANGED <<producerVars, queue, closed, writerFailed, flushedDrops,
                 startVars, pruned, diskVars, lost>>

\* Broken: the batch in hand is counted although it was committed.
UncommittedAlways == batch
Uncommitted == IF wpc = "commit" THEN batch ELSE <<>>

\* An exception that is no SQLite error: while opening, in a transaction, or
\* in the pruning after one or while idle.  Under the admission lock.
Fail ==
  /\ wpc \in {"open", "commit", "finish", "empty"}
  /\ wpc = "commit" => Writes(batch) # <<>>
  /\ writerFailed' = TRUE
  /\ lost' = lost \o IdsOf(Uncommitted \o queue)
  /\ dropped' = dropped + Len(Writes(Uncommitted)) + Len(Writes(queue))
  /\ calls' = Released(batch \o queue, TRUE)
  /\ queue' = <<>> /\ batch' = <<>> /\ wpc' = "dead"
  /\ UNCHANGED <<producerVars, closed, flushedDrops, startVars, pruned, diskVars>>

Stopped == ~Alive /\ closed /\ UNCHANGED vars

-------------------------------------------------------------------------------

Writer == Open \/ Get \/ Fill \/ SeeEmpty \/ Idle \/ Commit \/ Retry \/ Finish \/ Fail

Next ==
  \/ \E w \in Offers : Offer(w)
  \/ \E c \in Calls : FlushStart(c) \/ FlushAdmit(c) \/ FlushTimesOut(c)
                      \/ FlushReturns(c)
  \/ Close \/ Writer \/ Stopped

Spec == Init /\ [][Next]_vars

-------------------------------------------------------------------------------
(* Properties *)

\* The types of the writer's and its callers' state.
TypeOK ==
  /\ offered \in 0..MaxWrites /\ tracked \in Lines \cup {0}
  /\ queue \in Seq(Write \cup Barrier) /\ Len(queue) <= Capacity
  /\ closed \in BOOLEAN /\ writerFailed \in BOOLEAN
  /\ dropped \in Nat /\ flushedDrops \in Nat
  /\ calls \in [Calls -> [state : {"idle", "admitting", "waiting", "done",
                                   "true", "false"},
                          base : Nat, dropped : Nat, failed : BOOLEAN, mark : Nat]]
  /\ companions \in BOOLEAN /\ rollups \in BOOLEAN
  /\ wpc \in {"open", "get", "fill", "empty", "commit", "finish", "dead"}
  /\ batch \in Seq(Write \cup Barrier) /\ Len(batch) <= BatchSize
  /\ pruned \in BOOLEAN
  /\ cache \in Lines \cup {0} /\ stored \in Seq(1..MaxWrites)
  /\ db \in [state : {"none", "opened", "resolved"}, line : Lines \cup {0}]
  /\ lost \in Seq(1..MaxWrites)

\* what the writer holds and has not yet stored or given up
InHand == IF wpc = "finish" THEN <<>> ELSE batch

\* The writer implements the lossy FIFO: it stores each admitted write at most
\* once and in order, and droppedWrites counts each loss once (OPERATIONS.md,
\* "`droppedWrites` counts lost queue items").
Abstract == INSTANCE LossyQueue WITH
  Ids <- 1..MaxWrites,
  pending <- IdsOf(InHand \o queue),
  lost <- Elements(lost), counted <- dropped

Implements == Abstract!Spec

\* A flush that answers "true" promises that every write offered before its
\* barrier is stored, save the losses that an earlier flush has reported
\* (OPERATIONS.md, "returns false for any lost write since the previous completed
\* flush").
FlushHonest ==
  [][\A c \in Calls :
       calls[c].state = "done" /\ calls'[c].state = "true" =>
         \A w \in 1..calls[c].mark :
           \/ w \in Elements(stored)
           \/ \E i \in 1..flushedDrops : lost[i] = w]_vars

\* The writer's state is well typed, its queue and its batch within their
\* bounds, and between transactions the cached line is the one that the database
\* holds for the open condition, whatever was rolled back or never admitted; a
\* stale one would suppress the write that corrects it (prepare_incident_write).
CacheAgrees ==
  /\ TypeOK
  /\ cache # 0 => db.state = "opened" /\ db.line = cache

\* The barrier of a waiting caller is in the writer's hands, and only a shutdown
\* leaves it there for good: a writer that fails releases every barrier and
\* admits no other ("A writer failure drains the queue and wakes waiting
\* flushes with failure", OPERATIONS.md).
BarriersHeld ==
  \A c \in Calls : calls[c].state = "waiting" =>
    /\ \E item \in Elements(batch \o queue) : item.kind = "flush" /\ item.id = c
    /\ Alive \/ closed

===============================================================================
