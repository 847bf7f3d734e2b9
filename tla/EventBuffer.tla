---------------------------- MODULE EventBuffer ----------------------------
(***************************************************************************)
(* The audit-log writer of storage.py (class EventBuffer): the pumps record *)
(* events into a bounded queue without ever waiting, one writer coroutine   *)
(* moves them in batches into the SQLite table `events`, and shutdown()     *)
(* stops the writer with a None in the queue and a time limit.              *)
(*                                                                          *)
(* The database connection is aiosqlite's: every await hands one operation  *)
(* to a thread that executes operations in FIFO order; cancelling the await *)
(* abandons the answer, never the operation.  All users of the connection   *)
(* share one SQLite transaction.                                            *)
(*                                                                          *)
(* Accepted events are numbered 1, 2, ... in the order of their record().   *)
(***************************************************************************)
EXTENDS Integers, Sequences, FiniteSets

CONSTANTS QueueMax,    \* settings.queue_max
          BatchSize,   \* settings.batch_size
          MaxEvents,   \* bound: calls of record()
          MaxFaults,   \* bound: database operations that fail
          CanTimeout   \* whether shutdown's time limit may expire

\* queue_max = 0 would make the asyncio queue unbounded: not modelled.
ASSUME BufferAssumption ==
    /\ QueueMax \in Nat \ {0}
    /\ BatchSize \in Nat \ {0}
    /\ MaxEvents \in Nat
    /\ MaxFaults \in Nat
    /\ CanTimeout \in BOOLEAN

VARIABLES queue,     \* EventBuffer._queue
          accepted,  \* number of events put_nowait accepted
          dropped,   \* EventBuffer._dropped
          batch,     \* _run's local `batch`
          stopping,  \* _run's local `stopping`
          wpc,       \* what the writer task awaits
          spc,       \* where shutdown() is
          thread,    \* operations handed to the connection's thread
          failed,    \* the last operation the thread executed raised
          txn,       \* rows of the open transaction
          table,     \* committed rows, in rowid order
          faults     \* database operations that failed so far

writer == <<batch, stopping, wpc>>
db     == <<thread, failed, txn, table, faults>>
vars   == <<queue, accepted, dropped, writer, spc, db>>

Stop == 0            \* the None that shutdown() puts behind the last event

Events == 1..MaxEvents

TypeOK ==
    /\ queue \in Seq(Events \cup {Stop}) /\ Len(queue) <= QueueMax
    /\ accepted \in 0..MaxEvents
    /\ dropped \in 0..MaxEvents
    /\ batch \in Seq(Events) /\ Len(batch) <= BatchSize
    /\ stopping \in BOOLEAN
    /\ wpc \in {"get", "many", "commit", "cmany", "ccommit", "done", "cancelled"}
    /\ spc \in {"idle", "put", "wait", "cancel", "done"}
    /\ thread \in Seq({"many", "commit"})
    /\ failed \in BOOLEAN
    /\ txn \in Seq(Events)
    /\ table \in Seq(Events)
    /\ faults \in 0..MaxFaults

Init ==
    /\ queue = <<>> /\ accepted = 0 /\ dropped = 0
    /\ batch = <<>> /\ stopping = FALSE /\ wpc = "get" /\ spc = "idle"
    /\ thread = <<>> /\ failed = FALSE
    /\ txn = <<>> /\ table = <<>> /\ faults = 0

-----------------------------------------------------------------------------
(* record(): runs to its end between two awaits of a pump.                  *)

HasRoom_unbounded == TRUE
HasRoom == Len(queue) < QueueMax

\* run_proxy leaves the buffer's `async with` only when both pumps ended, so
\* nothing is recorded once shutdown() began.
Record ==
    /\ spc = "idle"
    /\ accepted + dropped < MaxEvents
    /\ IF HasRoom
       THEN /\ accepted' = accepted + 1
            /\ queue' = Append(queue, accepted + 1)
            /\ UNCHANGED dropped
       ELSE /\ dropped' = dropped + 1
            /\ UNCHANGED <<accepted, queue>>
    /\ UNCHANGED <<writer, spc, db>>

-----------------------------------------------------------------------------
(* _run(): the writer task.  When the wait for an item times out the loop   *)
(* goes round: the batch is empty there, so nothing is flushed.             *)

\* The batch is full after k items; the first get() does not look at its size.
FullAfter(k) == k > 0 /\ Len(batch) + k >= BatchSize

\* None is consumed when it is met before the batch is full.
MeetsStop(k) == k < Len(queue) /\ ~FullAfter(k) /\ queue[k + 1] = Stop

\* k items are taken: the queue is empty, the batch full, or None is met.
Takes(k) ==
    /\ \A i \in 1..k : queue[i] # Stop /\ ~FullAfter(i - 1)
    /\ k < Len(queue) /\ ~FullAfter(k) => MeetsStop(k)

\* None sets `stopping` behind a batch too, not only when it comes alone.
StopSeen_aloneOnly(k) == k = 0 /\ MeetsStop(k)
StopSeen(k) == MeetsStop(k)

\* `if batch:` the batch is flushed, even when the writer is stopping.
FlushNeeded_unlessStopping(k) == Len(batch) + k > 0 /\ ~StopSeen(k)
FlushNeeded(k) == Len(batch) + k > 0

Get ==
    /\ wpc = "get"
    /\ queue # <<>>
    /\ \E k \in 0..Len(queue) :
          /\ Takes(k)
          /\ batch' = batch \o SubSeq(queue, 1, k)
          /\ queue' = SubSeq(queue, IF MeetsStop(k) THEN k + 2 ELSE k + 1, Len(queue))
          /\ stopping' = StopSeen(k)
          /\ IF FlushNeeded(k)
             THEN wpc' = "many" /\ thread' = Append(thread, "many")
             ELSE wpc' = "done" /\ UNCHANGED thread
    /\ UNCHANGED <<accepted, dropped, spc, failed, txn, table, faults>>

\* executemany returned: commit is called next.
Executed ==
    /\ wpc = "many" /\ thread = <<>> /\ ~failed
    /\ wpc' = "commit"
    /\ thread' = Append(thread, "commit")
    /\ UNCHANGED <<queue, accepted, dropped, batch, stopping, spc, failed, txn, table, faults>>

BatchAfterFlush_kept == IF failed THEN batch ELSE <<>>
BatchAfterFlush == <<>>

\* insert_events returned, or raised an Exception that is logged: either way
\* the batch is forgotten and the loop goes on or returns.
Flushed ==
    /\ thread = <<>>
    /\ \/ wpc = "many" /\ failed
       \/ wpc = "commit"
    /\ batch' = BatchAfterFlush
    /\ wpc' = IF stopping THEN "done" ELSE "get"
    /\ UNCHANGED <<queue, accepted, dropped, stopping, spc, db>>

\* The same two steps in the handler of CancelledError, which re-raises.
CancelExecuted ==
    /\ wpc = "cmany" /\ thread = <<>> /\ ~failed
    /\ wpc' = "ccommit"
    /\ thread' = Append(thread, "commit")
    /\ UNCHANGED <<queue, accepted, dropped, batch, stopping, spc, failed, txn, table, faults>>

CancelFlushed ==
    /\ thread = <<>>
    /\ \/ wpc = "cmany" /\ failed
       \/ wpc = "ccommit"
    /\ wpc' = "cancelled"
    /\ UNCHANGED <<queue, accepted, dropped, batch, stopping, spc, db>>

-----------------------------------------------------------------------------
(* shutdown(): called once, by __aexit__.                                   *)

Shutdown ==
    /\ spc = "idle"
    /\ spc' = "put"
    /\ UNCHANGED <<queue, accepted, dropped, writer, db>>

\* `await self._queue.put(None)` waits for room, outside the time limit.
PutStop ==
    /\ spc = "put"
    /\ Len(queue) < QueueMax
    /\ queue' = Append(queue, Stop)
    /\ spc' = "wait"
    /\ UNCHANGED <<accepted, dropped, writer, db>>

\* Only a batch that is being flushed is not empty when the cancellation comes.
CancelHandler_reraise(pc) == "cancelled"
CancelHandler(pc) == IF pc = "get" THEN "cancelled" ELSE "cmany"

\* The time limit expires: wait_for cancels the writer and waits for its end.
\* A writer that awaits the database inserts its batch once more; one that
\* awaits the queue ends, unless its get() is already served, when wait_for
\* returns the item and the cancellation is lost.
Timeout ==
    /\ CanTimeout
    /\ spc = "wait"
    /\ wpc \in {"get", "many", "commit"}
    /\ spc' = "cancel"
    /\ \/ /\ wpc' = CancelHandler(wpc)
          /\ thread' = IF wpc' = "cmany" THEN Append(thread, "many") ELSE thread
       \/ /\ wpc = "get"
          /\ queue # <<>>
          /\ UNCHANGED <<wpc, thread>>
    /\ UNCHANGED <<queue, accepted, dropped, batch, stopping, failed, txn, table, faults>>

Joined ==
    /\ spc \in {"wait", "cancel"}
    /\ wpc \in {"done", "cancelled"}
    /\ spc' = "done"
    /\ UNCHANGED <<queue, accepted, dropped, writer, db>>

-----------------------------------------------------------------------------
(* The connection's thread.  executemany inserts row after row and stops at *)
(* the first that fails, leaving the rows before it in the transaction;     *)
(* SQLite itself rolls the transaction back on some errors (disk full).     *)

ThreadMany ==
    /\ thread # <<>> /\ Head(thread) = "many"
    /\ thread' = Tail(thread)
    /\ \/ /\ txn' = txn \o batch
          /\ failed' = FALSE
          /\ UNCHANGED faults
       \/ /\ faults < MaxFaults
          /\ faults' = faults + 1
          /\ failed' = TRUE
          /\ \/ \E k \in 0..(Len(batch) - 1) : txn' = txn \o SubSeq(batch, 1, k)
             \/ txn' = <<>>
    /\ UNCHANGED <<queue, accepted, dropped, writer, spc, table>>

ThreadCommit ==
    /\ thread # <<>> /\ Head(thread) = "commit"
    /\ thread' = Tail(thread)
    /\ \/ /\ table' = table \o txn
          /\ txn' = <<>>
          /\ failed' = FALSE
          /\ UNCHANGED faults
       \/ /\ faults < MaxFaults
          /\ faults' = faults + 1
          /\ failed' = TRUE
          /\ UNCHANGED table
          /\ txn' \in {txn, <<>>}
    /\ UNCHANGED <<queue, accepted, dropped, writer, spc>>

\* Other users of the connection commit the transaction they share with the
\* writer: the classifier's cache while the proxy runs, end_session() after.
OtherCommit ==
    /\ txn # <<>>
    /\ table' = table \o txn
    /\ txn' = <<>>
    /\ UNCHANGED <<queue, accepted, dropped, writer, spc, thread, failed, faults>>

-----------------------------------------------------------------------------
\* shutdown() returned and the connection is idle: nothing is left to do.
Terminated == spc = "done" /\ txn = <<>> /\ UNCHANGED vars

WriterStep == Get \/ Executed \/ Flushed \/ CancelExecuted \/ CancelFlushed
ThreadStep == ThreadMany \/ ThreadCommit
ShutdownStep == PutStop \/ Joined

Next == Record \/ WriterStep \/ Shutdown \/ ShutdownStep \/ Timeout
        \/ ThreadStep \/ OtherCommit \/ Terminated

\* The event loop resumes every ready task and the thread executes what it is
\* given; nothing makes the proxy stop or the time limit expire.
Fairness == WF_vars(WriterStep) /\ WF_vars(ThreadStep) /\ WF_vars(ShutdownStep)

Spec == Init /\ [][Next]_vars /\ Fairness

-----------------------------------------------------------------------------
(* Properties.                                                              *)

Increasing(s) == \A i, j \in DOMAIN s : i < j => s[i] < s[j]
Elements(s) == {s[i] : i \in DOMAIN s}
Occurrences(e, s) == Cardinality({i \in DOMAIN s : s[i] = e})

Cancelled == wpc \in {"cmany", "ccommit", "cancelled"}

\* Unless the writer was cancelled, the table holds each event at most once
\* and in the order the pumps recorded them, whatever fails: a row that a
\* failed executemany left in the transaction never appears behind, or twice.
RowsInOrder == ~Cancelled => Increasing(table)

\* A cancelled writer may insert the batch it was flushing a second time (the
\* abandoned operation still runs), but no other event and never thrice.
DuplicatesOnlyLastBatch ==
    \A e \in Elements(table) :
        \/ Occurrences(e, table) = 1
        \/ Cancelled /\ Occurrences(e, table) = 2 /\ e \in Elements(batch)

\* When no database operation fails, an accepted event is never lost by the
\* writer: once shutdown() is over it is in the database, or it still sits in
\* the queue of a writer that was cancelled.
InFlight == IF wpc \in {"get", "done", "cancelled"} THEN {} ELSE Elements(batch)

NothingVanishes ==
    faults = 0 => 1..accepted \subseteq
        Elements(table) \cup Elements(txn) \cup InFlight \cup Elements(queue)

\* docs/adr/0001: a hard kill loses about the queue size.  Precisely: the
\* queue, the batch in flight, and a batch per database operation that failed.
KillLosesAtMost ==
    Cardinality((1..accepted) \ Elements(table)) <= QueueMax + BatchSize * (1 + faults)

\* shutdown() always returns, though its put(None) has no time limit.
ShutdownCompletes == spc = "put" ~> spc = "done"

\* Every accepted event reaches the table, unless the database failed or the
\* writer was cancelled: no event waits for a later one to push it out.
EventuallyStored ==
    \A e \in Events :
        e <= accepted ~> (e \in Elements(table) \/ faults > 0 \/ Cancelled)

\* docs/adr/0001: "On normal shutdown we drain."  Does not hold when the time
\* limit expires: what is still queued then is lost without being counted.
NormalShutdownDrains ==
    spc = "done" /\ faults = 0 => 1..accepted \subseteq Elements(table) \cup Elements(txn)

-----------------------------------------------------------------------------
(* The writer implements AuditLog.  Pending are the rows of the open        *)
(* transaction, the batch whose executemany has not run, and the queue.     *)

Unexecuted == IF wpc = "many" /\ thread # <<>> THEN batch ELSE <<>>
\* Nothing is recorded behind the Stop.
WithoutStop(q) == IF q # <<>> /\ q[Len(q)] = Stop THEN SubSeq(q, 1, Len(q) - 1) ELSE q
Pending == txn \o Unexecuted \o WithoutStop(queue)

Log == INSTANCE AuditLog WITH
           MaxPending <- QueueMax + BatchSize * (1 + MaxFaults),
           MaxLosses <- MaxFaults,
           pending <- Pending, stored <- table,
           next <- accepted + 1, losses <- faults

\* Without the time limit (CanTimeout = FALSE), EventBuffer is a first-in first-out log
\* that loses at most a run of events per failed database operation.
LogSpec == Log!Spec
=============================================================================
