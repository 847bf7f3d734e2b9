------------------------------ MODULE Session ------------------------------
(***************************************************************************)
(* One session of run_proxy between the start of the pumps and the end of   *)
(* the audit-log writer: Relay and EventBuffer composed.  A row the relay   *)
(* logs is a call of record(); run_proxy leaves the buffer's `async with`   *)
(* when the pumps are over and the server has been reaped.                  *)
(*                                                                          *)
(* Pumps, run_proxy and the writer are tasks of one event loop: the rows of *)
(* a frame are all recorded before any of them takes another step.  The     *)
(* connection's thread runs beside the loop.                                *)
(***************************************************************************)
EXTENDS Integers, Sequences, FiniteSets

CONSTANTS Frames, MaxFrames, Allowlist, Detector, CanAbort,          \* see Relay
          QueueMax, BatchSize, MaxEvents, MaxFaults, CanTimeout      \* see EventBuffer

VARIABLES read, pc, job, written, closing, lock, log, stop, main,    \* see Relay
          queue, accepted, dropped, batch, stopping, wpc, spc,
          thread, failed, txn, table, faults,                        \* see EventBuffer
          rowOf     \* history: rowOf[e] is the place in `log` of the row of event e

R == INSTANCE Relay
B == INSTANCE EventBuffer

relay  == <<read, pc, job, written, closing, lock, log, stop, main>>
buffer == <<queue, accepted, dropped, batch, stopping, wpc, spc,
            thread, failed, txn, table, faults>>
vars   == <<relay, buffer, rowOf>>

\* What Relay and EventBuffer assume.
ASSUME SessionAssumption ==
    /\ DOMAIN Frames = R!Dirs /\ \A d \in R!Dirs : Frames[d] \subseteq R!Line
    /\ MaxFrames \in [R!Dirs -> Nat]
    /\ {Allowlist, Detector, CanAbort} \subseteq BOOLEAN
    /\ QueueMax \in Nat \ {0} /\ BatchSize \in Nat \ {0}
    /\ MaxEvents \in Nat /\ MaxFaults \in Nat /\ CanTimeout \in BOOLEAN

Init == R!Init /\ B!Init /\ rowOf = <<>>

-----------------------------------------------------------------------------

\* Rows of the frame in hand that record() has not been called for.
Owed == Len(log) - (accepted + dropped)
LoopFree == Owed = 0

\* The next of them: put in the queue, or dropped.
Record ==
    /\ Owed > 0
    /\ B!Record
    /\ rowOf' = IF accepted' > accepted THEN Append(rowOf, accepted + dropped + 1) ELSE rowOf
    /\ UNCHANGED relay

RelayStep ==
    /\ LoopFree
    /\ \/ \E d \in R!Dirs : R!Pump(d)
       \/ R!Main \/ R!ServerLets \/ R!Signal
    /\ UNCHANGED <<buffer, rowOf>>

\* The writer and shutdown(), in the event loop.
BufferStep ==
    /\ LoopFree
    /\ B!WriterStep \/ B!ShutdownStep \/ B!Timeout
    /\ UNCHANGED <<relay, rowOf>>

ThreadStep ==
    /\ B!ThreadStep \/ B!OtherCommit
    /\ UNCHANGED <<relay, rowOf>>

\* run_proxy has gathered both pumps and reaped the server.
Gathered_signalled == stop \/ main # "wait"
Gathered == main = "over" /\ \A d \in R!Dirs : pc[d] = "done"

\* `async with EventBuffer(...)` is left.  The side-cars stop before that, each
\* within its time limit (see Lifecycle).
LeaveBuffer ==
    /\ LoopFree /\ Gathered
    /\ B!Shutdown
    /\ UNCHANGED <<relay, rowOf>>

Terminated == LoopFree /\ B!Terminated /\ UNCHANGED <<relay, rowOf>>

Next == Record \/ RelayStep \/ BufferStep \/ ThreadStep \/ LeaveBuffer \/ Terminated

\* The server takes in the end what is buffered for its stdin, or breaks the
\* pipe: an assumption about the server, without which run_proxy may wait in
\* aclose() for ever (Lifecycle!SignalEscalates).
ServerTakesInput == WF_vars(LoopFree /\ R!ServerLets /\ UNCHANGED <<buffer, rowOf>>)

\* The loop resumes every ready task, run_proxy's time limits expire, and the
\* thread executes what it is given; no pump has to take a step, nor the client.
Fairness ==
    /\ WF_vars(Record) /\ WF_vars(LeaveBuffer) /\ WF_vars(BufferStep)
    /\ WF_vars(LoopFree /\ R!Main /\ UNCHANGED <<buffer, rowOf>>)
    /\ WF_vars(B!ThreadStep /\ UNCHANGED <<relay, rowOf>>)
    /\ ServerTakesInput

Spec == Init /\ [][Next]_vars /\ Fairness

-----------------------------------------------------------------------------
(* Properties.                                                              *)

\* What a reader of the `events` table finds, as rows of the relay.
Stored == table \o txn
StoredRow(k) == log[rowOf[Stored[k]]]

\* The members of the lines the pumps were through with.
HandledMembers ==
    UNION {UNION {{<<d, n, i>> : i \in DOMAIN read[d][n].members} : n \in R!Handled(d)} :
             d \in R!Dirs}

\* Those of them that no row of the events in s names.
RowName(k) == <<log[k].dir, log[k].line, log[k].member>>
Unnamed(s) == HandledMembers \ {RowName(rowOf[s[k]]) : k \in DOMAIN s}

\* The audit trail of a session that is over, when the database did not fail
\* and the writer was not cancelled: the table lacks as many of the relay's
\* rows as `dropped` says, holds the others in the order of recording, names
\* all but `dropped` of the messages that were handled, and lists what the
\* client got in the order it got it.
AuditTrail ==
    spc = "done" /\ faults = 0 /\ ~B!Cancelled =>
        /\ Len(Stored) = Len(log) - dropped
        /\ \A j, k \in DOMAIN Stored : j < k => rowOf[Stored[j]] < rowOf[Stored[k]]
        /\ Cardinality(Unnamed(Stored)) <= dropped
        /\ \A j, k \in DOMAIN Stored : \A a, b \in DOMAIN written["client"] :
              /\ StoredRow(j).dir = written["client"][a].dir
              /\ StoredRow(j).line = written["client"][a].line
              /\ StoredRow(k).dir = written["client"][b].dir
              /\ StoredRow(k).line = written["client"][b].line
              /\ StoredRow(j).member > 0 /\ StoredRow(k).member > 0
              => (a < b => j < k)

\* Whenever the proxy is killed, the table names all the messages that were handled
\* but the dropped ones, the rows that are still to be recorded, and what the
\* writer may lose; whatever the database and the time limit did before.
KillCostsAtMost ==
    Cardinality(Unnamed(table)) <= Owed + dropped + QueueMax + BatchSize * (1 + faults)

\* A row that says BLOCK is true, in whatever table a kill, a failure of the database
\* or the time limit leaves: its message was not handed over, and is not later.
StoredBlocksHold ==
    \A k \in DOMAIN Stored : StoredRow(k).verdict = "BLOCK" =>
        \A a \in DOMAIN written[R!Dst(StoredRow(k).dir)] :
            LET w == written[R!Dst(StoredRow(k).dir)][a] IN
                w.dir = StoredRow(k).dir /\ w.line = StoredRow(k).line
                => \A i \in DOMAIN w.text.parts :
                       i = StoredRow(k).member => w.text.parts[i] # "verbatim"

\* Once a side has ended or a signal came, the session comes to its end: both
\* pumps are over, and the audit writer has been shut down behind them, even
\* when the client neither reads nor writes, the server writes nothing and the
\* database fails; all that is asked of a peer is ServerTakesInput.
SessionEnds == R!Ending ~> (Gathered /\ spc = "done")

\* Driven by the relay, and without the time limit, the writer implements
\* AuditLog.
LogSpec == B!LogSpec
=============================================================================
