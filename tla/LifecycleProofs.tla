--------------------------- MODULE LifecycleProofs ---------------------------
(***************************************************************************)
(* Proofs about Lifecycle: whatever the server does, whichever signal comes *)
(* and whatever raises, run_proxy ends clean, records nothing behind the    *)
(* shutdown of the buffer, loses no reply in an orderly end, and signals    *)
(* the server only behind the end of its input.  All of it follows from     *)
(* what holds at each place run_proxy can be, which is the invariant.       *)
(***************************************************************************)
EXTENDS Lifecycle, TLAPS

Starting == {"open", "session", "spawn", "pid", "build", "side", "pumps"}
Waiting  == {"wait", "closing", "drain", "reap"}
Reaping  == {"closing2", "exit", "term", "kill"}
Leaving  == {"health", "handlers", "telemetry", "clients", "shut", "end", "close", "over"}

\* How far each resource is, by the place of run_proxy.
StorageInv ==
    /\ main = "open" => storage = "none"
    /\ main \notin {"open", "over"} => storage = "open"
    /\ main = "over" => storage # "open"
    /\ main = "over" /\ storage # "closed" => error /\ session = "none" /\ child = "none"

BufferInv ==
    /\ main \in {"open", "session", "spawn", "pid"} => buffer = "none"
    /\ main \in {"build", "side", "pumps"} \cup Waiting \cup Reaping => buffer = "open"
    /\ main \in {"health", "handlers", "telemetry", "clients", "shut"} => buffer = "open"
    /\ main \in {"end", "close", "over"} => buffer # "open"

SidecarsInv ==
    /\ main \in Starting \ {"pumps"} => sidecars = {}
    /\ main \in {"handlers", "telemetry"} => "health" \notin sidecars
    /\ main = "telemetry" /\ joins => "handler" \notin sidecars
    /\ main \in Leaving \ {"health", "handlers", "telemetry"} /\ s2c # "idle"
          => sidecars \subseteq MayOutlive

SessionInv ==
    /\ session = "ended" => main \in {"close", "over"} /\ buffer = "shut" /\ child = "exited"
    /\ main = "end" => ~error /\ buffer = "shut"
    /\ main \in {"close", "over"} /\ ~error => session = "ended"

\* The child is started once, and run_proxy leaves without an exception only
\* behind its end.
ChildInv ==
    /\ main \in {"open", "session"} => session = "none"
    /\ main \in {"open", "session", "spawn"} => child = "none"
    /\ main \in Leaving /\ ~error => child = "exited"

\* The pumps are awaited on every way out.
PumpsInv ==
    /\ main \in Starting => c2s = "idle" /\ s2c = "idle"
    /\ main \in Waiting => c2s # "idle" /\ s2c # "idle"
    /\ main \in {"closing", "drain"} => c2s = "done"
    /\ main \in Reaping => Ended(c2s) /\ Ended(s2c)
    /\ main \in Leaving => Quiet(c2s) /\ Quiet(s2c)

\* A pump that was not hurried ended because there was nothing more to read.
RepliesInv ==
    /\ s2c = "cancelled" => hurried
    /\ Ended(s2c) /\ ~hurried => unsent = 0 /\ stdout = "closed"

\* The time limits of the child run only behind the end of its input.
SignalInv ==
    /\ main \in Starting \cup Waiting \cup {"closing2", "exit"} => asked = "none"
    /\ main \in {"exit", "term", "kill"} \/ asked # "none" => StdinClosed

IInv ==
    /\ TypeOK
    /\ StorageInv /\ BufferInv /\ SidecarsInv /\ SessionInv
    /\ ChildInv /\ PumpsInv /\ RepliesInv /\ SignalInv
-----------------------------------------------------------------------------
(* The invariant is inductive: the server, the pumps, and run_proxy.        *)

LEMMA InitHolds == Init => IInv
<1>1. SUFFICES ASSUME Init PROVE IInv
  OBVIOUS
<1>2. TypeOK
  <2>1. {stop, hurried, error} \subseteq BOOLEAN
    BY <1>1 DEF Init
  <2>2. QED BY <1>1, <2>1, LifecycleAssumption DEF Init, TypeOK
<1>3. StorageInv /\ BufferInv /\ SidecarsInv /\ SessionInv /\ ChildInv
  BY <1>1 DEF Init, StorageInv, BufferInv, SidecarsInv, SessionInv, ChildInv,
              Starting, Waiting, Reaping, Leaving
<1>4. PumpsInv /\ RepliesInv /\ SignalInv
  BY <1>1 DEF Init, PumpsInv, RepliesInv, SignalInv, Starting, Waiting, Reaping, Leaving, Ended
<1>5. QED BY <1>2, <1>3, <1>4 DEF IInv

LEMMA EnvironmentKeeps == IInv /\ Environment => IInv'
<1> USE LifecycleAssumption
    DEF IInv, TypeOK, StorageInv, BufferInv, SidecarsInv, SessionInv, ChildInv, PumpsInv,
        RepliesInv, SignalInv, Starting, Waiting, Reaping, Leaving, Quiet, Ended, StdinClosed, Buffered,
        MayOutlive,
        pumps, tables
<1>1. IInv /\ ServerRead => IInv'
  BY DEF ServerRead
<1>2. IInv /\ ServerWrite => IInv'
  BY DEF ServerWrite
<1>3. IInv /\ ServerCloseStdout => IInv'
  BY DEF ServerCloseStdout
<1>4. IInv /\ ServerExit => IInv'
  BY DEF ServerExit
<1>5. IInv /\ Signal => IInv'
  BY DEF Signal, server
<1>6. IInv /\ HandlerBegins => IInv'
  BY DEF HandlerBegins, server
<1>7. IInv /\ HandlerEnds => IInv'
  BY DEF HandlerEnds, server
<1>8. QED BY <1>1, <1>2, <1>3, <1>4, <1>5, <1>6, <1>7 DEF Environment

\* The pumps move nothing that run_proxy has put in order but themselves.
LEMMA PumpsKeep == IInv /\ Pumps => IInv'
<1> USE LifecycleAssumption
    DEF IInv, TypeOK, StorageInv, BufferInv, SidecarsInv, SessionInv, ChildInv, PumpsInv,
        RepliesInv, SignalInv, Starting, Waiting, Reaping, Leaving, Quiet, Ended, StdinClosed, Buffered,
        MayOutlive,
        pumps, server, tables
<1>1. IInv /\ ClientLine => IInv'
  BY DEF ClientLine, Writable
<1>2. IInv /\ C2sEnds => IInv'
  BY DEF C2sEnds
<1>3. IInv /\ Forward => IInv'
  BY DEF Forward
<1>4. IInv /\ ServerEof => IInv'
  BY DEF ServerEof
<1>5. IInv /\ S2cBreaksOff => IInv'
  BY DEF S2cBreaksOff
<1>6. IInv /\ S2cCancelled => IInv'
  BY DEF S2cCancelled
<1>7. QED BY <1>1, <1>2, <1>3, <1>4, <1>5, <1>6 DEF Pumps

LEMMA StartKeeps == IInv /\ Start => IInv'
<1> USE LifecycleAssumption
    DEF IInv, TypeOK, StorageInv, BufferInv, SidecarsInv, SessionInv, ChildInv, PumpsInv,
        RepliesInv, SignalInv, Starting, Waiting, Reaping, Leaving, Quiet, Ended, StdinClosed, Buffered,
        MayOutlive,
        pumps
<1>1. SUFFICES ASSUME IInv, Start PROVE IInv'
  OBVIOUS
<1>2. error' \in BOOLEAN
  BY <1>1 DEF Start, Raises
<1>3. CASE main = "open"
  BY <1>1, <1>2, <1>3 DEF Start
<1>4. CASE main = "session"
  BY <1>1, <1>2, <1>4, ZenonT(30) DEF Start, Raises, Unwind
<1>5. CASE main = "spawn"
  BY <1>1, <1>2, <1>5, ZenonT(30) DEF Start, Raises, Unwind
<1>6. CASE main = "pid"
  BY <1>1, <1>2, <1>6, ZenonT(30) DEF Start, Raises, Unwind
<1>7. CASE main = "build"
  BY <1>1, <1>2, <1>7, ZenonT(30) DEF Start, Raises, Unwind
<1>8. CASE main = "side"
  <2>1. CASE main' = "pumps" /\ sidecars' \in SUBSET {"health", "telemetry"} /\ UNCHANGED error
    BY <1>1, <1>2, <1>8, <2>1 DEF Start
  <2>2. CASE Raises /\ sidecars' \in SUBSET {"telemetry"}
    <3>1. main' = "shut" /\ error'
      BY <1>1, <1>8, <2>2 DEF Raises, Unwind
    <3>2. UNCHANGED <<pumps, child, session, buffer, storage, stop, stdin, asked, hurried,
                      unread, stdout, replies, unsent, joins>>
      BY <1>1, <1>8 DEF Start
    <3>3. sidecars' \subseteq {"telemetry"}
      BY <2>2
    <3>4. QED BY <1>1, <1>2, <1>8, <3>1, <3>2, <3>3
  <2>3. QED BY <1>1, <1>8, <2>1, <2>2 DEF Start
<1>9. CASE main = "pumps"
  BY <1>1, <1>2, <1>9, ZenonT(30) DEF Start
<1>10. QED BY <1>1, <1>3, <1>4, <1>5, <1>6, <1>7, <1>8, <1>9 DEF Start

\* From the wait for the pumps to the end of the child.
LEMMA ReapKeeps ==
    IInv /\ (\/ Stopped \/ ClientEnded \/ ServerEnded \/ Aclosed \/ DrainReturned
             \/ DrainTimeout \/ Reap \/ ChildExited \/ ChildTimeout) => IInv'
<1> USE LifecycleAssumption
    DEF IInv, TypeOK, StorageInv, BufferInv, SidecarsInv, SessionInv, ChildInv, PumpsInv,
        RepliesInv, SignalInv, Starting, Waiting, Reaping, Leaving, Quiet, Ended, StdinClosed, Buffered,
        MayOutlive,
        pumps, server, tables
<1>1. ASSUME IInv, Stopped PROVE IInv'
  <2>1. hurried' \in BOOLEAN /\ (s2c = "run" \/ hurried => hurried')
    BY <1>1 DEF Stopped
  <2>2. QED BY <1>1, <2>1 DEF Stopped, Cancelled
<1>2. IInv /\ ClientEnded => IInv'
  BY DEF ClientEnded, AfterClientEof
<1>3. IInv /\ ServerEnded => IInv'
  BY DEF ServerEnded, C2sAfterServerEof, Cancelled
<1>4. IInv /\ Aclosed => IInv'
  BY DEF Aclosed
<1>5. ASSUME IInv, DrainReturned PROVE IInv'
  <2>1. error' \in BOOLEAN
    BY <1>1, <1>5 DEF DrainReturned
  <2>2. CASE s2c = "failed"
    BY <1>5, <2>1, <2>2, ZenonT(30) DEF DrainReturned
  <2>3. CASE s2c # "failed"
    BY <1>5, <2>1, <2>3 DEF DrainReturned
  <2>4. QED BY <2>2, <2>3
<1>6. IInv /\ DrainTimeout => IInv'
  BY DEF DrainTimeout
<1>7. IInv /\ Reap => IInv'
  BY DEF Reap, PumpsAwaited, AfterReap
<1>8. IInv /\ ChildExited => IInv'
  BY DEF ChildExited
<1>9. IInv /\ ChildTimeout => IInv'
  BY DEF ChildTimeout, AfterTerminate
<1>10. QED BY <1>1, <1>2, <1>3, <1>4, <1>5, <1>6, <1>7, <1>8, <1>9

\* From the end of the child to the end of run_proxy.
LEMMA LeaveKeeps ==
    IInv /\ (StopSidecar \/ CloseClients \/ Cleanup \/ EndSession \/ Close) => IInv'
<1> USE LifecycleAssumption
    DEF IInv, TypeOK, StorageInv, BufferInv, SidecarsInv, SessionInv, ChildInv, PumpsInv,
        RepliesInv, SignalInv, Starting, Waiting, Reaping, Leaving, Quiet, Ended, StdinClosed, Buffered,
        MayOutlive,
        pumps, server, tables
<1>1. IInv /\ StopSidecar => IInv'
  BY DEF StopSidecar, Stops
<1>2. ASSUME IInv, CloseClients PROVE IInv'
  <2>1. error' \in BOOLEAN /\ (error => error')
    BY <1>2 DEF CloseClients
  <2>2. QED BY <1>2, <2>1 DEF CloseClients
<1>3. IInv /\ Cleanup => IInv'
  BY DEF Cleanup
<1>4. ASSUME IInv, EndSession PROVE IInv'
  <2>1. error' \in BOOLEAN /\ (error' = error \/ error')
    BY <1>4 DEF EndSession
  <2>2. QED BY <1>4, <2>1 DEF EndSession
<1>5. IInv /\ Close => IInv'
  BY DEF Close
<1>6. QED BY <1>1, <1>2, <1>3, <1>4, <1>5

LEMMA StutterKeeps == IInv /\ UNCHANGED vars => IInv'
BY DEF IInv, TypeOK, StorageInv, BufferInv, SidecarsInv, SessionInv, ChildInv, PumpsInv,
       RepliesInv, SignalInv, Starting, Waiting, Reaping, Leaving, Quiet, Ended, StdinClosed, Buffered,
        MayOutlive,
       vars, pumps, server, tables

-----------------------------------------------------------------------------
(* The theorems.                                                            *)

LEMMA Invariance == Spec => []IInv
<1>1. Init => IInv
  BY InitHolds
<1>2. IInv /\ [Next]_vars => IInv'
  <2>1. IInv /\ Main => IInv'
    BY StartKeeps, ReapKeeps, LeaveKeeps DEF Main
  <2>2. IInv /\ Over => IInv'
    BY StutterKeeps DEF Over
  <2>3. QED BY <2>1, <2>2, EnvironmentKeeps, PumpsKeep, StutterKeeps DEF Next
<1>3. QED BY <1>1, <1>2, PTL DEF Spec

\* However the session started, was interrupted and ended: when run_proxy has
\* returned, the buffer is shut, the database is closed unless open() itself
\* raised, the side-cars it started next to the pumps are gone but for a handler
\* that wait_closed() does not wait for, and without an exception the server has
\* exited and the exit code is recorded.
THEOREM EndsClean == Spec => []ReturnsClean
<1>1. IInv => ReturnsClean
  BY DEF IInv, ReturnsClean, StorageInv, BufferInv, SidecarsInv, SessionInv, ChildInv, Leaving
<1>2. QED BY <1>1, Invariance, PTL

\* Nobody records an event behind the shutdown of the buffer or writes the exit
\* code before there is one; and if the pumps were started, only such a handler
\* may meet the connection closed.
THEOREM ShutdownOrdered == Spec => []NoRecordAfterShutdown
<1>1. IInv => NoRecordAfterShutdown
  <2>1. SUFFICES ASSUME IInv PROVE NoRecordAfterShutdown
    OBVIOUS
  <2>2. buffer = "shut" => Quiet(c2s) /\ Quiet(s2c)
    BY <2>1 DEF IInv, TypeOK, BufferInv, PumpsInv, Starting, Waiting, Reaping, Leaving
  <2>3. session = "ended" => buffer = "shut" /\ child = "exited"
    BY <2>1 DEF IInv, SessionInv
  <2>4. storage = "closed" => main = "over"
    BY <2>1 DEF IInv, StorageInv
  <2>5. main = "over" => buffer # "open" /\ (s2c # "idle" => sidecars \subseteq MayOutlive)
    BY <2>1 DEF IInv, BufferInv, SidecarsInv, Leaving
  <2>6. QED BY <2>2, <2>3, <2>4, <2>5 DEF NoRecordAfterShutdown
<1>2. QED BY <1>1, Invariance, PTL

\* In an orderly end everything the server had written reaches the client.
THEOREM RepliesForwarded == Spec => []NoReplyLost
<1>1. IInv => NoReplyLost
  BY DEF IInv, NoReplyLost, RepliesInv, PumpsInv, Quiet, Leaving
<1>2. QED BY <1>1, Invariance, PTL

\* No signal while lines for the server are still in the proxy: what the client
\* sent is in its pipe, and the end of its input behind it.
THEOREM EofBeforeSignal == Spec => []SignalOnlyAfterEof
<1>1. IInv => SignalOnlyAfterEof
  BY DEF IInv, SignalOnlyAfterEof, SignalInv, StdinClosed
<1>2. QED BY <1>1, Invariance, PTL
=============================================================================
