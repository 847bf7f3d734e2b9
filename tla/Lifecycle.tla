----------------------------- MODULE Lifecycle -----------------------------
(***************************************************************************)
(* The life of a session: run_proxy of proxy.py, from the opening of the    *)
(* database over the start of the server, the wait for the pumps, the time  *)
(* limits and the signal handler to the clean-up.  Pumps are reduced to     *)
(* what run_proxy sees of them; Relay has their insides.                    *)
(*                                                                          *)
(* The server is any program: it may stop reading, ignore the end of its    *)
(* input or SIGTERM, close its output and live on, or exit at any time.     *)
(***************************************************************************)
EXTENDS Integers

CONSTANTS PipeSize,     \* lines the operating system's pipe to the server takes
          HighWater,    \* buffered lines at which the c2s pump waits in drain()
          MaxReplies,   \* bound: lines the server writes
          ServerReads,  \* whether the server keeps reading its stdin
          CanFail       \* whether what run_proxy calls, or the s2c pump, may raise

ASSUME LifecycleAssumption ==
    /\ PipeSize \in Nat /\ HighWater \in Nat \ {0}
    /\ MaxReplies \in Nat
    /\ {ServerReads, CanFail} \subseteq BOOLEAN

VARIABLES main,     \* what run_proxy awaits
          stop,     \* stop_event
          c2s, s2c, \* the pumps: "idle" (not started), "run", "cancelled" (not ended
                    \* yet), "done", "failed" (raised)
          unread,   \* lines in the server's stdin: in the pipe, or buffered for it
          stdin,    \* server_writer: "open", or "closed" (close() was called)
          child,    \* the server's process: "none", "alive" or "exited"
          stdout,   \* the server's end of its stdout
          replies,  \* lines the server wrote so far
          unsent,   \* lines the server wrote that s2c has not forwarded
          asked,    \* signal sent to the child
          hurried,  \* s2c was cut off: a time limit, a signal, or the client left
          error,    \* run_proxy is leaving with an exception
          session,  \* its row: "none", "open", or "ended" with the exit code
          buffer,   \* the EventBuffer: "none", "open" or "shut"
          storage,  \* the database connection: "none", "open", "closed", or "leaked" by
                    \* an open() that failed
          sidecars, \* what runs beside the pumps and uses storage: "health" (the endpoint
                    \* listens), "handler" (a request is being answered), "telemetry"
          joins     \* whether wait_closed() of the endpoint waits for its handlers: it
                    \* does from Python 3.12 on, in 3.11 it returns at once

pumps  == <<c2s, s2c>>
server == <<unread, child, stdout, replies, unsent>>
tables == <<session, buffer, storage, sidecars, joins>>
vars   == <<main, stop, pumps, server, stdin, asked, hurried, error, tables>>

TypeOK ==
    /\ main \in {"open", "session", "spawn", "pid", "build", "side", "pumps", "wait",
                 "closing", "drain", "reap", "closing2", "exit", "term", "kill",
                 "health", "handlers", "telemetry", "clients", "shut", "end", "close", "over"}
    /\ {stop, hurried, error, joins} \subseteq BOOLEAN
    /\ c2s \in {"idle", "run", "cancelled", "done"}
    /\ s2c \in {"idle", "run", "cancelled", "done", "failed"}
    /\ unread \in 0..(PipeSize + HighWater)
    /\ stdin \in {"open", "closed"} /\ stdout \in {"open", "closed"}
    /\ child \in {"none", "alive", "exited"}
    /\ replies \in 0..MaxReplies /\ unsent \in 0..replies
    /\ asked \in {"none", "term", "kill"}
    /\ session \in {"none", "open", "ended"} /\ buffer \in {"none", "open", "shut"}
    /\ storage \in {"none", "open", "closed", "leaked"}
    /\ sidecars \subseteq {"health", "handler", "telemetry"}

Init ==
    /\ main = "open" /\ stop = FALSE /\ c2s = "idle" /\ s2c = "idle"
    /\ unread = 0 /\ stdin = "open" /\ child = "none" /\ stdout = "open"
    /\ replies = 0 /\ unsent = 0 /\ asked = "none" /\ hurried = FALSE /\ error = FALSE
    /\ session = "none" /\ buffer = "none" /\ storage = "none" /\ sidecars = {}
    /\ joins \in BOOLEAN

-----------------------------------------------------------------------------
(* The server's process.                                                    *)

ServerRead ==
    /\ child = "alive" /\ unread > 0
    /\ unread' = unread - 1
    /\ UNCHANGED <<main, stop, pumps, child, stdout, replies, unsent, stdin, asked, hurried, error, tables>>

ServerWrite ==
    /\ child = "alive" /\ stdout = "open" /\ replies < MaxReplies
    /\ replies' = replies + 1
    /\ unsent' = unsent + 1
    /\ UNCHANGED <<main, stop, pumps, unread, child, stdout, stdin, asked, hurried, error, tables>>

ServerCloseStdout ==
    /\ child = "alive" /\ stdout = "open"
    /\ stdout' = "closed"
    /\ UNCHANGED <<main, stop, pumps, unread, child, replies, unsent, stdin, asked, hurried, error, tables>>

ServerExit ==
    /\ child = "alive"
    /\ child' = "exited"
    /\ stdout' = "closed"
    /\ UNCHANGED <<main, stop, pumps, unread, replies, unsent, stdin, asked, hurried, error, tables>>

\* SIGKILL is the one thing it cannot ignore.
KilledExit == asked = "kill" /\ ServerExit

-----------------------------------------------------------------------------
(* The pumps.  Either closes its destination when it ends.                  *)

\* What asyncio still holds of it, once the pipe is full.
Buffered == IF unread > PipeSize THEN unread - PipeSize ELSE 0

\* drain() returns: the pipe took enough of what was written.
Writable_always == TRUE
Writable == Buffered < HighWater

ClientLine ==
    /\ c2s = "run" /\ Writable
    /\ unread' = unread + 1
    /\ UNCHANGED <<main, stop, pumps, child, stdout, replies, unsent, stdin, asked, hurried, error, tables>>

\* EOF from the client, or the stop event at the loop head, when the pump does
\* not wait in drain(); a failed write; the end of a cancelled pump.
C2sEnds ==
    /\ \/ c2s = "run" /\ (Writable \/ child = "exited")
       \/ c2s = "cancelled"
    /\ c2s' = "done"
    /\ stdin' = "closed"
    /\ UNCHANGED <<main, stop, s2c, server, asked, hurried, error, tables>>

Forward ==
    /\ s2c = "run" /\ unsent > 0
    /\ unsent' = unsent - 1
    /\ UNCHANGED <<main, stop, pumps, unread, child, stdout, replies, stdin, asked, hurried, error, tables>>

ServerEof ==
    /\ s2c = "run" /\ unsent = 0 /\ stdout = "closed"
    /\ s2c' = "done"
    /\ UNCHANGED <<main, stop, c2s, server, stdin, asked, hurried, error, tables>>

\* The client does not take the line, the loop head sees the stop event, or
\* the pump raises.
S2cBreaksOff ==
    /\ s2c = "run"
    /\ s2c' \in {"done"} \cup (IF CanFail THEN {"failed"} ELSE {})
    /\ hurried' = TRUE
    /\ UNCHANGED <<main, stop, c2s, server, stdin, asked, error, tables>>

S2cCancelled ==
    /\ s2c = "cancelled"
    /\ s2c' = "done"
    /\ UNCHANGED <<main, stop, c2s, server, stdin, asked, hurried, error, tables>>

\* The handlers are installed after the buffer is entered.  A signal before
\* that ends the process and is not modelled.
Signal ==
    /\ ~stop /\ buffer # "none" /\ main # "over"
    /\ stop' = TRUE
    /\ UNCHANGED <<main, pumps, server, stdin, asked, hurried, error, tables>>

-----------------------------------------------------------------------------
(* run_proxy: the start.  Each step awaits something that may raise.        *)

\* What is already there is left in the order of the enclosing blocks: the
\* buffer's `async with` if it was entered, then the outer `finally`.
Unwind == IF buffer = "open" THEN "shut" ELSE "close"
Raises == CanFail /\ error' = TRUE /\ main' = Unwind

Start ==
    /\ UNCHANGED <<stop, stdin, asked, hurried, unread, stdout, replies, unsent, joins>>
    /\ \/ /\ main = "open"      \* outside the outer `try`; open() closes the connection
                               \* again only when its migrations fail
          /\ \/ main' = "session" /\ storage' = "open" /\ UNCHANGED error
             \/ CanFail /\ main' = "over" /\ error' = TRUE /\ storage' \in {"none", "leaked"}
          /\ UNCHANGED <<pumps, child, session, buffer, sidecars>>
       \/ /\ main = "session"
          /\ \/ main' = "spawn" /\ session' = "open" /\ UNCHANGED error
             \/ Raises /\ UNCHANGED session
          /\ UNCHANGED <<pumps, child, buffer, storage, sidecars>>
       \/ /\ main = "spawn"
          /\ \/ main' = "pid" /\ child' = "alive" /\ UNCHANGED error
             \/ Raises /\ UNCHANGED child
          /\ UNCHANGED <<pumps, session, buffer, storage, sidecars>>
       \/ /\ main = "pid"       \* set_server_pid, the client's reader and writer
          /\ \/ main' = "build" /\ buffer' = "open" /\ UNCHANGED error
             \/ Raises /\ UNCHANGED buffer
          /\ UNCHANGED <<pumps, child, session, storage, sidecars>>
       \/ /\ main = "build"     \* _build_inspector reads the rules and the policy
          /\ \/ main' = "side" /\ UNCHANGED error
             \/ Raises
          /\ UNCHANGED <<pumps, child, session, buffer, storage, sidecars>>
       \/ /\ main = "side"      \* an OSError (port in use) only disables the endpoint; any
                               \* other (port out of range) leaves the telemetry task
          /\ \/ /\ main' = "pumps" /\ sidecars' \in SUBSET {"health", "telemetry"}
                /\ UNCHANGED error
             \/ Raises /\ sidecars' \in SUBSET {"telemetry"}
          /\ UNCHANGED <<pumps, child, session, buffer, storage>>
       \/ /\ main = "pumps"
          /\ c2s' = "run" /\ s2c' = "run"
          /\ main' = "wait"
          /\ UNCHANGED <<child, session, buffer, storage, sidecars, error>>

-----------------------------------------------------------------------------
(* run_proxy, from asyncio.wait(FIRST_COMPLETED) on.                        *)

Ended(pump) == pump \in {"done", "failed"}

Cancelled(pump) == IF pump = "run" THEN "cancelled" ELSE pump

\* Forced shutdown cancels both pumps.
Stopped ==
    /\ main = "wait" /\ stop
    /\ c2s' = Cancelled(c2s) /\ s2c' = Cancelled(s2c)
    /\ hurried' = (hurried \/ s2c = "run")
    /\ main' = "reap"
    /\ UNCHANGED <<stop, server, stdin, asked, error, tables>>

AfterClientEof_cancel == "reap"
AfterClientEof == "closing"

\* Client EOF: the server gets EOF and may still answer.
ClientEnded ==
    /\ main = "wait" /\ ~stop /\ c2s = "done" /\ s2c = "run"
    /\ main' = AfterClientEof
    /\ s2c' = IF main' = "reap" THEN Cancelled(s2c) ELSE s2c
    /\ UNCHANGED <<stop, c2s, server, stdin, asked, hurried, error, tables>>

\* Server EOF: reading from the client stops.
C2sAfterServerEof_left == c2s
C2sAfterServerEof == Cancelled(c2s)

ServerEnded ==
    /\ main = "wait" /\ ~stop /\ s2c # "run"
    /\ c2s' = C2sAfterServerEof
    /\ main' = "reap"
    /\ UNCHANGED <<stop, s2c, server, stdin, asked, hurried, error, tables>>

\* wait_closed() returns when the pipe took the buffer, or broke; what is in the
\* pipe the server may not have read.
StdinClosed == stdin = "closed" /\ (Buffered = 0 \/ child = "exited")

Aclosed ==
    /\ StdinClosed
    /\ \/ main = "closing" /\ main' = "drain"
       \/ main = "closing2" /\ main' = "exit"
    /\ UNCHANGED <<stop, pumps, server, stdin, asked, hurried, error, tables>>

\* wait_for(server_to_client, 10 s): only its TimeoutError is caught.
DrainReturned ==
    /\ main = "drain" /\ Ended(s2c)
    /\ main' = IF s2c = "failed" THEN "health" ELSE "reap"
    /\ error' = (s2c = "failed")
    /\ UNCHANGED <<stop, pumps, server, stdin, asked, hurried, tables>>

DrainTimeout ==
    /\ main = "drain" /\ s2c = "run"
    /\ s2c' = "cancelled" /\ hurried' = TRUE
    /\ main' = "reap"
    /\ UNCHANGED <<stop, c2s, server, stdin, asked, error, tables>>

\* Both pumps are awaited, whoever cancelled them.
PumpsAwaited_cancelOnly == TRUE
PumpsAwaited == Ended(c2s) /\ Ended(s2c)

\* A child that is still alive gets EOF before it gets a time limit.
AfterReap_atOnce == "exit"
AfterReap == "closing2"

Reap ==
    /\ main = "reap" /\ PumpsAwaited
    /\ IF child = "exited"
       THEN main' = "health" /\ UNCHANGED stdin
       ELSE main' = AfterReap /\ stdin' = "closed"
    /\ UNCHANGED <<stop, pumps, server, asked, hurried, error, tables>>

ChildExited ==
    /\ main \in {"exit", "term", "kill"} /\ child = "exited"
    /\ main' = "health"
    /\ UNCHANGED <<stop, pumps, server, stdin, asked, hurried, error, tables>>

\* Two seconds for the child to exit, two more after SIGTERM, then SIGKILL.
AfterTerminate_giveUp == "health"
AfterTerminate == "kill"

ChildTimeout ==
    /\ child = "alive"
    /\ \/ main = "exit" /\ main' = "term" /\ asked' = "term"
       \/ main = "term" /\ main' = AfterTerminate /\ asked' = "kill"
    /\ UNCHANGED <<stop, pumps, server, stdin, hurried, error, tables>>

\* A request to the endpoint is answered within its 5 s, or given up.
HandlerBegins ==
    /\ "health" \in sidecars
    /\ sidecars' = sidecars \cup {"handler"}
    /\ UNCHANGED <<main, stop, pumps, server, stdin, asked, hurried, error, session, buffer,
                   storage, joins>>

HandlerEnds ==
    /\ "handler" \in sidecars
    /\ sidecars' = sidecars \ {"handler"}
    /\ UNCHANGED <<main, stop, pumps, server, stdin, asked, hurried, error, session, buffer,
                   storage, joins>>

\* `finally`: the endpoint stops listening, its wait_closed() returns, and the
\* telemetry task is cancelled and awaited.
Stops_healthOnly(side) == side = "health"
Stops(side) == TRUE

StopSidecar ==
    /\ \/ main = "health" /\ main' = "handlers"
       \/ main = "handlers" /\ (joins => "handler" \notin sidecars) /\ main' = "telemetry"
       \/ main = "telemetry" /\ main' = "clients"
    /\ sidecars' = IF Stops(main) THEN sidecars \ {main} ELSE sidecars
    /\ UNCHANGED <<stop, pumps, server, stdin, asked, hurried, error, session, buffer,
                   storage, joins>>

\* The HTTP clients of telemetry and classifier.
CloseClients ==
    /\ main = "clients"
    /\ main' = "shut"
    /\ error' \in {error} \cup (IF CanFail THEN {TRUE} ELSE {})
    /\ UNCHANGED <<stop, pumps, server, stdin, asked, hurried, tables>>

\* EventBuffer.__aexit__, also when an exception is passing.
Cleanup ==
    /\ main = "shut"
    /\ buffer' = "shut"
    /\ main' = IF error THEN "close" ELSE "end"
    /\ UNCHANGED <<stop, pumps, server, stdin, asked, hurried, error, session, storage, sidecars,
                   joins>>

EndSession ==
    /\ main = "end"
    /\ main' = "close"
    /\ \/ session' = "ended" /\ UNCHANGED error
       \/ CanFail /\ error' = TRUE /\ UNCHANGED session
    /\ UNCHANGED <<stop, pumps, server, stdin, asked, hurried, buffer, storage, sidecars, joins>>

Close ==
    /\ main = "close"
    /\ storage' = "closed"
    /\ main' = "over"
    /\ UNCHANGED <<stop, pumps, server, stdin, asked, hurried, error, session, buffer, sidecars,
                   joins>>

Over == main = "over" /\ UNCHANGED vars

-----------------------------------------------------------------------------
Environment == \/ ServerRead \/ ServerWrite \/ ServerCloseStdout \/ ServerExit \/ Signal
               \/ HandlerBegins \/ HandlerEnds
Pumps == ClientLine \/ C2sEnds \/ Forward \/ ServerEof \/ S2cBreaksOff \/ S2cCancelled
Main == \/ Start \/ Stopped \/ ClientEnded \/ ServerEnded \/ Aclosed \/ DrainReturned \/ DrainTimeout
        \/ Reap \/ ChildExited \/ ChildTimeout
        \/ StopSidecar \/ CloseClients \/ Cleanup \/ EndSession \/ Close

Next == Environment \/ Pumps \/ Main \/ Over

\* run_proxy wakes up when what it awaits is there and its timers expire; a
\* cancelled pump is resumed; a health handler has a time limit; the kernel
\* delivers SIGKILL; a server that keeps reading empties its stdin.
Fairness ==
    /\ WF_vars(Main)
    /\ WF_vars(c2s = "cancelled" /\ C2sEnds)
    /\ WF_vars(S2cCancelled)
    /\ WF_vars(HandlerEnds)
    /\ WF_vars(KilledExit)
    /\ WF_vars(ServerReads /\ ServerRead)

Spec == Init /\ [][Next]_vars /\ Fairness

-----------------------------------------------------------------------------
(* Properties.                                                              *)

\* Once the pumps have run, what may still use the connection when run_proxy is
\* through with it: a health handler, where wait_closed() does not wait for it.
MayOutlive == IF joins THEN {} ELSE {"handler"}

\* run_proxy never returns normally and leaves the server running, or the
\* session without its exit code.  Whatever was raised behind open(), at the start
\* or at the end, the events are out of the queue and the database is closed; and
\* if the pumps were started, the endpoint and the telemetry task are gone.
ReturnsClean ==
    main = "over" =>
        /\ ~error => child = "exited" /\ session = "ended"
        /\ buffer # "open"
        /\ storage # "closed" => storage # "open" /\ error /\ session = "none" /\ child = "none"
        /\ s2c # "idle" => sidecars \subseteq MayOutlive

\* What EventBuffer and the database rely on: nobody records an event once the
\* buffer is shut down, the exit code is known when it is written, and nobody
\* that run_proxy has to stop uses the connection once it is closed.
Quiet(pump) == pump = "idle" \/ Ended(pump)

NoRecordAfterShutdown ==
    /\ buffer = "shut" => Quiet(c2s) /\ Quiet(s2c)
    /\ session = "ended" => buffer = "shut" /\ child = "exited"
    /\ storage = "closed" => buffer # "open"
    /\ storage = "closed" /\ s2c # "idle" => sidecars \subseteq MayOutlive

\* Whatever the server had written when it closed its output reaches the
\* client, unless someone was in a hurry: a client that has sent its last
\* request still gets the answers.
NoReplyLost == main = "over" /\ s2c # "idle" /\ ~hurried => unsent = 0

\* A server is killed only after SIGTERM, and signalled only when everything the
\* client sent is in its pipe with the end of its input behind it: no signal
\* while lines for it are still in the proxy.  It may not have read them yet.
SignalOnlyAfterEof == asked # "none" => stdin = "closed" /\ (Buffered = 0 \/ child = "exited")

\* A session that begins to end does end, whatever the server does with EOF
\* and SIGTERM, if it keeps reading its input.
Ending == stop \/ error \/ Ended(c2s) \/ Ended(s2c)
ShutdownEnds == Ending ~> main = "over"

\* docs/RUNBOOK.md: on a signal the proxy closes the server's stdin, waits up to
\* 10 s, then escalates to terminate and kill.  Does not hold when the server
\* stopped reading: wait_closed() has no time limit and waits for the buffer.
SignalEscalates == stop ~> main = "over"

\* health.py, serve: run_proxy catches bind failures "so a misconfigured
\* `--health-port` cannot crash the proxy".  Does not hold of a port out of range,
\* which is no OSError: the start is left, and the telemetry task behind it.
BadPortHarmless == [][main = "side" => ~error']_vars
=============================================================================
