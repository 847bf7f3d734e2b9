------------------------------- MODULE Relay -------------------------------
(***************************************************************************)
(* The relay of proxy.py: the two pumps between client and server, the lock *)
(* around client-bound writes, the audit rows they record, and the part of  *)
(* run_proxy that waits for the pumps and cancels them.                     *)
(*                                                                          *)
(* The pump of a direction reads a line, has it checked, writes what it     *)
(* decided (write_line: the bytes are handed over at once, then the pump    *)
(* waits in drain()), records the audit rows and reads on.  The event loop  *)
(* interleaves the pumps only where they await.                             *)
(*                                                                          *)
(* EventBuffer models what becomes of a recorded row; here a row is in the  *)
(* log as soon as it is recorded.                                           *)
(***************************************************************************)
EXTENDS JsonRpc, FiniteSets

CONSTANTS Frames,       \* Frames[d]: the lines a peer may send
          MaxFrames,    \* bound: MaxFrames[d] lines are read in direction d
          Allowlist,    \* whether an allowlist of tools is configured
          Detector,     \* whether the detector is enabled
          CanAbort      \* whether an inspection may exceed hard_abort_ms

ASSUME RelayAssumption ==
    /\ DOMAIN Frames = Dirs /\ \A d \in Dirs : Frames[d] \subseteq Line
    /\ MaxFrames \in [Dirs -> Nat]
    /\ {Allowlist, Detector, CanAbort} \subseteq BOOLEAN

VARIABLES read,     \* read[d]: the lines read so far
          pc,       \* pc[d]: where the pump is
          job,      \* job[d]: what the pump is doing with its last line
          written,  \* written[p]: what was handed to the writer of peer p
          closing,  \* writers that were closed
          lock,     \* holder of client_write_lock
          log,      \* audit rows
          stop,     \* stop_event
          main      \* run_proxy: "wait" for a pump, "aclose" of the server's stdin,
                    \* "drain" of s2c, "reap" of the server, "over"

vars == <<read, pc, job, written, closing, lock, log, stop, main>>

Peers  == {"client", "server"}
Dst(d) == IF d = "c2s" THEN "server" ELSE "client"

\* An audit row: of member i of the n-th line of direction d; i = 0 for a raw
\* row and for the synthetic reply to a blocked request.
Row(d, n, i, verdict) == [dir |-> d, line |-> n, member |-> i, verdict |-> verdict]
RawRow(d, n)    == Row(d, n, 0, "none")
SyntheticRow(n) == Row("s2c", n, 0, "BLOCK")

\* A job writes the texts, if any, to the peer and then records the rows.  A
\* text is what one line becomes: its parts, in an array or bare.
Text(array, parts) == [array |-> array, parts |-> parts]
Job(to, texts, rows) == [to |-> to, texts |-> texts, rows |-> rows]
NoJob    == Job("none", <<>>, <<>>)
NotYetKnown == Job("unknown", <<>>, <<>>)

Current(d) == read[d][Len(read[d])]

Init ==
    /\ read = [d \in Dirs |-> <<>>]
    /\ pc = [d \in Dirs |-> "read"]
    /\ job = [d \in Dirs |-> NoJob]
    /\ written = [p \in Peers |-> <<>>]
    /\ closing = {} /\ lock = "free"
    /\ log = <<>> /\ stop = FALSE /\ main = "wait"

-----------------------------------------------------------------------------
(* What _pump decides about a line.                                         *)

MemberRows(d, n, verdicts) ==
    [i \in DOMAIN verdicts |-> Row(d, n, i, verdicts[i])]

\* Benign siblings of a denied call are logged without a verdict.
CapabilityRows_blockedOnly(f, n) ==
    SelectSeq([i \in DOMAIN f.members |-> Row("c2s", n, i, "BLOCK")],
              LAMBDA r : Denied(f.members[r.member]))
CapabilityRows(f, n) ==
    [i \in DOMAIN f.members |->
        Row("c2s", n, i, IF Denied(f.members[i]) THEN "BLOCK" ELSE "none")]

\* Capability block: the whole frame stays here, and the client gets an answer
\* if one is expected.
CapabilityJob(f, n) ==
    LET reply == CapabilityReply(f)
        rows  == CapabilityRows(f, n)
    IN IF IsBatch(f) \/ DOMAIN reply # {}
       THEN Job("client", <<Text(IsBatch(f), reply)>>, rows)
       ELSE Job("none", <<>>, rows)

\* The detector's verdicts: a frame with a blocked member is replaced (s2c) or
\* answered (c2s, with a synthetic row), any other is forwarded.
InspectedJob(d, f, n, verdicts) ==
    IF \E i \in DOMAIN verdicts : verdicts[i] = "BLOCK"
    THEN Job("client", <<Text(IsBatch(f), Replacement(d, f, verdicts))>>,
             (IF d = "c2s" THEN <<SyntheticRow(n)>> ELSE <<>>)
                \o MemberRows(d, n, verdicts))
    ELSE Job(Dst(d), <<Text(f.array, Verbatim(f))>>, MemberRows(d, n, verdicts))

-----------------------------------------------------------------------------
(* The pump.                                                                *)

\* `finally`: the pump closes its own destination, whatever ended it.
End(d) ==
    /\ pc' = [pc EXCEPT ![d] = "done"]
    /\ closing' = closing \cup {Dst(d)}
    /\ lock' = IF lock = d THEN "free" ELSE lock

\* The loop goes round, unless the stop event is set.
Continue(d) ==
    /\ job' = [job EXCEPT ![d] = NoJob]
    /\ IF stop
       THEN End(d)
       ELSE /\ pc' = [pc EXCEPT ![d] = "read"]
            /\ lock' = IF lock = d THEN "free" ELSE lock
            /\ UNCHANGED closing

BlockedByCapability(d, f) == Allowlist /\ d = "c2s" /\ DeniedFrame(f)

\* A blank line is forwarded as it is.  An oversized line was discarded by the
\* reader: it is recorded, and no bytes are written for it.
ReadLine(d, f) ==
    LET n == Len(read[d]) + 1
        Plan(j) == pc' = [pc EXCEPT ![d] = "write"] /\ job' = [job EXCEPT ![d] = j]
    IN
    /\ pc[d] = "read"
    /\ Len(read[d]) < MaxFrames[d]
    /\ read' = [read EXCEPT ![d] = Append(@, f)]
    /\ \/ /\ f.kind = "blank"
          /\ Plan(Job(Dst(d), <<Text(FALSE, Verbatim(f))>>, <<>>))
          /\ UNCHANGED log
       \/ /\ f.kind = "oversized"
          /\ Plan(Job(Dst(d), <<>>, <<>>))
          /\ log' = Append(log, RawRow(d, n))
       \/ /\ f.kind = "line" /\ BlockedByCapability(d, f)
          /\ Plan(CapabilityJob(f, n))
          /\ UNCHANGED log
       \/ /\ f.kind = "line" /\ ~BlockedByCapability(d, f)
          /\ pc' = [pc EXCEPT ![d] = "inspect"]
          /\ job' = [job EXCEPT ![d] = NotYetKnown]
          /\ UNCHANGED log
    /\ UNCHANGED <<written, closing, lock, stop, main>>

EndOfFile(d) ==
    /\ pc[d] = "read"
    /\ End(d)
    /\ UNCHANGED <<read, job, written, log, stop, main>>

\* The verdicts of a line's members; any of them may have been aborted.
Verdicts(d, f) ==
    IF Detector
    THEN {[i \in DOMAIN f.members |-> Verdict(d, f.members[i], aborted[i])] :
             aborted \in [DOMAIN f.members -> IF CanAbort THEN BOOLEAN ELSE {FALSE}]}
    ELSE {[i \in DOMAIN f.members |-> "none"]}

\* inspect() awaits the classifier; the members are inspected one by one.
Inspect(d) ==
    /\ pc[d] = "inspect"
    /\ \E verdicts \in Verdicts(d, Current(d)) :
          job' = [job EXCEPT ![d] = InspectedJob(d, Current(d), Len(read[d]), verdicts)]
    /\ pc' = [pc EXCEPT ![d] = "write"]
    /\ UNCHANGED <<read, written, closing, lock, log, stop, main>>

\* _safe_write takes the lock for the client's writer only.
LockNeeded_ownDirection(d) == job[d].to = "client" /\ d = "s2c"
LockNeeded(d) == job[d].to = "client"

\* A closed writer discards what it is given.
Write(d) ==
    /\ pc[d] = "write" /\ job[d].to # "none"
    /\ LockNeeded(d) => lock = "free"
    /\ lock' = IF LockNeeded(d) THEN d ELSE lock
    /\ pc' = [pc EXCEPT ![d] = "drain"]
    /\ written' =
          IF job[d].to \in closing THEN written
          ELSE [written EXCEPT ![job[d].to] = @ \o
                   [k \in DOMAIN job[d].texts |->
                       [dir |-> d, line |-> Len(read[d]), text |-> job[d].texts[k]]]]
    /\ UNCHANGED <<read, job, closing, log, stop, main>>

\* Nothing to write: a denied notification is only recorded.
RecordOnly(d) ==
    /\ pc[d] = "write" /\ job[d].to = "none"
    /\ log' = log \o job[d].rows
    /\ Continue(d)
    /\ UNCHANGED <<read, written, stop, main>>

\* drain() returned: the rows are recorded, after the write.
Drained(d) ==
    /\ pc[d] = "drain"
    /\ log' = log \o job[d].rows
    /\ Continue(d)
    /\ UNCHANGED <<read, written, stop, main>>

\* drain() raised, the peer having closed its end at some time: the pump
\* returns and the frame's rows are not recorded.
DrainFailed(d) ==
    /\ pc[d] = "drain"
    /\ End(d)
    /\ UNCHANGED <<read, job, written, log, stop, main>>

Pump(d) ==
    \/ \E f \in Frames[d] : ReadLine(d, f)
    \/ EndOfFile(d) \/ Inspect(d) \/ Write(d) \/ RecordOnly(d)
    \/ Drained(d) \/ DrainFailed(d)

-----------------------------------------------------------------------------
(* run_proxy: asyncio.wait(FIRST_COMPLETED) and what follows.  A cancelled  *)
(* pump takes no step but its `finally`.                                    *)

CancelPumps(ds) ==
    /\ pc' = [d \in Dirs |-> IF d \in ds THEN "done" ELSE pc[d]]
    /\ closing' = closing \cup {Dst(d) : d \in {e \in ds : pc[e] # "done"}}
    /\ lock' = IF lock \in ds THEN "free" ELSE lock

Signal ==
    /\ main # "over" /\ ~stop
    /\ stop' = TRUE
    /\ UNCHANGED <<read, pc, job, written, closing, lock, log, main>>

Stopped ==
    /\ main = "wait" /\ stop
    /\ CancelPumps(Dirs)
    /\ main' = "reap"
    /\ UNCHANGED <<read, job, written, log, stop>>

\* Client EOF: first the server's stdin is closed, while s2c goes on.  The stop
\* event is not waited for any more, only the loop head of the pump looks at it.
ClientEnded ==
    /\ main = "wait" /\ pc["c2s"] = "done" /\ pc["s2c"] # "done" /\ ~stop
    /\ main' = "aclose"
    /\ UNCHANGED <<read, pc, job, written, closing, lock, log, stop>>

\* aclose() returned: the server took what was buffered for it, or broke the
\* pipe.  No time limit runs meanwhile.
Aclosed ==
    /\ main = "aclose"
    /\ main' = "drain"
    /\ UNCHANGED <<read, pc, job, written, closing, lock, log, stop>>

\* s2c has at most 10 s from here.
DrainOver ==
    /\ main = "drain"
    /\ CancelPumps({"s2c"})
    /\ main' = "reap"
    /\ UNCHANGED <<read, job, written, log, stop>>

\* Server EOF, or both pumps ended.
AfterServerEof_onlyBoth == {d \in Dirs : pc[d] = "done"} = Dirs
AfterServerEof == pc["s2c"] = "done"

ServerEnded ==
    /\ main = "wait" /\ AfterServerEof /\ ~stop
    /\ CancelPumps({"c2s"})
    /\ main' = "reap"
    /\ UNCHANGED <<read, job, written, log, stop>>

\* The pumps are gathered.  The server had exited; or aclose() of its stdin
\* returned, again without a time limit, and the server was waited for,
\* terminated or killed, which takes bounded time (Lifecycle has the steps).
Reaped ==
    /\ main = "reap" /\ \A d \in Dirs : pc[d] = "done"
    /\ main' = "over"
    /\ UNCHANGED <<read, pc, job, written, closing, lock, log, stop>>

Over == main = "over" /\ UNCHANGED vars

\* What run_proxy does by itself, and what only the server lets it do.
Main == Stopped \/ ClientEnded \/ DrainOver \/ ServerEnded
ServerLets == Aclosed \/ Reaped

Next == \/ \E d \in Dirs : Pump(d)
        \/ Main \/ ServerLets \/ Signal
        \/ Over

\* run_proxy wakes up and its 10 s timer expires; no pump and no peer has to
\* take another step.
Fairness == WF_vars(Main)

Spec == Init /\ [][Next]_vars /\ Fairness

-----------------------------------------------------------------------------
(* Properties.                                                              *)

Row0 == [dir : Dirs, line : Nat, member : Nat, verdict : {"PASS", "WARN", "BLOCK", "none"}]
Answers == {"verbatim", "denied", "blocked", "aborted"}

TypeOK ==
    /\ \A d \in Dirs : read[d] \in Seq(Frames[d]) /\ Len(read[d]) <= MaxFrames[d]
    /\ pc \in [Dirs -> {"read", "inspect", "write", "drain", "done"}]
    /\ \A d \in Dirs : job[d].to \in Peers \cup {"none", "unknown"} /\ job[d].rows \in Seq(Row0)
    /\ \A p \in Peers : \A k \in DOMAIN written[p] : LET w == written[p][k] IN
          /\ w.dir \in Dirs /\ w.line \in 1..Len(read[w.dir])
          /\ \E given \in SUBSET DOMAIN read[w.dir][w.line].members : w.text.parts \in [given -> Answers]
    /\ closing \subseteq Peers
    /\ lock \in Dirs \cup {"free"}
    /\ log \in Seq(Row0)
    /\ stop \in BOOLEAN
    /\ main \in {"wait", "aclose", "drain", "reap", "over"}

\* The lines of a direction the pump is through with.
Handled(d) == 1..(IF job[d] = NoJob THEN Len(read[d]) ELSE Len(read[d]) - 1)

\* What was written to peer p with something for member i of line n of direction d.
Got(p, d, n, i) ==
    {k \in DOMAIN written[p] :
        /\ written[p][k].dir = d /\ written[p][k].line = n
        /\ i \in DOMAIN written[p][k].text.parts}

\* Every request the client sent is either forwarded to the server or answered
\* by the relay, exactly once, as long as the client can be written to; nothing
\* is forwarded and answered, in whatever batch it came and whoever blocked it.
\* Every message the server sent reaches the client once, as it is or replaced.
NotAllowed(m) == Allowlist /\ m.method = "call" /\ m.tool = "denied"
MustBeAnswered(m) == IsRequest(m) \/ (NotAllowed(m) /\ m.id # "none")

EachMessageOnce ==
    /\ \A n \in Handled("c2s") : \A i \in DOMAIN read["c2s"][n].members :
          LET got == Cardinality(Got("server", "c2s", n, i)) + Cardinality(Got("client", "c2s", n, i))
          IN /\ got <= 1
             /\ MustBeAnswered(read["c2s"][n].members[i]) /\ "client" \notin closing => got = 1
    /\ \A n \in Handled("s2c") : \A i \in DOMAIN read["s2c"][n].members :
          Cardinality(Got("client", "s2c", n, i)) = 1

\* A message whose audit row says BLOCK, and a call of a tool outside the
\* allowlist, logged or not, never reaches the peer it was sent to.
BlockedNotDelivered ==
    \A d \in Dirs : \A w \in {written[Dst(d)][k] : k \in DOMAIN written[Dst(d)]} :
        \A i \in DOMAIN w.text.parts :
            w.dir = d /\ w.text.parts[i] = "verbatim" =>
                /\ ~(d = "c2s" /\ NotAllowed(read[d][w.line].members[i]))
                /\ \A r \in {log[k] : k \in DOMAIN log} :
                      r.dir = d /\ r.line = w.line /\ r.member = i => r.verdict # "BLOCK"

\* Fail-open is on record: when a message the policy blocks is forwarded all
\* the same, its audit row says WARN once the line is handled.
FailOpenIsAudited ==
    \A d \in Dirs : \A n \in Handled(d) : \A i \in DOMAIN read[d][n].members :
        Detector /\ read[d][n].members[i].threat
          /\ (\E k \in Got(Dst(d), d, n, i) :
                 written[Dst(d)][k].text.parts[i] = "verbatim")
        => \E k \in DOMAIN log : log[k] = Row(d, n, i, "WARN")

\* The audit rows of a direction name every member of every handled line once,
\* in the order the lines came; only the line in hand may be without rows.
Before(r, q) == r.line < q.line \/ (r.line = q.line /\ r.member < q.member)

AuditComplete ==
    \A d \in Dirs :
        LET rows == {k \in DOMAIN log : log[k].dir = d /\ log[k].member > 0} IN
        /\ \A j, k \in rows : j < k => Before(log[j], log[k])
        /\ {<<log[k].line, log[k].member>> : k \in rows}
              = UNION {{n} \X DOMAIN read[d][n].members : n \in Handled(d)}

\* The log tells in which order the client got what both pumps wrote to it.
RowsBefore(a, b) ==
    \A j, k \in DOMAIN log :
        /\ log[j].dir = a.dir /\ log[j].line = a.line /\ log[j].member > 0
        /\ log[k].dir = b.dir /\ log[k].line = b.line /\ log[k].member > 0
        => j < k

LogOrderIsClientOrder ==
    \A j, k \in DOMAIN written["client"] :
        j < k => RowsBefore(written["client"][j], written["client"][k])

\* The relay is on its way to the end: the stop event is set or a pump is done.
Ending == stop \/ \E d \in Dirs : pc[d] = "done"

-----------------------------------------------------------------------------
\* README.md: "Oversized frames are forwarded byte-for-byte and logged as `raw`."
\* Does not hold: the reader has discarded the bytes.
OversizedForwarded ==
    \A d \in Dirs : \A n \in Handled(d) :
        read[d][n].kind = "oversized" /\ Dst(d) \notin closing
            => \E k \in DOMAIN written[Dst(d)] :
                   written[Dst(d)][k].dir = d /\ written[Dst(d)][k].line = n
=============================================================================
