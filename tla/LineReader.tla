----------------------------- MODULE LineReader -----------------------------
(***************************************************************************)
(* How a byte stream becomes the lines a pump gets: the two readers of      *)
(* proxy.py.  _AsyncStreamReader is asyncio's StreamReader, which buffers   *)
(* what the pipe delivers; _BlockingReader, the fallback for the client's   *)
(* side, calls readline(size) on a worker thread.  Both report a line       *)
(* longer than the limit by an exception.                                   *)
(*                                                                          *)
(* A byte is either a newline or not; `out` has what readline() returned or *)
(* raised, as the interval of the stream it accounts for.                   *)
(***************************************************************************)
EXTENDS Integers, Sequences, FiniteSetsExt

CONSTANTS Limit,      \* line_limit
          DrainChunk, \* _BlockingReader._DRAIN_CHUNK
          PipeChunk,  \* the most bytes one read of the pipe delivers
          Streams     \* the byte streams a peer may send

ASSUME LineReaderAssumption ==
    /\ {Limit, DrainChunk, PipeChunk} \subseteq Nat \ {0}
    /\ Streams \subseteq Seq({"byte", "newline"})

VARIABLES kind,     \* the reader: "async" or "blocking"
          stream,   \* what the peer sends
          arrived,  \* bytes that arrived: in StreamReader's buffer, or in the pipe
          eof,      \* the end of the stream arrived
          paused,   \* StreamReader paused the pipe
          taken,    \* bytes the reader returned or discarded
          start,    \* `taken` when the thread began with an oversized line
          call,     \* "idle", or readline() is running: "read", or "drain" in the thread
          out       \* what readline() returned or raised so far

source == <<kind, stream>>
pipe   == <<arrived, eof>>
readerVars == <<source, pipe, paused, taken, start, call, out>>

Bytes == 1..Len(stream)

TypeOK ==
    /\ kind \in {"async", "blocking"} /\ stream \in Streams
    /\ taken \in 0..arrived /\ arrived \in 0..Len(stream) /\ start \in 0..taken
    /\ {eof, paused} \subseteq BOOLEAN
    /\ call \in {"idle", "read", "drain"}
    /\ out \in Seq([as : {"line", "oversized", "end"}, from : Bytes \cup {Len(stream) + 1},
                    to : 0..Len(stream)])

\* _open_client_reader takes the blocking reader where stdin is no pipe.
ReaderInit ==
    /\ kind \in {"async", "blocking"} /\ stream \in Streams
    /\ arrived = 0 /\ eof = FALSE /\ paused = FALSE
    /\ taken = 0 /\ start = 0 /\ call = "idle" /\ out = <<>>

-----------------------------------------------------------------------------
(* The pipe.                                                                *)

\* feed_data: the pipe is paused when more than twice the limit is buffered.
Pauses_never(buffered) == FALSE
Pauses(buffered) == kind = "async" /\ buffered > 2 * Limit

Feed ==
    /\ ~paused /\ ~eof
    /\ \E n \in 1..PipeChunk :
          /\ arrived + n <= Len(stream)
          /\ arrived' = arrived + n
          /\ paused' = Pauses(arrived + n - taken)
    /\ UNCHANGED <<source, eof, taken, start, call, out>>

FeedEof ==
    /\ ~paused /\ ~eof /\ arrived = Len(stream)
    /\ eof' = TRUE
    /\ UNCHANGED <<source, arrived, paused, taken, start, call, out>>

-----------------------------------------------------------------------------
(* readline().                                                              *)

AtEnd == out # <<>> /\ out[Len(out)].as = "end"

\* The pump calls again when it is through with the last line.
Call ==
    /\ call = "idle" /\ ~AtEnd
    /\ call' = "read"
    /\ UNCHANGED <<source, pipe, paused, taken, start, out>>

Newlines(from, to) == {i \in from..to : stream[i] = "newline"}

\* _maybe_resume_transport.
StillPaused(to) == paused /\ arrived - to > Limit

\* readline() accounts for the bytes after `from` up to `to`.
Return(as, from, to) ==
    /\ out' = Append(out, [as |-> as, from |-> from + 1, to |-> to])
    /\ taken' = to
    /\ paused' = StillPaused(to)
    /\ call' = "idle"
    /\ UNCHANGED <<source, pipe, start>>

\* StreamReader.readline: a newline in the buffer, and the line fits or not ...
AsyncLine ==
    /\ kind = "async" /\ call = "read"
    /\ LET ends == Newlines(taken + 1, arrived) IN
       /\ ends # {}
       /\ Return(IF Min(ends) - taken - 1 > Limit THEN "oversized" ELSE "line", taken, Min(ends))

\* ... or none, and more than the limit: the buffer is cleared.
AsyncOverrun_waits == FALSE
AsyncOverrun == arrived - taken > Limit

AsyncClear ==
    /\ kind = "async" /\ call = "read"
    /\ Newlines(taken + 1, arrived) = {} /\ AsyncOverrun
    /\ Return("oversized", taken, arrived)

\* ... or none, and no more to come: what is left is a line, empty at the end.
AsyncEof ==
    /\ kind = "async" /\ call = "read" /\ eof
    /\ Newlines(taken + 1, arrived) = {} /\ ~AsyncOverrun
    /\ Return(IF taken = arrived THEN "end" ELSE "line", taken, arrived)

\* Where io.BufferedReader.readline(size) ends: behind the first newline, after
\* `size` bytes, or at the end of the stream; otherwise it blocks.
Stops(size) ==
    LET ends == Newlines(taken + 1, Min({arrived, taken + size})) IN
    CASE ends # {} -> {Min(ends)}
      [] ends = {} /\ arrived >= taken + size -> {taken + size}
      [] ends = {} /\ arrived < taken + size /\ eof -> {arrived}
      [] OTHER -> {}

\* `size` bytes without a newline: the line goes on.
IsFull_orNewline(to, size) == to = taken + size
IsFull(to, size) == to = taken + size /\ stream[to] # "newline"

\* _readline_bounded, on the worker thread.
ThreadRead ==
    /\ kind = "blocking" /\ call = "read"
    /\ \E to \in Stops(Limit) :
          IF IsFull(to, Limit)
          THEN /\ call' = "drain" /\ start' = taken /\ taken' = to
               /\ UNCHANGED <<source, pipe, paused, out>>
          ELSE Return(IF to = taken THEN "end" ELSE "line", taken, to)

\* The rest of an oversized line is discarded chunk by chunk, to its newline or
\* the end of the stream.
DrainDone_oneChunk(to) == TRUE
DrainDone(to) == to = taken \/ stream[to] = "newline"

ThreadDrain ==
    /\ call = "drain"
    /\ \E to \in Stops(DrainChunk) :
          IF DrainDone(to)
          THEN Return("oversized", start, to)
          ELSE taken' = to /\ UNCHANGED <<source, pipe, paused, start, call, out>>

\* readline() of a file that was closed under the thread is the end of the
\* stream, in the middle of an oversized line too.
FileClosed ==
    /\ kind = "blocking" /\ call # "idle"
    /\ Return("end", taken, taken)

-----------------------------------------------------------------------------
Reader == AsyncLine \/ AsyncClear \/ AsyncEof \/ ThreadRead \/ ThreadDrain

Done == AtEnd /\ UNCHANGED readerVars

ReaderNext == Feed \/ FeedEof \/ Call \/ Reader \/ FileClosed \/ Done

\* The peer goes on sending, the pump goes on reading.
ReaderFairness == WF_readerVars(Feed \/ FeedEof) /\ WF_readerVars(Call) /\ WF_readerVars(Reader)

ReaderSpec == ReaderInit /\ [][ReaderNext]_readerVars /\ ReaderFairness

-----------------------------------------------------------------------------
(* Properties.                                                              *)

\* The line that byte i is in, from its first byte to its newline or the last.
LineStart(i) == Max({0} \cup Newlines(1, i - 1)) + 1
LineEnd(i)   == Min({Len(stream)} \cup Newlines(i, Len(stream)))
Pieces(as)   == {<<out[k].from, out[k].to>> : k \in {j \in DOMAIN out : out[j].as = as}}

\* A line that fits the limit with its newline is returned once and whole,
\* whatever came before it and in whatever chunks it arrived: an oversized
\* line costs none of its neighbours a byte.
FittingLinesIntact ==
    \A i \in 1..(IF call = "drain" THEN start ELSE taken) :
        LineEnd(i) - LineStart(i) + 1 < Limit + (IF stream[LineEnd(i)] = "newline" THEN 1 ELSE 0)
            => <<LineStart(i), LineEnd(i)>> \in Pieces("line")

\* A pump gets a piece of a line only after, and of, a line it was told is
\* oversized; the blocking reader never hands out a piece at all.
PieceOnlyAfterOverflow ==
    \A k \in DOMAIN out : out[k].as # "end" =>
        LET first == LineStart(out[k].from) last == LineEnd(out[k].from) IN
        /\ out[k].from # first =>
              kind = "async" /\ k > 1 /\ out[k - 1].as = "oversized"
                             /\ out[k - 1].from >= first /\ out[k - 1].to = out[k].from - 1
        /\ out[k].to # last => kind = "async" /\ out[k].as = "oversized"

\* No line makes the proxy hold more than twice the limit and one read of the
\* pipe, however long it is and however slow the pump.
MemoryBounded == kind = "async" => arrived - taken <= 2 * Limit + PipeChunk

\* Every byte is accounted for and the pump learns of the end of the stream: a
\* pause of the pipe is never for good.
StreamEnds == <>AtEnd

\* proxy.py, _BlockingReader: "honours the SAME contract _AsyncStreamReader already
\* enforces: a line over the limit is drained (read and discarded up to the next \n
\* or EOF)".  Does not hold: StreamReader forgets that its buffer was cut off.
SameContract ==
    \A k \in DOMAIN out : out[k].as = "oversized" => out[k].to = LineEnd(out[k].from)
=============================================================================
