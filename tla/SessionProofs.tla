---------------------------- MODULE SessionProofs ----------------------------
(***************************************************************************)
(* What holds from the bytes a peer writes to the rows of the table.        *)
(*                                                                          *)
(* From bytes to lines: both line readers, for every limit, size of a chunk *)
(* and stream, however the bytes arrive.  No fitting line is lost or cut, a *)
(* piece of a line follows only its overflow, the buffer is bounded.        *)
(*                                                                          *)
(* From lines to rows: a session of relay and audit-log writer, for every   *)
(* set of frames and every bound.  Both are what their own modules say,     *)
(* none the worse for the other's steps, so what is proved of each holds of *)
(* the session; together they keep the audit trail.                         *)
(***************************************************************************)
EXTENDS Session, LineReader, TLAPS, SequenceTheorems, FiniteSetTheorems, WellFoundedInduction

\* Relay and EventBuffer with their theorems.  Their definitions are those of Session's
\* R and B under another name: SameRelay, SameBuffer and their like say so below.
RP == INSTANCE RelayProofs
BP == INSTANCE EventBufferProofs

-----------------------------------------------------------------------------
(* Lines, by the newlines that are not in them.                             *)

NoNewline(from, to) == \A i \in Nat : from <= i /\ i <= to => stream[i] # "newline"
BeginsAt(a) == a = 1 \/ stream[a - 1] = "newline"
EndsAt(b)   == stream[b] = "newline" \/ b = Len(stream)
IsLine(a, b) ==
    /\ 1 <= a /\ a <= b /\ b <= Len(stream)
    /\ BeginsAt(a) /\ NoNewline(a, b - 1) /\ EndsAt(b)
Fits(a, b) == b - a + 1 < Limit + (IF stream[b] = "newline" THEN 1 ELSE 0)

-----------------------------------------------------------------------------
(* The inductive invariant.                                                 *)

Entry == [as : {"line", "oversized", "end"}, from : Nat, to : Nat]

\* The bytes that `out` accounts for: not yet those the thread discards.
Told == IF call = "drain" THEN start ELSE taken

ReaderTypes ==
    /\ kind \in {"async", "blocking"} /\ stream \in Seq({"byte", "newline"})
    /\ arrived \in Nat /\ taken \in Nat /\ start \in Nat
    /\ taken <= arrived /\ arrived <= Len(stream)
    /\ eof => arrived = Len(stream)
    /\ paused \in BOOLEAN /\ call \in {"idle", "read", "drain"}
    /\ out \in Seq(Entry)

\* The pipe delivers into a buffer that is not over twice the limit, or pauses.
Buffered ==
    kind = "async" => arrived - taken <= 2 * Limit + (IF paused THEN PipeChunk ELSE 0)

\* What the thread discards is an overflow: `limit` bytes of one line, or more.
Draining ==
    call = "drain" =>
        /\ kind = "blocking" /\ start + Limit <= taken
        /\ NoNewline(start + 1, taken)

\* Between two calls the reader is at the end of a line, or behind an overflow that
\* it has reported.
Resting ==
    /\ Len(out) = 0 => Told = 0
    /\ Len(out) # 0 => out[Len(out)].to = Told
    /\ AtEnd => call = "idle"
    /\ \/ Told = 0 \/ EndsAt(Told) \/ AtEnd
       \/ /\ kind = "async" /\ Len(out) # 0
          /\ out[Len(out)].as = "oversized" /\ NoNewline(out[Len(out)].from, Told)

\* Every piece but the first of a line comes after its overflow.
Pieced ==
    \A k \in 1..Len(out) : out[k].as # "end" =>
        /\ 1 <= out[k].from /\ out[k].from <= out[k].to /\ out[k].to <= Len(stream)
        /\ NoNewline(out[k].from, out[k].to - 1)
        /\ \/ BeginsAt(out[k].from)
           \/ /\ kind = "async" /\ k > 1 /\ out[k - 1].as = "oversized"
              /\ NoNewline(out[k - 1].from, out[k].from - 1) /\ out[k - 1].to = out[k].from - 1
        /\ EndsAt(out[k].to) \/ (kind = "async" /\ out[k].as = "oversized")

\* Every line that fits and begins before Told was returned whole.
Whole ==
    \A a, b \in Nat : IsLine(a, b) /\ Fits(a, b) /\ a <= Told =>
        \E k \in 1..Len(out) : out[k] = [as |-> "line", from |-> a, to |-> b]

ReaderInv == ReaderTypes /\ Buffered /\ Draining /\ Resting /\ Pieced /\ Whole

-----------------------------------------------------------------------------
(* Least and greatest numbers.                                              *)

LEMMA LeastNumber ==
    ASSUME NEW T \in SUBSET Nat, T # {}
    PROVE  Min(T) \in T /\ \A m \in T : Min(T) <= m
<1>1. PICK n \in T : \A m \in T : <<m, n>> \notin OpToRel(<, Nat)
  BY NatLessThanWellFounded, WFMin
<1>2. ASSUME NEW m \in T PROVE n <= m
  <2>1. <<m, n>> \notin {ss \in Nat \X Nat : ss[1] < ss[2]}
    BY <1>1 DEF OpToRel
  <2>2. QED BY <2>1
<1>3. QED BY <1>2 DEF Min

LEMMA GreatestNumber ==
    ASSUME NEW T \in SUBSET Nat, T # {}, NEW n \in Nat, \A m \in T : m <= n
    PROVE  Max(T) \in T /\ \A m \in T : Max(T) >= m
<1> DEFINE Below == {k \in Nat : \E m \in T : k = n - m}
<1>1. Below # {}
  <2>1. PICK m \in T : TRUE
    OBVIOUS
  <2>2. n - m \in Nat
    OBVIOUS
  <2>3. n - m \in Below
    BY <2>2
  <2>4. QED BY <2>3
<1>2. Below \in SUBSET Nat
  OBVIOUS
<1>3. \A m \in T : n - m \in Below /\ m \in Nat
  OBVIOUS
<1>4. \A k \in Below : \E m \in T : k = n - m
  OBVIOUS
<1> HIDE DEF Below
<1>5. Min(Below) \in Below /\ \A k \in Below : Min(Below) <= k
  BY <1>1, <1>2, LeastNumber
<1>6. PICK t \in T : Min(Below) = n - t
  BY <1>4, <1>5
<1>7. \A m \in T : t >= m
  <2>1. ASSUME NEW m \in T PROVE t >= m
    <3>1. n - t <= n - m
      BY <1>3, <1>5, <1>6
    <3>2. QED BY <1>3, <3>1
  <2>2. QED BY <2>1
<1>8. QED BY <1>7 DEF Max

LEMMA LimitFacts == Limit \in Nat \ {0} /\ DrainChunk \in Nat \ {0} /\ PipeChunk \in Nat \ {0}
BY LineReaderAssumption

\* A newline found is the first one.
LEMMA FirstNewline ==
    ASSUME NEW from \in Nat, NEW to \in Nat, Newlines(from, to) # {}
    PROVE  /\ Min(Newlines(from, to)) \in from..to /\ stream[Min(Newlines(from, to))] = "newline"
           /\ NoNewline(from, Min(Newlines(from, to)) - 1)
<1> DEFINE T == Newlines(from, to)
<1>1. T \in SUBSET Nat /\ T # {}
  BY DEF Newlines
<1>2. Min(T) \in T /\ \A m \in T : Min(T) <= m
  BY <1>1, LeastNumber
<1>3. Min(T) \in from..to /\ stream[Min(T)] = "newline"
  BY <1>2 DEF Newlines
<1>4. ASSUME NEW i \in Nat, from <= i, i <= Min(T) - 1, stream[i] = "newline" PROVE FALSE
  <2>1. i \in T
    BY <1>3, <1>4 DEF Newlines
  <2>2. Min(T) <= i
    BY <1>2, <2>1
  <2>3. QED BY <1>3, <1>4, <2>2
<1>5. NoNewline(from, Min(T) - 1)
  BY <1>4 DEF NoNewline
<1>6. QED BY <1>3, <1>5

LEMMA NoneFound ==
    ASSUME NEW from \in Nat, NEW to \in Nat, Newlines(from, to) = {}
    PROVE  NoNewline(from, to)
BY DEF Newlines, NoNewline

LEMMA LesserOf ==
    ASSUME NEW a \in Nat, NEW b \in Nat
    PROVE  Min({a, b}) = IF a <= b THEN a ELSE b
<1>1. {a, b} \in SUBSET Nat /\ {a, b} # {}
  OBVIOUS
<1>2. Min({a, b}) \in {a, b} /\ \A m \in {a, b} : Min({a, b}) <= m
  BY <1>1, LeastNumber
<1>3. QED BY <1>2

\* Where readline(size) of a file ends.
LEMMA StopsFacts ==
    ASSUME ReaderTypes, NEW size \in Nat \ {0}, NEW to \in Stops(size)
    PROVE  /\ to \in Nat /\ taken <= to /\ to <= arrived /\ NoNewline(taken + 1, to - 1)
           /\ \/ to > taken /\ stream[to] = "newline"
              \/ NoNewline(taken + 1, to) /\ to = taken + size
              \/ NoNewline(taken + 1, to) /\ to = Len(stream)
<1> DEFINE upto == IF arrived <= taken + size THEN arrived ELSE taken + size
           ends == Newlines(taken + 1, upto)
<1>1. taken \in Nat /\ arrived \in Nat /\ taken <= arrived /\ upto \in Nat /\ taken + 1 \in Nat
  BY DEF ReaderTypes
<1>2. Min({arrived, taken + size}) = upto
  BY <1>1, LesserOf
<1>3. to \in (CASE ends # {} -> {Min(ends)}
                [] ends = {} /\ arrived >= taken + size -> {taken + size}
                [] ends = {} /\ arrived < taken + size /\ eof -> {arrived}
                [] OTHER -> {})
  BY <1>2 DEF Stops
<1> HIDE DEF ends
<1>4. CASE ends # {}
  <2>1. to = Min(ends)
    BY <1>3, <1>4
  <2>2. to \in (taken + 1)..upto /\ stream[to] = "newline" /\ NoNewline(taken + 1, to - 1)
    BY <1>1, <1>4, <2>1, FirstNewline DEF ends
  <2>3. QED BY <1>1, <2>2
<1>5. CASE ends = {}
  <2>1. NoNewline(taken + 1, upto)
    BY <1>1, <1>5, NoneFound DEF ends
  <2>2. CASE arrived >= taken + size
    <3>1. to = taken + size
      <4>1. ends = {} /\ arrived >= taken + size /\ ~(arrived < taken + size)
        BY <1>1, <1>5, <2>2
      <4>2. to \in {taken + size}
        BY <1>3, <4>1
      <4>3. QED BY <4>2
    <3>2. upto = taken + size
      BY <1>1, <2>2
    <3>3. NoNewline(taken + 1, to) /\ NoNewline(taken + 1, to - 1)
      BY <1>1, <2>1, <3>1, <3>2 DEF NoNewline
    <3>4. QED BY <1>1, <2>2, <3>1, <3>3
  <2>3. CASE ~(arrived >= taken + size)
    <3>1. arrived < taken + size
      BY <1>1, <2>3
    <3>2. to = arrived /\ eof
      BY <1>3, <1>5, <2>3, <3>1
    <3>3. upto = arrived /\ arrived = Len(stream)
      BY <1>1, <3>1, <3>2 DEF ReaderTypes
    <3>4. NoNewline(taken + 1, to) /\ NoNewline(taken + 1, to - 1)
      BY <1>1, <2>1, <3>2, <3>3 DEF NoNewline
    <3>5. QED BY <1>1, <3>2, <3>3, <3>4
  <2>4. QED BY <2>2, <2>3
<1>6. QED BY <1>4, <1>5

-----------------------------------------------------------------------------
(* The invariant is inductive.                                              *)

LEMMA EntryMade ==
    \A as \in {"line", "oversized", "end"}, from, to \in Nat :
        [as |-> as, from |-> from + 1, to |-> to] \in Entry
<1>1. \A as \in {"line", "oversized", "end"}, from, to \in Nat :
        [as |-> as, from |-> from, to |-> to] \in Entry
  BY DEF Entry
<1>2. \A from \in Nat : from + 1 \in Nat
  OBVIOUS
<1>3. QED BY <1>1, <1>2

LEMMA ReaderStarts == ReaderInit => ReaderInv
<1>1. SUFFICES ASSUME ReaderInit PROVE ReaderInv
  OBVIOUS
<1>2. /\ kind \in {"async", "blocking"} /\ stream \in Seq({"byte", "newline"})
      /\ arrived = 0 /\ eof = FALSE /\ paused = FALSE /\ taken = 0 /\ start = 0
      /\ call = "idle" /\ out = <<>> /\ Len(stream) \in Nat
  <2>1. kind \in {"async", "blocking"} /\ stream \in Seq({"byte", "newline"})
    BY <1>1, LineReaderAssumption DEF ReaderInit
  <2>2. PICK s \in Seq({"byte", "newline"}) : s = stream
    BY <2>1
  <2>3. Len(s) \in Nat
    BY LenProperties
  <2>4. QED BY <1>1, <2>1, <2>2, <2>3 DEF ReaderInit
<1>3. out \in Seq(Entry) /\ Len(out) = 0 /\ ~AtEnd
  BY <1>2, EmptySeq DEF AtEnd
<1>4. ReaderTypes
  <2>1. taken <= arrived /\ arrived <= Len(stream) /\ arrived \in Nat /\ taken \in Nat /\ start \in Nat
    BY <1>2
  <2>2. paused \in BOOLEAN /\ ~eof
    BY <1>2
  <2>3. QED BY <1>2, <1>3, <2>1, <2>2 DEF ReaderTypes
<1>5. Buffered
  BY <1>2, LimitFacts DEF Buffered
<1>6. Draining
  BY <1>2 DEF Draining
<1>7. Resting /\ Pieced
  BY <1>2, <1>3 DEF Resting, Pieced, Told
<1>8. Whole
  BY <1>2 DEF Whole, IsLine, Told
<1>9. QED BY <1>4, <1>5, <1>6, <1>7, <1>8 DEF ReaderInv

LEMMA ReaderTypeFacts ==
    ASSUME ReaderTypes
    PROVE  /\ Len(stream) \in Nat /\ Len(out) \in Nat /\ Told \in Nat
           /\ \A k \in 1..Len(out) : out[k] \in Entry
           /\ (out # <<>> <=> Len(out) # 0) /\ DOMAIN out = 1..Len(out)
<1>1. PICK s \in Seq({"byte", "newline"}), o \in Seq(Entry) : s = stream /\ o = out
  BY DEF ReaderTypes
<1>2. Len(s) \in Nat /\ Len(o) \in Nat /\ \A k \in 1..Len(o) : o[k] \in Entry
  BY LenProperties, ElementOfSeq
<1>3. (o # <<>> <=> Len(o) # 0) /\ DOMAIN o = 1..Len(o)
  BY EmptySeq, LenProperties
<1>4. QED BY <1>1, <1>2, <1>3 DEF ReaderTypes, Told

LEMMA FeedKeeps == ReaderInv /\ (Feed \/ FeedEof) => ReaderInv'
<1>1. SUFFICES ASSUME ReaderInv, Feed \/ FeedEof PROVE ReaderInv'
  OBVIOUS
<1>2. ReaderTypes /\ Buffered /\ Draining /\ Resting /\ Pieced /\ Whole
  BY <1>1 DEF ReaderInv
<1>3. UNCHANGED <<kind, stream, taken, start, call, out>>
  BY <1>1 DEF Feed, FeedEof, source
<1>4. ReaderTypes' /\ Buffered'
  <2>1. CASE Feed
    <3>1. PICK n \in 1..PipeChunk :
             arrived + n <= Len(stream) /\ arrived' = arrived + n /\ paused' = Pauses(arrived + n - taken)
      BY <2>1 DEF Feed
    <3>2. ~paused /\ ~eof /\ eof' = eof
      BY <2>1 DEF Feed
    <3>3. arrived' \in Nat /\ taken <= arrived' /\ arrived' <= Len(stream)
      BY <1>2, <3>1, LimitFacts DEF ReaderTypes
    <3>4. paused' \in BOOLEAN
      BY <3>1 DEF Pauses
    <3>5. ReaderTypes'
      BY <1>2, <1>3, <3>2, <3>3, <3>4 DEF ReaderTypes
    <3>6. kind = "async" => arrived' - taken <= 2 * Limit + (IF paused' THEN PipeChunk ELSE 0)
      <4>1. SUFFICES ASSUME kind = "async"
                     PROVE  arrived' - taken <= 2 * Limit + (IF paused' THEN PipeChunk ELSE 0)
        OBVIOUS
      <4>2. arrived - taken <= 2 * Limit
        BY <1>2, <3>2, <4>1, LimitFacts DEF Buffered, ReaderTypes
      <4>3. paused' <=> arrived + n - taken > 2 * Limit
        BY <3>1, <4>1 DEF Pauses
      <4>4. CASE paused'
        BY <1>2, <3>1, <4>2, <4>4, LimitFacts DEF ReaderTypes
      <4>5. CASE ~paused'
        <5>1. ~(arrived + n - taken > 2 * Limit)
          BY <4>3, <4>5
        <5>2. QED BY <1>2, <3>1, <4>5, <5>1, LimitFacts DEF ReaderTypes
      <4>6. QED BY <4>4, <4>5
    <3>7. QED BY <1>3, <3>5, <3>6 DEF Buffered
  <2>2. CASE FeedEof
    <3>1. arrived = Len(stream) /\ UNCHANGED <<arrived, paused>>
      BY <2>2 DEF FeedEof
    <3>2. QED BY <1>2, <1>3, <3>1 DEF ReaderTypes, Buffered
  <2>3. QED BY <1>1, <2>1, <2>2
<1>5. Draining' /\ Resting' /\ Pieced' /\ Whole'
  BY <1>2, <1>3, SMTT(30) DEF Draining, Resting, Pieced, Whole, NoNewline, BeginsAt, EndsAt, IsLine, Fits, Told, AtEnd
<1>6. QED BY <1>4, <1>5 DEF ReaderInv

LEMMA CallKeeps == ReaderInv /\ Call => ReaderInv'
<1>1. SUFFICES ASSUME ReaderInv, Call PROVE ReaderInv'
  OBVIOUS
<1>2. ReaderTypes /\ Buffered /\ Draining /\ Resting /\ Pieced /\ Whole
  BY <1>1 DEF ReaderInv
<1>3. /\ call = "idle" /\ call' = "read" /\ ~AtEnd
      /\ UNCHANGED <<kind, stream, arrived, eof, paused, taken, start, out>>
  BY <1>1 DEF Call, source, pipe
<1>4. Told' = Told /\ Told = taken /\ ~AtEnd'
  BY <1>3 DEF Told, AtEnd
<1>5. ReaderTypes' /\ Buffered' /\ Draining'
  BY <1>2, <1>3 DEF ReaderTypes, Buffered, Draining
<1>6. Resting'
  BY <1>2, <1>3, <1>4 DEF Resting, EndsAt, NoNewline
<1>7. Pieced' /\ Whole'
  BY <1>2, <1>3, <1>4 DEF Pieced, Whole, NoNewline, BeginsAt, EndsAt, IsLine, Fits
<1>8. QED BY <1>5, <1>6, <1>7 DEF ReaderInv

\* ReaderTypes and the buffer, after any return.
LEMMA ReturnTypes ==
    \A as \in {"line", "oversized", "end"}, from, to \in Nat :
        ReaderTypes /\ Buffered /\ Return(as, from, to) /\ taken <= to /\ to <= arrived =>
            ReaderTypes' /\ Buffered' /\ Draining'
<1>1. SUFFICES ASSUME NEW as \in {"line", "oversized", "end"}, NEW from \in Nat, NEW to \in Nat,
                      ReaderTypes, Buffered, Return(as, from, to), taken <= to, to <= arrived
               PROVE  ReaderTypes' /\ Buffered' /\ Draining'
  OBVIOUS
<1> DEFINE e == [as |-> as, from |-> from + 1, to |-> to]
<1>2. /\ out' = Append(out, e) /\ taken' = to /\ paused' = StillPaused(to) /\ call' = "idle"
      /\ UNCHANGED <<kind, stream, arrived, eof, start>>
  BY <1>1 DEF Return, source, pipe
<1>3. e \in Entry
  BY <1>1, EntryMade
<1> HIDE DEF e
<1>4. out' \in Seq(Entry)
  BY <1>1, <1>2, <1>3, AppendProperties DEF ReaderTypes
<1>5. paused' \in BOOLEAN
  BY <1>1, <1>2 DEF StillPaused, ReaderTypes
<1>6. ReaderTypes'
  BY <1>1, <1>2, <1>4, <1>5 DEF ReaderTypes
<1>7. kind = "async" => arrived - to <= 2 * Limit + (IF paused' THEN PipeChunk ELSE 0)
  <2>1. SUFFICES ASSUME kind = "async"
                 PROVE  arrived - to <= 2 * Limit + (IF paused' THEN PipeChunk ELSE 0)
    OBVIOUS
  <2>2. arrived \in Nat /\ taken \in Nat /\ arrived - to <= arrived - taken
    BY <1>1 DEF ReaderTypes
  <2>3. CASE paused'
    <3>1. paused
      BY <1>2, <2>3 DEF StillPaused
    <3>2. arrived - taken <= 2 * Limit + PipeChunk
      BY <1>1, <2>1, <3>1 DEF Buffered
    <3>3. QED BY <2>2, <2>3, <3>2, LimitFacts
  <2>4. CASE ~paused'
    <3>1. CASE paused
      <4>1. ~(arrived - to > Limit)
        BY <1>2, <2>4, <3>1 DEF StillPaused
      <4>2. QED BY <2>2, <2>4, <4>1, LimitFacts
    <3>2. CASE ~paused
      <4>1. arrived - taken <= 2 * Limit
        BY <1>1, <2>1, <3>2, LimitFacts, <2>2 DEF Buffered
      <4>2. QED BY <2>2, <2>4, <4>1, LimitFacts
    <3>3. QED BY <3>1, <3>2
  <2>5. QED BY <2>3, <2>4
<1>8. Buffered' /\ Draining'
  BY <1>2, <1>7 DEF Buffered, Draining
<1>9. QED BY <1>6, <1>8

LEMMA OutGrows ==
    \A as \in {"line", "oversized", "end"}, from, to \in Nat :
        ReaderTypes /\ Return(as, from, to) =>
            /\ Len(out') = Len(out) + 1 /\ Len(out) \in Nat /\ Told' = to /\ call' = "idle"
            /\ out'[Len(out) + 1] = [as |-> as, from |-> from + 1, to |-> to]
            /\ \A k \in 1..Len(out) : out'[k] = out[k] /\ out[k] \in Entry
            /\ UNCHANGED <<kind, stream>> /\ Told \in Nat /\ Len(stream) \in Nat
            /\ out' # <<>>
<1>1. SUFFICES ASSUME NEW as \in {"line", "oversized", "end"}, NEW from \in Nat, NEW to \in Nat,
                      ReaderTypes, Return(as, from, to)
               PROVE  /\ Len(out') = Len(out) + 1 /\ Len(out) \in Nat /\ Told' = to /\ call' = "idle"
                      /\ out'[Len(out) + 1] = [as |-> as, from |-> from + 1, to |-> to]
                      /\ \A k \in 1..Len(out) : out'[k] = out[k] /\ out[k] \in Entry
                      /\ UNCHANGED <<kind, stream>> /\ Told \in Nat /\ Len(stream) \in Nat
                      /\ out' # <<>>
  OBVIOUS
<1> DEFINE e == [as |-> as, from |-> from + 1, to |-> to]
<1>2. /\ out' = Append(out, e) /\ taken' = to /\ call' = "idle" /\ UNCHANGED <<kind, stream>>
  BY <1>1 DEF Return, source
<1>3. e \in Entry
  BY <1>1, EntryMade
<1> HIDE DEF e
<1>4. PICK o \in Seq(Entry) : o = out
  BY <1>1 DEF ReaderTypes
<1>5. /\ Append(o, e) \in Seq(Entry) /\ Len(Append(o, e)) = Len(o) + 1 /\ Len(o) \in Nat
      /\ Append(o, e)[Len(o) + 1] = e /\ \A k \in 1..Len(o) : Append(o, e)[k] = o[k]
  BY <1>3, AppendProperties, LenProperties
<1>6. Append(o, e) # <<>>
  BY <1>5, EmptySeq
<1>7. Told' = to
  BY <1>2 DEF Told
<1>8. \A k \in 1..Len(out) : out[k] \in Entry
  BY <1>1, ReaderTypeFacts
<1>9. Told \in Nat /\ Len(stream) \in Nat
  BY <1>1, ReaderTypeFacts
<1>10. QED BY <1>2, <1>4, <1>5, <1>6, <1>7, <1>8, <1>9 DEF e

\* A line, or the report of an oversized one, that begins behind what was told.
LEMMA ReturnKeeps ==
    \A as \in {"line", "oversized"}, to \in Nat :
        /\ ReaderInv /\ call # "idle" /\ Return(as, Told, to)
        /\ taken <= to /\ to <= arrived /\ Told < to /\ NoNewline(Told + 1, to - 1)
        /\ EndsAt(to) \/ (kind = "async" /\ as = "oversized" /\ NoNewline(Told + 1, to))
        /\ as = "oversized" => to - Told >= Limit + (IF stream[to] = "newline" THEN 1 ELSE 0)
        => ReaderInv'
<1>1. SUFFICES
        ASSUME NEW as \in {"line", "oversized"}, NEW to \in Nat,
               ReaderInv, call # "idle", Return(as, Told, to),
               taken <= to, to <= arrived, Told < to, NoNewline(Told + 1, to - 1),
               EndsAt(to) \/ (kind = "async" /\ as = "oversized" /\ NoNewline(Told + 1, to)),
               as = "oversized" => to - Told >= Limit + (IF stream[to] = "newline" THEN 1 ELSE 0)
        PROVE  ReaderInv'
  OBVIOUS
<1>2. ReaderTypes /\ Buffered /\ Draining /\ Resting /\ Pieced /\ Whole
  BY <1>1 DEF ReaderInv
<1> DEFINE n == Len(out) + 1
           e == [as |-> as, from |-> Told + 1, to |-> to]
<1>3. Told \in Nat /\ as \in {"line", "oversized", "end"} /\ Len(out) \in Nat /\ Len(stream) \in Nat
  BY <1>1, <1>2, ReaderTypeFacts
<1>4. /\ Len(out') = n /\ Told' = to /\ call' = "idle" /\ out'[n] = e
      /\ \A k \in 1..Len(out) : out'[k] = out[k] /\ out[k] \in Entry
      /\ UNCHANGED <<kind, stream>> /\ out' # <<>>
  <2>1. PICK told \in Nat : told = Told
    BY <1>3
  <2>2. Return(as, told, to)
    BY <1>1, <2>1
  <2>3. /\ Len(out') = Len(out) + 1 /\ Told' = to /\ call' = "idle"
        /\ out'[Len(out) + 1] = [as |-> as, from |-> told + 1, to |-> to]
        /\ \A k \in 1..Len(out) : out'[k] = out[k] /\ out[k] \in Entry
        /\ UNCHANGED <<kind, stream>> /\ out' # <<>>
    <3>1. ReaderTypes /\ Return(as, told, to) =>
            /\ Len(out') = Len(out) + 1 /\ Len(out) \in Nat /\ Told' = to /\ call' = "idle"
            /\ out'[Len(out) + 1] = [as |-> as, from |-> told + 1, to |-> to]
            /\ \A k \in 1..Len(out) : out'[k] = out[k] /\ out[k] \in Entry
            /\ UNCHANGED <<kind, stream>> /\ Told \in Nat /\ Len(stream) \in Nat
            /\ out' # <<>>
      BY <1>3, OutGrows, Zenon
    <3>2. QED BY <1>2, <2>2, <3>1, Zenon
  <2>4. QED BY <2>1, <2>3
<1>5. e.as = as /\ e.from = Told + 1 /\ e.to = to
  OBVIOUS
<1>6. ReaderTypes' /\ Buffered' /\ Draining'
  BY <1>1, <1>2, <1>3, ReturnTypes
<1>7. ~AtEnd
  BY <1>1, <1>2 DEF Resting
<1>8. to <= Len(stream)
  BY <1>1, <1>2, <1>3 DEF ReaderTypes
<1> HIDE DEF e
<1>9. n \in Nat /\ n # 0 /\ \A k \in 1..n : k # n => k \in 1..Len(out)
  BY <1>3
<1> HIDE DEF n
<1>10. Resting'
  <2>1. ~AtEnd'
    BY <1>1, <1>4, <1>5 DEF AtEnd
  <2>2. /\ Len(out') # 0 /\ out'[Len(out')].to = Told'
        /\ out'[Len(out')].as = as /\ out'[Len(out')].from = Told + 1
    BY <1>4, <1>5, <1>9
  <2>3. EndsAt(to) => EndsAt(Told)'
    BY <1>4 DEF EndsAt
  <2>4. NoNewline(Told + 1, to) => NoNewline(out[Len(out)].from, Told)'
    BY <1>4, <2>2 DEF NoNewline
  <2>5. QED BY <1>1, <1>4, <2>1, <2>2, <2>3, <2>4 DEF Resting
<1>11. Pieced'
  <2>1. SUFFICES ASSUME NEW k \in 1..n, out'[k].as # "end"
                 PROVE
        /\ 1 <= out'[k].from /\ out'[k].from <= out'[k].to /\ out'[k].to <= Len(stream)
        /\ NoNewline(out'[k].from, out'[k].to - 1)
        /\ \/ BeginsAt(out'[k].from)
           \/ /\ kind = "async" /\ k > 1 /\ out'[k - 1].as = "oversized"
              /\ NoNewline(out'[k - 1].from, out'[k].from - 1) /\ out'[k - 1].to = out'[k].from - 1
        /\ EndsAt(out'[k].to) \/ (kind = "async" /\ out'[k].as = "oversized")
    BY <1>4 DEF Pieced, NoNewline, BeginsAt, EndsAt
  <2>2. CASE k # n
    <3>1. k \in 1..Len(out) /\ out'[k] = out[k]
      BY <1>4, <1>9, <2>2
    <3>2. k > 1 => k - 1 \in 1..Len(out) /\ out'[k - 1] = out[k - 1]
      BY <1>3, <1>4, <3>1
    <3>3. QED BY <1>2, <2>1, <3>1, <3>2 DEF Pieced
  <2>3. CASE k = n
    <3>1. out'[k].as = as /\ out'[k].from = Told + 1 /\ out'[k].to = to
      BY <1>4, <1>5, <2>3
    <3>2. /\ 1 <= Told + 1 /\ Told + 1 <= to /\ to <= Len(stream)
      BY <1>1, <1>3, <1>8
    <3>3. (Told + 1) - 1 = Told
      BY <1>3
    <3>4. \/ BeginsAt(Told + 1)
          \/ /\ kind = "async" /\ k > 1 /\ out'[k - 1].as = "oversized"
             /\ NoNewline(out'[k - 1].from, Told) /\ out'[k - 1].to = Told
      <4>1. CASE Told = 0
        BY <4>1 DEF BeginsAt
      <4>2. CASE EndsAt(Told) /\ Told # 0
        <5>1. Told # Len(stream)
          BY <1>1, <1>3, <1>8
        <5>2. QED BY <3>3, <4>2, <5>1 DEF EndsAt, BeginsAt
      <4>3. CASE /\ kind = "async" /\ Len(out) # 0
                 /\ out[Len(out)].as = "oversized" /\ NoNewline(out[Len(out)].from, Told)
        <5>1. k > 1 /\ k - 1 = Len(out) /\ Len(out) \in 1..Len(out)
          BY <1>3, <2>3, <4>3 DEF n
        <5>2. out'[k - 1] = out[Len(out)]
          BY <1>4, <5>1
        <5>3. out[Len(out)].to = Told
          BY <1>2, <4>3 DEF Resting
        <5>4. QED BY <4>3, <5>1, <5>2, <5>3
      <4>4. QED BY <1>2, <1>7, <4>1, <4>2, <4>3 DEF Resting
    <3>5. QED BY <1>1, <3>1, <3>2, <3>3, <3>4
  <2>4. QED BY <2>2, <2>3
<1>12. Whole'
  <2>1. SUFFICES ASSUME NEW a \in Nat, NEW b \in Nat, IsLine(a, b), Fits(a, b), a <= to
                 PROVE  \E k \in 1..n : out'[k] = [as |-> "line", from |-> a, to |-> b]
    BY <1>4 DEF Whole, IsLine, Fits, NoNewline, BeginsAt, EndsAt
  <2>2. CASE a <= Told
    <3>1. PICK k \in 1..Len(out) : out[k] = [as |-> "line", from |-> a, to |-> b]
      BY <1>2, <2>1, <2>2 DEF Whole
    <3>2. k \in 1..n
      BY <1>3 DEF n
    <3>3. QED BY <1>4, <3>1, <3>2
  <2>3. CASE ~(a <= Told)
    <3>1. a = Told + 1
      <4>1. ASSUME a # Told + 1 PROVE FALSE
        <5>1. a - 1 \in Nat /\ Told + 1 <= a - 1 /\ a - 1 <= to - 1 /\ a # 1
          BY <1>3, <2>1, <2>3, <4>1
        <5>2. stream[a - 1] = "newline"
          BY <2>1, <5>1 DEF IsLine, BeginsAt
        <5>3. QED BY <1>1, <5>1, <5>2 DEF NoNewline
      <4>2. QED BY <4>1
    <3>2. b >= to
      <4>1. ASSUME b < to PROVE FALSE
        <5>1. Told + 1 <= b /\ b <= to - 1 /\ b # Len(stream)
          BY <1>3, <1>8, <2>1, <3>1, <4>1 DEF IsLine
        <5>2. stream[b] = "newline"
          BY <2>1, <5>1 DEF IsLine, EndsAt
        <5>3. QED BY <1>1, <5>1, <5>2 DEF NoNewline
      <4>2. QED BY <4>1
    <3>3. as = "line"
      <4>1. SUFFICES ASSUME as = "oversized" PROVE FALSE
        BY <1>1
      <4>2. to - Told >= Limit + (IF stream[to] = "newline" THEN 1 ELSE 0)
        BY <1>1, <4>1
      <4>3. b - a + 1 < Limit + (IF stream[b] = "newline" THEN 1 ELSE 0)
        BY <2>1 DEF Fits
      <4>4. CASE b = to
        BY <1>3, <3>1, <4>2, <4>3, <4>4, LimitFacts
      <4>5. CASE b > to
        BY <1>3, <3>1, <4>2, <4>3, <4>5, LimitFacts
      <4>6. QED BY <3>2, <4>4, <4>5
    <3>4. b = to
      <4>1. EndsAt(to)
        BY <1>1, <3>3
      <4>2. ASSUME b > to PROVE FALSE
        <5>1. to # Len(stream)
          BY <1>3, <1>8, <2>1, <4>2 DEF IsLine
        <5>2. stream[to] = "newline" /\ a <= to /\ to <= b - 1
          BY <2>1, <4>1, <4>2, <5>1 DEF EndsAt
        <5>3. QED BY <2>1, <5>2 DEF IsLine, NoNewline
      <4>3. QED BY <3>2, <4>2
    <3>5. out'[n] = [as |-> "line", from |-> a, to |-> b] /\ n \in 1..n
      BY <1>4, <1>9, <3>1, <3>3, <3>4 DEF e
    <3>6. QED BY <3>5
  <2>4. QED BY <2>2, <2>3
<1>13. QED BY <1>6, <1>10, <1>11, <1>12 DEF ReaderInv

\* The end of the stream, also in the middle of an oversized line.
LEMMA EndKeeps == ReaderInv /\ call # "idle" /\ Return("end", taken, taken) => ReaderInv'
<1>1. SUFFICES ASSUME ReaderInv, call # "idle", Return("end", taken, taken) PROVE ReaderInv'
  OBVIOUS
<1>2. ReaderTypes /\ Buffered /\ Draining /\ Resting /\ Pieced /\ Whole /\ taken \in Nat /\ arrived \in Nat
  BY <1>1 DEF ReaderInv, ReaderTypes
<1> DEFINE n == Len(out) + 1
           e == [as |-> "end", from |-> taken + 1, to |-> taken]
<1>3. /\ Len(out') = n /\ Told' = taken /\ call' = "idle" /\ out'[n] = e
      /\ \A k \in 1..Len(out) : out'[k] = out[k] /\ out[k] \in Entry
      /\ UNCHANGED <<kind, stream>> /\ out' # <<>> /\ Len(out) \in Nat /\ Told \in Nat
      /\ Len(stream) \in Nat
  BY <1>1, <1>2, OutGrows
<1>4. e.as = "end" /\ e.to = taken
  OBVIOUS
<1> HIDE DEF e
<1>5. ReaderTypes' /\ Buffered' /\ Draining'
  <2>1. taken <= taken /\ taken <= arrived
    BY <1>2 DEF ReaderTypes
  <2>2. QED BY <1>1, <1>2, <2>1, ReturnTypes
<1>6. Resting'
  <2>1. AtEnd'
    BY <1>3, <1>4 DEF AtEnd
  <2>2. Len(out') # 0 /\ out'[Len(out')].to = Told'
    BY <1>3, <1>4
  <2>3. QED BY <1>3, <2>1, <2>2 DEF Resting
<1>7. \A k \in 1..n : k # n => k \in 1..Len(out)
  BY <1>3
<1>8. Pieced'
  <2>1. SUFFICES ASSUME NEW k \in 1..n, out'[k].as # "end"
                 PROVE
        /\ 1 <= out'[k].from /\ out'[k].from <= out'[k].to /\ out'[k].to <= Len(stream)
        /\ NoNewline(out'[k].from, out'[k].to - 1)
        /\ \/ BeginsAt(out'[k].from)
           \/ /\ kind = "async" /\ k > 1 /\ out'[k - 1].as = "oversized"
              /\ NoNewline(out'[k - 1].from, out'[k].from - 1) /\ out'[k - 1].to = out'[k].from - 1
        /\ EndsAt(out'[k].to) \/ (kind = "async" /\ out'[k].as = "oversized")
    BY <1>3 DEF Pieced, NoNewline, BeginsAt, EndsAt
  <2>2. k # n
    BY <1>3, <1>4, <2>1
  <2>3. k \in 1..Len(out) /\ out'[k] = out[k]
    BY <1>3, <1>7, <2>2
  <2>4. k > 1 => k - 1 \in 1..Len(out) /\ out'[k - 1] = out[k - 1]
    BY <1>3, <2>3
  <2>5. QED BY <1>2, <2>1, <2>3, <2>4 DEF Pieced
<1>9. Whole'
  <2>1. SUFFICES ASSUME NEW a \in Nat, NEW b \in Nat, IsLine(a, b), Fits(a, b), a <= taken
                 PROVE  \E k \in 1..n : out'[k] = [as |-> "line", from |-> a, to |-> b]
    BY <1>3 DEF Whole, IsLine, Fits, NoNewline, BeginsAt, EndsAt
  <2>2. a <= Told
    <3>1. SUFFICES ASSUME Told < a PROVE FALSE
      BY <1>3
    <3>2. call = "drain" /\ Told = start
      BY <1>2, <2>1, <3>1 DEF Told
    <3>3. start + Limit <= taken /\ NoNewline(start + 1, taken) /\ start \in Nat
      BY <1>2, <3>2 DEF Draining, ReaderTypes
    <3>4. a = start + 1
      <4>1. ASSUME a # start + 1 PROVE FALSE
        <5>1. a - 1 \in Nat /\ start + 1 <= a - 1 /\ a - 1 <= taken /\ a # 1
          BY <1>2, <2>1, <3>1, <3>2, <3>3, <4>1
        <5>2. stream[a - 1] = "newline"
          BY <2>1, <5>1 DEF IsLine, BeginsAt
        <5>3. QED BY <3>3, <5>1, <5>2 DEF NoNewline
      <4>2. QED BY <4>1
    <3>5. b >= taken
      <4>1. ASSUME b < taken PROVE FALSE
        <5>1. start + 1 <= b /\ b <= taken /\ b # Len(stream)
          BY <1>2, <1>3, <2>1, <3>4, <4>1 DEF IsLine, ReaderTypes
        <5>2. stream[b] = "newline"
          BY <2>1, <5>1 DEF IsLine, EndsAt
        <5>3. QED BY <3>3, <5>1, <5>2 DEF NoNewline
      <4>2. QED BY <1>2, <4>1
    <3>6. b = taken => stream[b] # "newline"
      <4>1. b = taken => start + 1 <= b /\ b <= taken
        BY <1>2, <2>1, <3>4 DEF IsLine
      <4>2. QED BY <3>3, <4>1 DEF NoNewline
    <3>7. b - a + 1 < Limit + (IF stream[b] = "newline" THEN 1 ELSE 0)
      BY <2>1 DEF Fits
    <3>8. CASE stream[b] = "newline"
      <4>1. b > taken
        BY <1>2, <3>5, <3>6, <3>8
      <4>2. QED BY <1>2, <3>3, <3>4, <3>7, <3>8, <4>1, LimitFacts
    <3>9. CASE stream[b] # "newline"
      BY <1>2, <3>3, <3>4, <3>5, <3>7, <3>9, LimitFacts
    <3>10. QED BY <3>8, <3>9
  <2>3. PICK k \in 1..Len(out) : out[k] = [as |-> "line", from |-> a, to |-> b]
    BY <1>2, <2>1, <2>2 DEF Whole
  <2>4. k \in 1..n
    BY <1>3
  <2>5. QED BY <1>3, <2>3, <2>4
<1>10. QED BY <1>5, <1>6, <1>8, <1>9 DEF ReaderInv

LEMMA AsyncLineKeeps == ReaderInv /\ AsyncLine => ReaderInv'
<1>1. SUFFICES ASSUME ReaderInv, AsyncLine PROVE ReaderInv'
  OBVIOUS
<1>2. ReaderTypes /\ kind = "async" /\ call = "read"
  BY <1>1 DEF ReaderInv, AsyncLine
<1>3. /\ Told = taken /\ taken \in Nat /\ arrived \in Nat /\ taken + 1 \in Nat
      /\ arrived <= Len(stream) /\ Len(stream) \in Nat
  BY <1>2, ReaderTypeFacts DEF ReaderTypes, Told
<1>4. PICK to : to = Min(Newlines(taken + 1, arrived))
  OBVIOUS
<1>5. Return(IF to - taken - 1 > Limit THEN "oversized" ELSE "line", Told, to)
  BY <1>1, <1>3, <1>4 DEF AsyncLine
<1>6. to \in (taken + 1)..arrived /\ stream[to] = "newline" /\ NoNewline(taken + 1, to - 1)
  BY <1>1, <1>3, <1>4, FirstNewline DEF AsyncLine
<1>7. to \in Nat /\ taken <= to /\ to <= arrived /\ Told < to
  BY <1>3, <1>6
<1>8. EndsAt(to) /\ NoNewline(Told + 1, to - 1) /\ call # "idle"
  BY <1>2, <1>3, <1>6 DEF EndsAt
<1>9. CASE to - taken - 1 > Limit
  <2>1. to - Told >= Limit + (IF stream[to] = "newline" THEN 1 ELSE 0)
    BY <1>3, <1>6, <1>7, <1>9, LimitFacts
  <2>2. Return("oversized", Told, to)
    BY <1>5, <1>9
  <2>3. QED BY <1>1, <1>7, <1>8, <2>1, <2>2, ReturnKeeps
<1>10. CASE ~(to - taken - 1 > Limit)
  <2>1. Return("line", Told, to)
    BY <1>5, <1>10
  <2>2. QED BY <1>1, <1>7, <1>8, <2>1, ReturnKeeps
<1>11. QED BY <1>9, <1>10

LEMMA AsyncClearKeeps == ReaderInv /\ AsyncClear => ReaderInv'
<1>1. SUFFICES ASSUME ReaderInv, AsyncClear PROVE ReaderInv'
  OBVIOUS
<1>2. ReaderTypes /\ kind = "async" /\ call = "read"
  BY <1>1 DEF ReaderInv, AsyncClear
<1>3. /\ Told = taken /\ taken \in Nat /\ arrived \in Nat /\ taken + 1 \in Nat
      /\ taken <= arrived
  BY <1>2, ReaderTypeFacts DEF ReaderTypes, Told
<1>4. NoNewline(taken + 1, arrived) /\ arrived - taken > Limit /\ Return("oversized", Told, arrived)
  BY <1>1, <1>3, NoneFound DEF AsyncClear, AsyncOverrun
<1>5. Told < arrived /\ arrived - Told >= Limit /\ stream[arrived] # "newline"
  BY <1>3, <1>4, LimitFacts DEF NoNewline
<1>6. NoNewline(Told + 1, arrived) /\ NoNewline(Told + 1, arrived - 1)
  BY <1>3, <1>4 DEF NoNewline
<1>7. arrived - Told >= Limit + (IF stream[arrived] = "newline" THEN 1 ELSE 0)
  BY <1>3, <1>5, LimitFacts
<1>8. arrived <= arrived
  BY <1>3
<1>9. QED BY <1>1, <1>2, <1>3, <1>4, <1>5, <1>6, <1>7, <1>8, ReturnKeeps

LEMMA AsyncEofKeeps == ReaderInv /\ AsyncEof => ReaderInv'
<1>1. SUFFICES ASSUME ReaderInv, AsyncEof PROVE ReaderInv'
  OBVIOUS
<1>2. ReaderTypes /\ kind = "async" /\ call = "read" /\ eof
  BY <1>1 DEF ReaderInv, AsyncEof
<1>3. /\ Told = taken /\ taken \in Nat /\ arrived \in Nat /\ taken + 1 \in Nat
      /\ taken <= arrived /\ arrived = Len(stream)
  BY <1>2, ReaderTypeFacts DEF ReaderTypes, Told
<1>4. /\ NoNewline(taken + 1, arrived)
      /\ Return(IF taken = arrived THEN "end" ELSE "line", Told, arrived)
  BY <1>1, <1>3, NoneFound DEF AsyncEof
<1>5. CASE taken = arrived
  <2>1. Return("end", taken, taken)
    BY <1>3, <1>4, <1>5
  <2>2. QED BY <1>1, <1>2, <2>1, EndKeeps
<1>6. CASE taken # arrived
  <2>1. Return("line", Told, arrived)
    BY <1>4, <1>6
  <2>2. Told < arrived /\ arrived <= arrived /\ EndsAt(arrived)
    BY <1>3, <1>6 DEF EndsAt
  <2>3. NoNewline(Told + 1, arrived - 1)
    BY <1>3, <1>4 DEF NoNewline
  <2>4. QED BY <1>1, <1>2, <1>3, <2>1, <2>2, <2>3, ReturnKeeps
<1>7. QED BY <1>5, <1>6

LEMMA ThreadReadKeeps == ReaderInv /\ ThreadRead => ReaderInv'
<1>1. SUFFICES ASSUME ReaderInv, ThreadRead PROVE ReaderInv'
  OBVIOUS
<1>2. /\ ReaderTypes /\ Buffered /\ Draining /\ Resting /\ Pieced /\ Whole
      /\ kind = "blocking" /\ call = "read"
  BY <1>1 DEF ReaderInv, ThreadRead
<1>3. /\ Told = taken /\ taken \in Nat /\ arrived \in Nat /\ taken + 1 \in Nat
      /\ taken <= arrived /\ arrived <= Len(stream) /\ Len(stream) \in Nat
  BY <1>2, ReaderTypeFacts DEF ReaderTypes, Told
<1>4. PICK to \in Stops(Limit) :
        IF IsFull(to, Limit)
        THEN /\ call' = "drain" /\ start' = taken /\ taken' = to
             /\ UNCHANGED <<source, pipe, paused, out>>
        ELSE Return(IF to = taken THEN "end" ELSE "line", taken, to)
  BY <1>1 DEF ThreadRead
<1>5. /\ to \in Nat /\ taken <= to /\ to <= arrived /\ NoNewline(taken + 1, to - 1)
      /\ \/ to > taken /\ stream[to] = "newline"
         \/ NoNewline(taken + 1, to) /\ to = taken + Limit
         \/ NoNewline(taken + 1, to) /\ to = Len(stream)
  BY <1>2, LimitFacts, StopsFacts
<1>6. CASE IsFull(to, Limit)
  <2>1. to = taken + Limit /\ stream[to] # "newline"
    BY <1>6 DEF IsFull
  <2>2. NoNewline(taken + 1, to)
    BY <1>5, <2>1
  <2>3. /\ call' = "drain" /\ start' = taken /\ taken' = to
        /\ UNCHANGED <<kind, stream, arrived, eof, paused, out>>
    BY <1>4, <1>6 DEF source, pipe
  <2>4. Told' = Told
    BY <1>3, <2>3 DEF Told
  <2>5. ReaderTypes' /\ Buffered'
    <3>1. ReaderTypes'
      BY <1>2, <1>5, <2>3 DEF ReaderTypes
    <3>2. Buffered'
      BY <1>2, <2>3 DEF Buffered
    <3>3. QED BY <3>1, <3>2
  <2>6. Draining'
    <3>1. taken + Limit <= to
      BY <1>3, <1>5, <2>1, LimitFacts
    <3>2. NoNewline(start + 1, taken)'
      BY <2>2, <2>3 DEF NoNewline
    <3>3. QED BY <1>2, <2>3, <3>1, <3>2 DEF Draining
  <2>7. Resting'
    <3>1. ~AtEnd
      BY <1>2 DEF Resting
    <3>2. AtEnd' = AtEnd
      BY <2>3 DEF AtEnd
    <3>3. EndsAt(Told)' = EndsAt(Told)
      BY <2>3, <2>4 DEF EndsAt
    <3>4. NoNewline(out[Len(out)].from, Told)' = NoNewline(out[Len(out)].from, Told)
      BY <2>3, <2>4 DEF NoNewline
    <3>5. QED BY <1>2, <2>3, <2>4, <3>1, <3>2, <3>3, <3>4 DEF Resting
  <2>8. Pieced' /\ Whole'
    BY <1>2, <2>3, <2>4 DEF Pieced, Whole, NoNewline, BeginsAt, EndsAt, IsLine, Fits
  <2>9. QED BY <2>5, <2>6, <2>7, <2>8 DEF ReaderInv
<1>7. CASE ~IsFull(to, Limit)
  <2>1. Return(IF to = taken THEN "end" ELSE "line", taken, to)
    BY <1>4, <1>7
  <2>2. CASE to = taken
    <3>1. Return("end", taken, taken)
      BY <2>1, <2>2
    <3>2. QED BY <1>1, <1>2, <3>1, EndKeeps
  <2>3. CASE to # taken
    <3>1. Return("line", Told, to) /\ Told < to
      BY <1>3, <1>5, <2>1, <2>3
    <3>2. EndsAt(to)
      BY <1>5, <1>7 DEF EndsAt, IsFull
    <3>3. NoNewline(Told + 1, to - 1) /\ call # "idle"
      BY <1>2, <1>3, <1>5
    <3>4. QED BY <1>1, <1>5, <3>1, <3>2, <3>3, ReturnKeeps
  <2>4. QED BY <2>2, <2>3
<1>8. QED BY <1>6, <1>7

LEMMA ThreadDrainKeeps == ReaderInv /\ ThreadDrain => ReaderInv'
<1>1. SUFFICES ASSUME ReaderInv, ThreadDrain PROVE ReaderInv'
  OBVIOUS
<1>2. ReaderTypes /\ Buffered /\ Draining /\ Resting /\ Pieced /\ Whole /\ call = "drain"
  BY <1>1 DEF ReaderInv, ThreadDrain
<1>3. /\ Told = start /\ start \in Nat /\ taken \in Nat /\ arrived \in Nat
      /\ start + Limit <= taken /\ NoNewline(start + 1, taken)
      /\ arrived <= Len(stream) /\ Len(stream) \in Nat
  BY <1>2, ReaderTypeFacts DEF ReaderTypes, Told, Draining
<1>4. PICK to \in Stops(DrainChunk) :
        IF DrainDone(to) THEN Return("oversized", start, to)
        ELSE taken' = to /\ UNCHANGED <<source, pipe, paused, start, call, out>>
  BY <1>1 DEF ThreadDrain
<1>5. /\ to \in Nat /\ taken <= to /\ to <= arrived /\ NoNewline(taken + 1, to - 1)
      /\ \/ to > taken /\ stream[to] = "newline"
         \/ NoNewline(taken + 1, to) /\ to = taken + DrainChunk
         \/ NoNewline(taken + 1, to) /\ to = Len(stream)
  BY <1>2, LimitFacts, StopsFacts
<1>6. NoNewline(start + 1, to - 1)
  <2>1. ASSUME NEW i \in Nat, start + 1 <= i, i <= to - 1 PROVE stream[i] # "newline"
    <3>1. CASE i <= taken
      BY <1>3, <2>1, <3>1 DEF NoNewline
    <3>2. CASE taken + 1 <= i
      BY <1>5, <2>1, <3>2 DEF NoNewline
    <3>3. QED BY <1>3, <3>1, <3>2
  <2>2. QED BY <2>1 DEF NoNewline
<1>7. CASE DrainDone(to)
  <2>1. Return("oversized", Told, to)
    BY <1>3, <1>4, <1>7
  <2>2. to = taken \/ stream[to] = "newline"
    BY <1>7 DEF DrainDone
  <2>3. Told < to /\ NoNewline(Told + 1, to - 1) /\ call # "idle"
    BY <1>2, <1>3, <1>5, <1>6, LimitFacts
  <2>4. EndsAt(to)
    <3>1. CASE stream[to] = "newline"
      BY <3>1 DEF EndsAt
    <3>2. CASE to = taken /\ stream[to] # "newline"
      BY <1>3, <1>5, <3>2, LimitFacts DEF EndsAt
    <3>3. QED BY <2>2, <3>1, <3>2
  <2>5. to - Told >= Limit + (IF stream[to] = "newline" THEN 1 ELSE 0)
    <3>1. CASE stream[to] = "newline"
      <4>1. to # taken
        BY <1>3, <2>3, <3>1 DEF NoNewline
      <4>2. QED BY <1>3, <1>5, <3>1, <4>1, LimitFacts
    <3>2. CASE stream[to] # "newline"
      BY <1>3, <1>5, <3>2, LimitFacts
    <3>3. QED BY <3>1, <3>2
  <2>6. QED BY <1>1, <1>5, <2>1, <2>3, <2>4, <2>5, ReturnKeeps
<1>8. CASE ~DrainDone(to)
  <2>1. taken' = to /\ UNCHANGED <<kind, stream, arrived, eof, paused, start, call, out>>
    BY <1>4, <1>8 DEF source, pipe
  <2>2. stream[to] # "newline"
    BY <1>8 DEF DrainDone
  <2>3. Told' = Told
    BY <1>2, <2>1 DEF Told
  <2>4. ReaderTypes' /\ Buffered'
    <3>1. ReaderTypes'
      BY <1>2, <1>5, <2>1 DEF ReaderTypes
    <3>2. Buffered'
      BY <1>2, <2>1 DEF Buffered, Draining
    <3>3. QED BY <3>1, <3>2
  <2>5. Draining'
    <3>1. start + Limit <= to
      BY <1>3, <1>5, LimitFacts
    <3>2. ASSUME NEW i \in Nat, start + 1 <= i, i <= to PROVE stream[i] # "newline"
      <4>1. CASE i <= to - 1
        BY <1>6, <3>2, <4>1 DEF NoNewline
      <4>2. CASE i = to
        BY <2>2, <4>2
      <4>3. QED BY <1>5, <3>2, <4>1, <4>2
    <3>3. NoNewline(start + 1, taken)'
      BY <2>1, <3>2 DEF NoNewline
    <3>4. QED BY <1>2, <2>1, <3>1, <3>3 DEF Draining
  <2>6. Resting'
    <3>1. ~AtEnd
      BY <1>2 DEF Resting
    <3>2. AtEnd' = AtEnd
      BY <2>1 DEF AtEnd
    <3>3. EndsAt(Told)' = EndsAt(Told)
      BY <2>1, <2>3 DEF EndsAt
    <3>4. NoNewline(out[Len(out)].from, Told)' = NoNewline(out[Len(out)].from, Told)
      BY <2>1, <2>3 DEF NoNewline
    <3>5. QED BY <1>2, <2>1, <2>3, <3>1, <3>2, <3>3, <3>4 DEF Resting
  <2>7. Pieced' /\ Whole'
    BY <1>2, <2>1, <2>3 DEF Pieced, Whole, NoNewline, BeginsAt, EndsAt, IsLine, Fits
  <2>8. QED BY <2>4, <2>5, <2>6, <2>7 DEF ReaderInv
<1>9. QED BY <1>7, <1>8

LEMMA StutterKeeps == ReaderInv /\ UNCHANGED readerVars => ReaderInv'
<1>1. SUFFICES ASSUME ReaderInv, UNCHANGED readerVars PROVE ReaderInv'
  OBVIOUS
<1>2. UNCHANGED <<kind, stream, arrived, eof, paused, taken, start, call, out>>
  BY <1>1 DEF readerVars, source, pipe
<1>3. ReaderTypes' /\ Buffered' /\ Draining' /\ Resting'
  BY <1>1, <1>2 DEF ReaderInv, ReaderTypes, Buffered, Draining, Resting, NoNewline, EndsAt, Told, AtEnd
<1>4. Pieced' /\ Whole'
  BY <1>1, <1>2 DEF ReaderInv, Pieced, Whole, NoNewline, BeginsAt, EndsAt, IsLine, Fits, Told
<1>5. QED BY <1>3, <1>4 DEF ReaderInv

LEMMA ReaderInvariance == ReaderSpec => []ReaderInv
<1>1. ReaderInit => ReaderInv
  BY ReaderStarts
<1>2. ReaderInv /\ [ReaderNext]_readerVars => ReaderInv'
  <2>1. SUFFICES ASSUME ReaderInv, [ReaderNext]_readerVars PROVE ReaderInv'
    OBVIOUS
  <2>2. CASE Feed \/ FeedEof
    BY <2>1, <2>2, FeedKeeps
  <2>3. CASE Call
    BY <2>1, <2>3, CallKeeps
  <2>4. CASE AsyncLine
    BY <2>1, <2>4, AsyncLineKeeps
  <2>5. CASE AsyncClear
    BY <2>1, <2>5, AsyncClearKeeps
  <2>6. CASE AsyncEof
    BY <2>1, <2>6, AsyncEofKeeps
  <2>7. CASE ThreadRead
    BY <2>1, <2>7, ThreadReadKeeps
  <2>8. CASE ThreadDrain
    BY <2>1, <2>8, ThreadDrainKeeps
  <2>9. CASE FileClosed
    BY <2>1, <2>9, EndKeeps DEF FileClosed
  <2>10. CASE Done \/ UNCHANGED readerVars
    BY <2>1, <2>10, StutterKeeps DEF Done
  <2>11. QED
    BY <2>1, <2>2, <2>3, <2>4, <2>5, <2>6, <2>7, <2>8, <2>9, <2>10 DEF ReaderNext, Reader
<1>3. QED BY <1>1, <1>2, PTL DEF ReaderSpec

-----------------------------------------------------------------------------
(* The properties.                                                          *)

\* The line of a byte, as the properties compute it.
LEMMA LineOf ==
    ASSUME ReaderTypes, NEW i \in 1..Len(stream)
    PROVE  /\ LineStart(i) \in 1..i /\ BeginsAt(LineStart(i)) /\ NoNewline(LineStart(i), i - 1)
           /\ LineEnd(i) \in i..Len(stream) /\ NoNewline(i, LineEnd(i) - 1) /\ EndsAt(LineEnd(i))
<1>1. Len(stream) \in Nat /\ i \in Nat /\ i - 1 \in Nat
  BY ReaderTypeFacts
<1>2. LineStart(i) \in 1..i /\ BeginsAt(LineStart(i)) /\ NoNewline(LineStart(i), i - 1)
  <2> DEFINE T == {0} \cup Newlines(1, i - 1)
  <2>1. T \in SUBSET Nat /\ T # {} /\ \A m \in T : m <= i - 1
    BY <1>1 DEF Newlines
  <2>2. Max(T) \in T /\ \A m \in T : Max(T) >= m
    BY <1>1, <2>1, GreatestNumber
  <2>3. \A m \in T : m \in Nat /\ (m = 0 \/ stream[m] = "newline")
    BY <1>1 DEF Newlines
  <2>4. ASSUME NEW j \in Nat, j > Max(T), j <= i - 1, stream[j] = "newline" PROVE FALSE
    <3>1. Max(T) \in Nat
      BY <2>2, <2>3
    <3>2. j \in 1..(i - 1)
      BY <1>1, <2>4, <3>1
    <3>3. j \in Newlines(1, i - 1)
      BY <2>4, <3>2 DEF Newlines
    <3>4. Max(T) >= j
      BY <2>2, <3>3
    <3>5. QED BY <2>4, <3>1, <3>4
  <2>5. PICK t : t = Max(T)
    OBVIOUS
  <2>6. t \in Nat /\ t <= i - 1 /\ (t = 0 \/ stream[t] = "newline")
    BY <2>1, <2>2, <2>3, <2>5
  <2>7. LineStart(i) = t + 1
    BY <2>5 DEF LineStart
  <2> HIDE DEF T
  <2>8. (t + 1) - 1 = t /\ t + 1 \in 1..i
    BY <1>1, <2>6
  <2>9. BeginsAt(t + 1)
    BY <2>6, <2>8 DEF BeginsAt
  <2>10. NoNewline(t + 1, i - 1)
    BY <2>4, <2>5, <2>6 DEF NoNewline
  <2>11. QED BY <2>7, <2>8, <2>9, <2>10
<1>3. LineEnd(i) \in i..Len(stream) /\ NoNewline(i, LineEnd(i) - 1) /\ EndsAt(LineEnd(i))
  <2> DEFINE T == {Len(stream)} \cup Newlines(i, Len(stream))
  <2>1. T \in SUBSET Nat /\ T # {}
    BY <1>1 DEF Newlines
  <2>2. Min(T) \in T /\ \A m \in T : Min(T) <= m
    BY <2>1, LeastNumber
  <2>3. \A m \in T : m \in i..Len(stream) /\ (stream[m] = "newline" \/ m = Len(stream))
    BY <1>1 DEF Newlines
  <2>4. PICK t : t = Min(T)
    OBVIOUS
  <2>5. t \in i..Len(stream) /\ (stream[t] = "newline" \/ t = Len(stream))
    BY <2>2, <2>3, <2>4
  <2>6. ASSUME NEW j \in Nat, i <= j, j <= t - 1, stream[j] = "newline" PROVE FALSE
    <3>1. j \in T
      BY <1>1, <2>5, <2>6 DEF Newlines
    <3>2. t <= j
      BY <2>2, <2>4, <3>1
    <3>3. t \in Nat
      BY <1>1, <2>5
    <3>4. QED BY <2>6, <3>2, <3>3
  <2>7. LineEnd(i) = t
    BY <2>4 DEF LineEnd
  <2> HIDE DEF T
  <2>8. NoNewline(i, t - 1)
    BY <2>6 DEF NoNewline
  <2>9. QED BY <2>5, <2>7, <2>8 DEF EndsAt
<1>4. QED BY <1>2, <1>3

\* No line makes the proxy hold more than twice the limit and one read of the
\* pipe: StreamReader's pause, and its resumption below the limit, bound it.
THEOREM BufferIsBounded == ReaderSpec => []MemoryBounded
<1>1. ReaderInv => MemoryBounded
  <2>1. SUFFICES ASSUME ReaderInv, kind = "async" PROVE arrived - taken <= 2 * Limit + PipeChunk
    BY DEF MemoryBounded
  <2>2. arrived \in Nat /\ taken \in Nat
    BY <2>1 DEF ReaderInv, ReaderTypes
  <2>3. arrived - taken <= 2 * Limit + (IF paused THEN PipeChunk ELSE 0)
    BY <2>1 DEF ReaderInv, Buffered
  <2>4. CASE paused
    BY <2>3, <2>4
  <2>5. CASE ~paused
    <3>1. arrived - taken <= 2 * Limit
      BY <2>2, <2>3, <2>5, LimitFacts
    <3>2. QED BY <2>2, <3>1, LimitFacts
  <2>6. QED BY <2>4, <2>5
<1>2. QED BY <1>1, ReaderInvariance, PTL

\* A pump gets a piece of a line only after, and of, a line that it was told is
\* oversized, and from the blocking reader never.
THEOREM PiecesFollowOverflow == ReaderSpec => []PieceOnlyAfterOverflow
<1>1. ReaderInv => PieceOnlyAfterOverflow
  <2>1. SUFFICES
          ASSUME ReaderInv, NEW k \in 1..Len(out), out[k].as # "end"
          PROVE  /\ out[k].from # LineStart(out[k].from) =>
                       /\ kind = "async" /\ k > 1 /\ out[k - 1].as = "oversized"
                       /\ out[k - 1].from >= LineStart(out[k].from)
                       /\ out[k - 1].to = out[k].from - 1
                 /\ out[k].to # LineEnd(out[k].from) => kind = "async" /\ out[k].as = "oversized"
    <3>1. ReaderInv => DOMAIN out = 1..Len(out)
      BY ReaderTypeFacts DEF ReaderInv
    <3>2. QED BY <3>1 DEF PieceOnlyAfterOverflow
  <2>2. ReaderTypes /\ Pieced /\ Len(out) \in Nat /\ Len(stream) \in Nat
    BY <2>1, ReaderTypeFacts DEF ReaderInv
  <2>3. out[k] \in Entry
    BY <2>2, ReaderTypeFacts
  <2>4. PICK from \in Nat, to \in Nat : from = out[k].from /\ to = out[k].to
    BY <2>3 DEF Entry
  <2>5. /\ 1 <= from /\ from <= to /\ to <= Len(stream) /\ NoNewline(from, to - 1)
        /\ \/ BeginsAt(from)
           \/ /\ kind = "async" /\ k > 1 /\ out[k - 1].as = "oversized"
              /\ NoNewline(out[k - 1].from, from - 1) /\ out[k - 1].to = from - 1
        /\ EndsAt(to) \/ (kind = "async" /\ out[k].as = "oversized")
    BY <2>1, <2>2, <2>4 DEF Pieced
  <2>6. from \in 1..Len(stream)
    BY <2>2, <2>5
  <2>7. PICK first, last :
          /\ first = LineStart(from) /\ last = LineEnd(from)
          /\ first \in 1..from /\ BeginsAt(first) /\ NoNewline(first, from - 1)
          /\ last \in from..Len(stream) /\ NoNewline(from, last - 1) /\ EndsAt(last)
    BY <2>2, <2>6, LineOf
  <2>8. ASSUME from # first
        PROVE  kind = "async" /\ k > 1 /\ out[k - 1].as = "oversized"
                 /\ out[k - 1].from >= first /\ out[k - 1].to = from - 1
    <3>1. ~BeginsAt(from)
      <4>1. from # 1 /\ from - 1 \in Nat /\ first <= from - 1
        BY <2>6, <2>7, <2>8
      <4>2. stream[from - 1] # "newline"
        BY <2>7, <4>1 DEF NoNewline
      <4>3. QED BY <4>1, <4>2 DEF BeginsAt
    <3>2. /\ kind = "async" /\ k > 1 /\ out[k - 1].as = "oversized"
          /\ NoNewline(out[k - 1].from, from - 1) /\ out[k - 1].to = from - 1
      BY <2>5, <3>1
    <3>3. k - 1 \in 1..Len(out)
      BY <2>2, <3>2
    <3>4. out[k - 1] \in Entry
      BY <2>2, <3>3, ReaderTypeFacts
    <3>5. PICK before \in Nat : before = out[k - 1].from
      BY <3>4 DEF Entry
    <3>6. before >= 1
      BY <2>2, <3>2, <3>3, <3>5 DEF Pieced
    <3>7. CASE first = 1
      BY <3>2, <3>5, <3>6, <3>7
    <3>8. CASE first # 1
      <4>1. stream[first - 1] = "newline" /\ first - 1 \in Nat /\ first - 1 <= from - 1
        BY <2>6, <2>7, <3>8 DEF BeginsAt
      <4>2. ~(before <= first - 1)
        BY <3>2, <3>5, <4>1 DEF NoNewline
      <4>3. QED BY <2>7, <3>2, <3>5, <4>1, <4>2
    <3>9. QED BY <3>7, <3>8
  <2>9. ASSUME to # last PROVE ~EndsAt(to)
    <3>1. SUFFICES ASSUME EndsAt(to) PROVE FALSE
      OBVIOUS
    <3>2. last \in Nat /\ last <= Len(stream) /\ from <= last
      BY <2>2, <2>6, <2>7
    <3>3. CASE last < to
      <4>1. last # Len(stream) /\ last <= to - 1
        BY <2>2, <2>5, <3>2, <3>3
      <4>2. stream[last] = "newline"
        BY <2>7, <4>1 DEF EndsAt
      <4>3. QED BY <2>5, <3>2, <4>1, <4>2 DEF NoNewline
    <3>4. CASE to < last
      <4>1. to # Len(stream) /\ to <= last - 1
        BY <2>2, <3>2, <3>4
      <4>2. stream[to] = "newline"
        BY <3>1, <4>1 DEF EndsAt
      <4>3. QED BY <2>5, <2>7, <4>1, <4>2 DEF NoNewline
    <3>5. QED BY <2>9, <3>2, <3>3, <3>4
  <2>10. QED BY <2>4, <2>5, <2>7, <2>8, <2>9
<1>2. QED BY <1>1, ReaderInvariance, PTL

\* A line that fits the limit with its newline is returned once and whole, also
\* right behind an overflow, however it is cut on its way.
THEOREM FittingLinesSurvive == ReaderSpec => []FittingLinesIntact
<1>1. ReaderInv => FittingLinesIntact
  <2>1. SUFFICES ASSUME ReaderInv, NEW i \in 1..Told, Fits(LineStart(i), LineEnd(i))
                 PROVE  <<LineStart(i), LineEnd(i)>> \in Pieces("line")
    BY DEF FittingLinesIntact, Fits, Told
  <2>2. ReaderTypes /\ Draining /\ Whole /\ Told \in Nat /\ Len(stream) \in Nat
    BY <2>1, ReaderTypeFacts DEF ReaderInv
  <2>3. Told <= taken /\ i \in 1..Len(stream)
    <3>1. Told <= taken
      BY <2>2, LimitFacts DEF Told, Draining, ReaderTypes
    <3>2. QED BY <2>2, <3>1 DEF ReaderTypes
  <2>4. PICK a, b :
          /\ a = LineStart(i) /\ b = LineEnd(i)
          /\ a \in 1..i /\ BeginsAt(a) /\ NoNewline(a, i - 1)
          /\ b \in i..Len(stream) /\ NoNewline(i, b - 1) /\ EndsAt(b)
    BY <2>2, <2>3, LineOf
  <2>5. a \in Nat /\ b \in Nat /\ 1 <= a /\ a <= b /\ b <= Len(stream) /\ a <= Told
    BY <2>2, <2>3, <2>4
  <2>6. NoNewline(a, b - 1)
    <3>1. ASSUME NEW j \in Nat, a <= j, j <= b - 1 PROVE stream[j] # "newline"
      <4>1. CASE j <= i - 1
        BY <2>4, <3>1, <4>1 DEF NoNewline
      <4>2. CASE i <= j
        BY <2>4, <3>1, <4>2 DEF NoNewline
      <4>3. QED BY <2>3, <4>1, <4>2
    <3>2. QED BY <3>1 DEF NoNewline
  <2>7. IsLine(a, b) /\ Fits(a, b)
    BY <2>1, <2>4, <2>5, <2>6 DEF IsLine
  <2>8. PICK k \in 1..Len(out) : out[k] = [as |-> "line", from |-> a, to |-> b]
    BY <2>2, <2>5, <2>7 DEF Whole
  <2>9. out[k].as = "line" /\ out[k].from = a /\ out[k].to = b /\ k \in DOMAIN out
    BY <2>2, <2>8, ReaderTypeFacts
  <2>10. QED BY <2>4, <2>9 DEF Pieces
<1>2. QED BY <1>1, ReaderInvariance, PTL

-----------------------------------------------------------------------------
(* The session: its components are those of the theorems.                   *)

LEMMA Assumed == RP!RelayAssumption /\ BP!BufferAssumption
<1>1. RP!RelayAssumption
  BY SessionAssumption DEF RP!RelayAssumption, R!Dirs, RP!Dirs, R!Line, RP!Line, R!Message, RP!Message
<1>2. BP!BufferAssumption
  BY SessionAssumption DEF BP!BufferAssumption
<1>3. QED BY <1>1, <1>2

LEMMA SameRelay == /\ R!Init <=> RP!Init
                   /\ [R!Next]_(R!vars) <=> [RP!Next]_(RP!vars)
  BY DEF R!Dirs, RP!Dirs, R!IsBatch, RP!IsBatch, R!Parsed, RP!Parsed, R!IsRequest,
         RP!IsRequest, R!CanReplace, RP!CanReplace, R!CapabilityHit, RP!CapabilityHit,
         R!Denied, RP!Denied, R!DeniedFrame, RP!DeniedFrame, R!IsResponse,
         RP!IsResponse, R!Verdict, RP!Verdict, R!Given, RP!Given, R!Aborted, RP!Aborted,
         R!CapabilityAnswer, RP!CapabilityAnswer, R!CapabilityReply, RP!CapabilityReply,
         R!ReplacedBy, RP!ReplacedBy, R!Replacement, RP!Replacement, R!Verbatim,
         RP!Verbatim, R!vars, RP!vars, R!Peers, RP!Peers, R!Dst, RP!Dst, R!Row, RP!Row,
         R!RawRow, RP!RawRow, R!SyntheticRow, RP!SyntheticRow, R!Text, RP!Text, R!Job,
         RP!Job, R!NoJob, RP!NoJob, R!NotYetKnown, RP!NotYetKnown, R!Current,
         RP!Current, R!Init, RP!Init, R!MemberRows, RP!MemberRows, R!CapabilityRows,
         RP!CapabilityRows, R!CapabilityJob, RP!CapabilityJob, R!InspectedJob,
         RP!InspectedJob, R!End, RP!End, R!Continue, RP!Continue, R!BlockedByCapability,
         RP!BlockedByCapability, R!ReadLine, RP!ReadLine, R!EndOfFile, RP!EndOfFile,
         R!Verdicts, RP!Verdicts, R!Inspect, RP!Inspect, R!LockNeeded, RP!LockNeeded,
         R!Write, RP!Write, R!RecordOnly, RP!RecordOnly, R!Drained, RP!Drained,
         R!DrainFailed, RP!DrainFailed, R!Pump, RP!Pump, R!CancelPumps, RP!CancelPumps,
         R!Signal, RP!Signal, R!Stopped, RP!Stopped, R!ClientEnded, RP!ClientEnded,
         R!DrainOver, RP!DrainOver, R!AfterServerEof, RP!AfterServerEof, R!ServerEnded,
         RP!ServerEnded, R!Aclosed, RP!Aclosed, R!Reaped, RP!Reaped, R!ServerLets,
         RP!ServerLets, R!Over, RP!Over, R!Main, RP!Main, R!Next, RP!Next

LEMMA SameBuffer == /\ B!Init <=> BP!Init
                    /\ [B!Next]_(B!vars) <=> [BP!Next]_(BP!vars)
  BY DEF B!writer, BP!writer, B!db, BP!db, B!vars, BP!vars, B!Stop, BP!Stop, B!Init,
         BP!Init, B!HasRoom, BP!HasRoom, B!Record, BP!Record, B!FullAfter, BP!FullAfter,
         B!MeetsStop, BP!MeetsStop, B!Takes, BP!Takes, B!StopSeen, BP!StopSeen,
         B!FlushNeeded, BP!FlushNeeded, B!Get, BP!Get, B!Executed, BP!Executed,
         B!BatchAfterFlush, BP!BatchAfterFlush, B!Flushed, BP!Flushed, B!CancelExecuted,
         BP!CancelExecuted, B!CancelFlushed, BP!CancelFlushed, B!Shutdown, BP!Shutdown,
         B!PutStop, BP!PutStop, B!CancelHandler, BP!CancelHandler, B!Timeout,
         BP!Timeout, B!Joined, BP!Joined, B!ThreadMany, BP!ThreadMany, B!ThreadCommit,
         BP!ThreadCommit, B!OtherCommit, BP!OtherCommit, B!Terminated, BP!Terminated,
         B!WriterStep, BP!WriterStep, B!ThreadStep, BP!ThreadStep, B!ShutdownStep,
         BP!ShutdownStep, B!Next, BP!Next

-----------------------------------------------------------------------------
(* A session is a run of the relay, and a run of the buffer.                *)

LEMMA ComponentsStart == Init => RP!Init /\ BP!Init
BY SameRelay, SameBuffer DEF Init

LEMMA RelayMoves == [Next]_vars => [RP!Next]_(RP!vars)
<1>1. [Next]_vars => [R!Next]_(R!vars)
  BY DEF Next, Record, RelayStep, BufferStep, ThreadStep, LeaveBuffer, Terminated,
         R!Next, vars, relay, R!vars
<1>2. QED BY <1>1, SameRelay

LEMMA BufferMoves == [Next]_vars => [BP!Next]_(BP!vars)
<1>1. [Next]_vars => [B!Next]_(B!vars)
  <2>1. ASSUME UNCHANGED buffer PROVE UNCHANGED B!vars
    BY <2>1 DEF buffer, B!vars, B!writer, B!db
  <2>2. ASSUME Next PROVE B!Next \/ UNCHANGED buffer
    BY <2>2 DEF Next, Record, RelayStep, BufferStep, ThreadStep, LeaveBuffer, Terminated,
                B!Next, B!ThreadStep
  <2>3. ASSUME UNCHANGED vars PROVE UNCHANGED buffer
    BY <2>3 DEF vars, buffer
  <2>4. QED BY <2>1, <2>2, <2>3
<1>2. QED BY <1>1, SameBuffer

LEMMA ComponentsRun ==
    Init /\ [][Next]_vars => /\ RP!Init /\ [][RP!Next]_(RP!vars)
                             /\ BP!Init /\ [][BP!Next]_(BP!vars)
BY ComponentsStart, RelayMoves, BufferMoves, PTL

LEMMA ComponentInvariants ==
    Init /\ [][Next]_vars => /\ []RP!IInv
                             /\ []BP!IInv /\ []BP!LossInv /\ []BP!Emptied
<1>1. RP!Init /\ [][RP!Next]_(RP!vars) => []RP!IInv
  BY Assumed, RP!Invariance
<1>2. BP!Init /\ [][BP!Next]_(BP!vars) => []BP!IInv
  BY Assumed, BP!Invariance
<1>3. BP!Init /\ [][BP!Next]_(BP!vars) => []BP!LossInv
  BY Assumed, BP!LossInvariance
<1>4. BP!Init /\ [][BP!Next]_(BP!vars) => []BP!Emptied
  BY Assumed, BP!EmptiedInvariance
<1>5. QED BY <1>1, <1>2, <1>3, <1>4, ComponentsRun, PTL

-----------------------------------------------------------------------------
(* The invariant that ties the two together.                                *)

\* record() was called for rows of the log, in the log's order, and rowOf tells the
\* accepted ones; the buffer is left when all of them were recorded and no pump runs.
Recorded ==
    /\ rowOf \in Seq(Nat) /\ Len(rowOf) = accepted
    /\ accepted + dropped <= Len(log)
    /\ \A e \in 1..accepted : rowOf[e] \in 1..(accepted + dropped)
    /\ \A d, e \in 1..accepted : d < e => rowOf[d] < rowOf[e]

Left == spc # "idle" => LoopFree /\ Gathered

LEMMA CountTypes ==
    ASSUME RP!IInv, BP!IInv
    PROVE  accepted \in Nat /\ dropped \in Nat /\ log \in Seq(RP!Row0) /\ Len(log) \in Nat
<1>1. accepted \in 0..MaxEvents /\ dropped \in 0..MaxEvents
  BY DEF BP!IInv, BP!TypeOK
<1>2. log \in Seq(RP!Row0)
  BY DEF RP!IInv, RP!Types
<1>3. QED BY <1>1, <1>2, SessionAssumption, LenProperties

\* Nothing of the relay moves when both pumps and run_proxy's wait are over.
LEMMA GatheredRests == Gathered => ~RelayStep
BY DEF Gathered, RelayStep, R!Pump, R!ReadLine, R!EndOfFile, R!Inspect, R!Write,
       R!RecordOnly, R!Drained, R!DrainFailed, R!Main, R!Stopped, R!ClientEnded,
       R!DrainOver, R!ServerEnded, R!ServerLets, R!Aclosed, R!Reaped, R!Signal

LEMMA RecordKeeps == RP!IInv /\ BP!IInv /\ Recorded /\ Record => Recorded'
<1>1. SUFFICES ASSUME RP!IInv, BP!IInv, Recorded, Record PROVE Recorded'
  OBVIOUS
<1>2. /\ accepted \in Nat /\ dropped \in Nat /\ Len(log) \in Nat /\ log' = log
      /\ accepted + dropped < Len(log)
  BY <1>1, CountTypes DEF Record, relay, Owed
<1>3. \/ /\ accepted' = accepted + 1 /\ dropped' = dropped
         /\ rowOf' = Append(rowOf, accepted + dropped + 1)
      \/ accepted' = accepted /\ dropped' = dropped + 1 /\ rowOf' = rowOf
  BY <1>1, <1>2 DEF Record, B!Record
<1>4. CASE accepted' = accepted /\ dropped' = dropped + 1 /\ rowOf' = rowOf
  BY <1>1, <1>2, <1>4 DEF Recorded
<1>5. CASE /\ accepted' = accepted + 1 /\ dropped' = dropped
           /\ rowOf' = Append(rowOf, accepted + dropped + 1)
  <2>1. PICK m \in Nat : m = accepted + dropped + 1
    BY <1>2
  <2>2. rowOf \in Seq(Nat) /\ Len(rowOf) = accepted
    BY <1>1 DEF Recorded
  <2>3. /\ rowOf' \in Seq(Nat) /\ Len(rowOf') = accepted'
        /\ \A e \in 1..accepted : rowOf'[e] = rowOf[e]
        /\ rowOf'[accepted'] = m
    BY <1>5, <2>1, <2>2, AppendProperties
  <2>4. \A e \in 1..accepted : rowOf[e] \in 1..(m - 1)
    BY <1>1, <1>2, <2>1 DEF Recorded
  <2>5. \A e \in 1..accepted' : rowOf'[e] \in 1..m
    BY <1>2, <1>5, <2>1, <2>3, <2>4
  <2>6. ASSUME NEW d \in 1..accepted', NEW e \in 1..accepted', d < e
        PROVE  rowOf'[d] < rowOf'[e]
    <3>1. d \in 1..accepted
      BY <1>2, <1>5, <2>6
    <3>2. CASE e \in 1..accepted
      BY <1>1, <2>3, <2>6, <3>1, <3>2 DEF Recorded
    <3>3. CASE e = accepted'
      <4>1. rowOf'[d] \in 1..(m - 1) /\ rowOf'[e] = m
        BY <2>3, <2>4, <3>1, <3>3
      <4>2. QED BY <2>1, <4>1
    <3>4. e \in 1..accepted \/ e = accepted'
      BY <1>2, <1>5
    <3>5. QED BY <3>2, <3>3, <3>4
  <2>7. accepted' + dropped' = m /\ m <= Len(log')
    BY <1>2, <1>5, <2>1
  <2>8. QED BY <2>3, <2>5, <2>6, <2>7 DEF Recorded
<1>6. QED BY <1>3, <1>4, <1>5

LEMMA OthersKeepRecorded == RP!IInv /\ BP!IInv /\ Recorded /\ [Next]_vars /\ ~Record => Recorded'
<1>1. SUFFICES ASSUME RP!IInv, BP!IInv, Recorded, [Next]_vars, ~Record PROVE Recorded'
  OBVIOUS
<1>2. UNCHANGED <<accepted, dropped, rowOf>>
  BY <1>1 DEF Next, RelayStep, BufferStep, ThreadStep, LeaveBuffer, Terminated, vars, buffer,
              B!WriterStep, B!ShutdownStep, B!Timeout, B!ThreadStep, B!OtherCommit, B!Shutdown,
              B!Terminated, B!vars, B!Get, B!Executed, B!Flushed, B!CancelExecuted,
              B!CancelFlushed, B!PutStop, B!Joined, B!ThreadMany, B!ThreadCommit
<1>3. Len(log) \in Nat /\ Len(log') \in Nat /\ Len(log) <= Len(log')
  BY <1>1, RelayMoves, Assumed, RP!LogGrows
<1>4. accepted \in Nat /\ dropped \in Nat
  BY <1>1, CountTypes
<1>5. QED BY <1>1, <1>2, <1>3, <1>4 DEF Recorded

LEMMA LeftKept == Left /\ [Next]_vars => Left'
<1>1. SUFFICES ASSUME Left, [Next]_vars, spc' # "idle" PROVE LoopFree' /\ Gathered'
  BY DEF Left
<1>2. CASE Record
  BY <1>1, <1>2 DEF Record, B!Record, Left, LoopFree
<1>3. CASE RelayStep
  BY <1>1, <1>3, GatheredRests DEF RelayStep, buffer, Left
<1>4. CASE LeaveBuffer
  BY <1>4 DEF LeaveBuffer, B!Shutdown, relay, LoopFree, Owed, Gathered
<1>5. CASE BufferStep \/ ThreadStep \/ Terminated \/ UNCHANGED vars
  <2>1. UNCHANGED <<accepted, dropped, log, main, pc>> /\ spc # "idle"
    BY <1>1, <1>5
       DEF BufferStep, ThreadStep, Terminated, vars, relay, buffer,
           B!WriterStep, B!ShutdownStep, B!Timeout, B!ThreadStep, B!OtherCommit,
           B!Terminated, B!vars, B!Get, B!Executed, B!Flushed, B!CancelExecuted,
           B!CancelFlushed, B!PutStop, B!Joined, B!ThreadMany, B!ThreadCommit
  <2>2. QED BY <1>1, <2>1 DEF Left, LoopFree, Owed, Gathered
<1>6. QED BY <1>1, <1>2, <1>3, <1>4, <1>5 DEF Next

LEMMA RecordedInvariance == Init /\ [][Next]_vars => []Recorded /\ []Left
<1>1. Init => Recorded /\ Left
  <2>1. SUFFICES ASSUME Init PROVE Recorded /\ Left
    OBVIOUS
  <2>2. /\ rowOf = <<>> /\ accepted = 0 /\ dropped = 0 /\ log = <<>> /\ spc = "idle"
    BY <2>1 DEF Init, R!Init, B!Init
  <2>3. QED BY <2>2, EmptySeq DEF Recorded, Left
<1>2. RP!IInv /\ BP!IInv /\ Recorded /\ [Next]_vars => Recorded'
  BY RecordKeeps, OthersKeepRecorded
<1>3. QED BY <1>1, <1>2, LeftKept, ComponentInvariants, PTL

-----------------------------------------------------------------------------
(* The audit trail.                                                         *)

\* The session is over, no database operation failed and nobody was cancelled.
Ended == spc = "done" /\ faults = 0 /\ ~B!Cancelled

StoredFacts(s) ==
    /\ Len(s) = accepted /\ DOMAIN s = 1..accepted
    /\ \A k \in 1..accepted : s[k] \in 1..accepted
    /\ \A j, k \in 1..accepted : j < k => s[j] < s[k]
    /\ \A e \in 1..accepted : \E k \in 1..accepted : s[k] = e

LEMMA EndFacts ==
    ASSUME RP!IInv, BP!IInv, BP!LossInv, BP!Emptied, Recorded, Left, Ended
    PROVE  /\ accepted \in Nat /\ dropped \in Nat /\ Len(log) = accepted + dropped
           /\ DOMAIN log = 1..Len(log)
           /\ StoredFacts(Stored)
<1>1. accepted \in Nat /\ dropped \in Nat /\ Len(log) \in Nat /\ DOMAIN log = 1..Len(log)
  BY CountTypes, LenProperties
<1>2. Len(log) = accepted + dropped
  BY <1>1 DEF Ended, Left, LoopFree, Owed
<1>3. spc = "done" /\ faults = 0 /\ ~BP!Cancelled
  BY DEF Ended, B!Cancelled, BP!Cancelled
<1>4. PICK s : s = Stored
  OBVIOUS
<1>5. /\ s \in Seq(Nat) /\ Len(s) = accepted
      /\ BP!Increasing(s) /\ BP!Elements(s) = 1..accepted
  BY <1>3, <1>4, Assumed, BP!StoredAtEnd DEF Stored
<1>6. DOMAIN s = 1..accepted
  BY <1>5, LenProperties
<1>7. StoredFacts(s)
  BY <1>5, <1>6 DEF StoredFacts, BP!Increasing, BP!Elements
<1>8. QED BY <1>1, <1>2, <1>4, <1>7

\* The rows of the stored events come in the log's order.
LEMMA RowsFollow ==
    ASSUME Recorded, NEW s, StoredFacts(s)
    PROVE  /\ \A k \in 1..accepted : rowOf[s[k]] \in 1..(accepted + dropped)
           /\ \A j, k \in 1..accepted : j < k => rowOf[s[j]] < rowOf[s[k]]
BY DEF Recorded, StoredFacts

\* A message that no row of the events in E names has a row in the log all the same: there
\* are at most as many as the log has rows that are not of E.
LEMMA UnnamedFew ==
    ASSUME RP!IInv, BP!IInv, Recorded, NEW E \in SUBSET (1..accepted),
           NEW U, U \subseteq HandledMembers \ {RowName(rowOf[e]) : e \in E}
    PROVE  /\ IsFiniteSet(E) /\ Cardinality(E) \in Nat
           /\ IsFiniteSet(U) /\ Cardinality(U) \in Nat
           /\ Cardinality(U) <= Len(log) - Cardinality(E)
<1> DEFINE Rows  == 1..Len(log)
           Taken == {rowOf[e] : e \in E}
           Rest  == Rows \ Taken
           name  == [k \in Rest |-> RowName(k)]
<1>1. /\ accepted \in Nat /\ dropped \in Nat /\ Len(log) \in Nat /\ DOMAIN log = Rows
      /\ \A e \in E : rowOf[e] \in Rows
      /\ \A d, e \in E : d < e => rowOf[d] < rowOf[e]
  <2>1. accepted \in Nat /\ dropped \in Nat /\ Len(log) \in Nat /\ DOMAIN log = Rows
    BY CountTypes, LenProperties
  <2>2. /\ \A e \in E : rowOf[e] \in 1..(accepted + dropped)
        /\ \A d, e \in E : d < e => rowOf[d] < rowOf[e]
        /\ accepted + dropped <= Len(log)
    BY DEF Recorded
  <2>3. QED BY <2>1, <2>2
<1>2. /\ IsFiniteSet(Rows) /\ Cardinality(Rows) = Len(log)
      /\ IsFiniteSet(1..accepted)
  <2>1. 1 \in Int /\ Len(log) \in Int /\ accepted \in Int
    BY <1>1
  <2>2. /\ IsFiniteSet(Rows) /\ IsFiniteSet(1..accepted)
        /\ Cardinality(Rows) = IF 1 > Len(log) THEN 0 ELSE Len(log) - 1 + 1
    BY <2>1, FS_Interval
  <2>3. QED BY <1>1, <2>2
<1>3. IsFiniteSet(E) /\ Cardinality(E) \in Nat
  BY <1>2, FS_Subset, FS_CardinalityType
<1>4. IsFiniteSet(Taken) /\ Cardinality(Taken) = Cardinality(E)
  <2> DEFINE f == [e \in E |-> rowOf[e]]
  <2>1. ASSUME NEW d \in E, NEW e \in E, f[d] = f[e] PROVE d = e
    <3>1. ~(d < e) /\ ~(e < d)
      BY <1>1, <2>1
    <3>2. d \in 1..accepted /\ e \in 1..accepted
      OBVIOUS
    <3>3. QED BY <1>1, <3>1, <3>2
  <2>2. f \in [E -> Taken]
    OBVIOUS
  <2>3. f \in Injection(E, Taken)
    BY <2>1, <2>2 DEF Injection, IsInjective
  <2>4. f \in Surjection(E, Taken)
    BY <2>2 DEF Surjection
  <2>5. ExistsBijection(E, Taken)
    BY <2>3, <2>4 DEF Bijection, ExistsBijection
  <2>6. QED BY <1>3, <2>5, FS_Bijection
<1>5. IsFiniteSet(Rest) /\ Cardinality(Rest) = Len(log) - Cardinality(E)
  <2>1. Rest \in SUBSET Rows /\ Rest \cap Taken = {} /\ Rest \cup Taken = Rows
    BY <1>1
  <2>2. IsFiniteSet(Rest) /\ Cardinality(Rest) \in Nat
    BY <1>2, <2>1, FS_Subset, FS_CardinalityType
  <2>3. Cardinality(Rows) = Cardinality(Rest) + Cardinality(Taken) - Cardinality({})
    BY <1>4, <2>1, <2>2, FS_Union
  <2>4. QED BY <1>2, <1>3, <1>4, <2>2, <2>3, FS_EmptySet
<1>6. ASSUME NEW h \in U PROVE \E k \in Rest : h = name[k]
  <2>1. PICK d \in R!Dirs : \E n \in R!Handled(d) : \E i \in DOMAIN read[d][n].members : h = <<d, n, i>>
    BY <1>6 DEF HandledMembers
  <2>2. PICK n \in R!Handled(d) : \E i \in DOMAIN read[d][n].members : h = <<d, n, i>>
    BY <2>1
  <2>3. PICK i \in DOMAIN read[d][n].members : h = <<d, n, i>>
    BY <2>2
  <2>4. PICK k \in DOMAIN log : log[k].dir = d /\ log[k].line = n /\ log[k].member = i
    <3>1. RP!AuditComplete
      BY Assumed, RP!RowsCoverLines
    <3>2. d \in RP!Dirs /\ n \in RP!Handled(d)
      BY DEF R!Dirs, RP!Dirs, R!Handled, RP!Handled, R!NoJob, RP!NoJob, R!Job, RP!Job
    <3>3. <<n, i>> \in UNION {{m} \X DOMAIN read[d][m].members : m \in RP!Handled(d)}
      BY <3>2
    <3>4. <<n, i>> \in {<<log[k].line, log[k].member>> :
                          k \in {l \in DOMAIN log : log[l].dir = d /\ log[l].member > 0}}
      BY <3>1, <3>2, <3>3 DEF RP!AuditComplete
    <3>5. QED BY <3>4
  <2>5. k \in Rows /\ h = RowName(k)
    BY <1>1, <2>3, <2>4 DEF RowName
  <2>6. k \notin Taken
    BY <1>6, <2>5
  <2>7. QED BY <2>5, <2>6
<1>7. /\ IsFiniteSet({name[k] : k \in Rest})
      /\ Cardinality({name[k] : k \in Rest}) <= Cardinality(Rest)
  <2>1. name \in Surjection(Rest, {name[k] : k \in Rest})
    BY DEF Surjection
  <2>2. QED BY <1>5, <2>1, FS_Surjection
<1>8. U \in SUBSET {name[k] : k \in Rest}
  BY <1>6
<1>9. IsFiniteSet(U) /\ Cardinality(U) <= Cardinality({name[k] : k \in Rest})
  BY <1>7, <1>8, FS_Subset
<1>10. Cardinality(U) \in Nat /\ Cardinality({name[k] : k \in Rest}) \in Nat
  BY <1>7, <1>9, FS_CardinalityType
<1>11. Cardinality(U) <= Len(log) - Cardinality(E)
  <2> HIDE DEF Rest, name
  <2>1. PICK a \in Nat, b \in Nat : /\ a = Cardinality(U)
                                    /\ b = Cardinality({name[k] : k \in Rest})
    BY <1>10
  <2>2. a <= b /\ b <= Len(log) - Cardinality(E)
    BY <1>5, <1>7, <1>9, <2>1
  <2>3. QED BY <1>1, <1>3, <2>1, <2>2
<1>12. QED BY <1>3, <1>9, <1>10, <1>11

\* What holds of the table when the session is over.
LEMMA TrailAtEnd ==
    ASSUME RP!IInv, BP!IInv, BP!LossInv, BP!Emptied, Recorded, Left
    PROVE  AuditTrail
<1>1. SUFFICES ASSUME Ended
               PROVE  /\ Len(Stored) = Len(log) - dropped
                      /\ \A j, k \in DOMAIN Stored : j < k => rowOf[Stored[j]] < rowOf[Stored[k]]
                      /\ Cardinality(Unnamed(Stored)) <= dropped
                      /\ \A j, k \in DOMAIN Stored : \A a, b \in DOMAIN written["client"] :
                            /\ StoredRow(j).dir = written["client"][a].dir
                            /\ StoredRow(j).line = written["client"][a].line
                            /\ StoredRow(k).dir = written["client"][b].dir
                            /\ StoredRow(k).line = written["client"][b].line
                            /\ StoredRow(j).member > 0 /\ StoredRow(k).member > 0
                            => (a < b => j < k)
  BY DEF AuditTrail, Ended
<1>2. PICK s : s = Stored
  OBVIOUS
<1>3. /\ accepted \in Nat /\ dropped \in Nat /\ Len(log) = accepted + dropped
      /\ DOMAIN log = 1..Len(log) /\ StoredFacts(s)
  BY <1>1, <1>2, EndFacts
<1>4. /\ DOMAIN s = 1..accepted /\ Len(s) = accepted
      /\ \A k \in 1..accepted : rowOf[s[k]] \in 1..(accepted + dropped)
      /\ \A j, k \in 1..accepted : j < k => rowOf[s[j]] < rowOf[s[k]]
  BY <1>3, RowsFollow DEF StoredFacts
<1>5. Len(Stored) = Len(log) - dropped
  BY <1>2, <1>3, <1>4
<1>6. \A j, k \in DOMAIN Stored : j < k => rowOf[Stored[j]] < rowOf[Stored[k]]
  BY <1>2, <1>4
<1>7. Cardinality(Unnamed(Stored)) <= dropped
  <2>1. PICK E : E = 1..accepted
    OBVIOUS
  <2>2. Cardinality(E) = accepted
    <3>1. 1 \in Int /\ accepted \in Int
      BY <1>3
    <3>2. Cardinality(1..accepted) = IF 1 > accepted THEN 0 ELSE accepted - 1 + 1
      BY <3>1, FS_Interval
    <3>3. QED BY <1>3, <2>1, <3>2
  <2>3. Unnamed(s) \subseteq HandledMembers \ {RowName(rowOf[e]) : e \in E}
    <3>1. ASSUME NEW e \in E PROVE \E k \in DOMAIN s : s[k] = e
      BY <1>3, <1>4, <2>1 DEF StoredFacts
    <3>2. QED BY <3>1 DEF Unnamed
  <2>4. Cardinality(Unnamed(s)) \in Nat /\ Cardinality(Unnamed(s)) <= Len(log) - Cardinality(E)
    BY <2>1, <2>3, UnnamedFew
  <2>5. QED BY <1>2, <1>3, <2>2, <2>4
<1>8. ASSUME NEW j \in DOMAIN Stored, NEW k \in DOMAIN Stored,
             NEW a \in DOMAIN written["client"], NEW b \in DOMAIN written["client"],
             /\ StoredRow(j).dir = written["client"][a].dir
             /\ StoredRow(j).line = written["client"][a].line
             /\ StoredRow(k).dir = written["client"][b].dir
             /\ StoredRow(k).line = written["client"][b].line
             /\ StoredRow(j).member > 0 /\ StoredRow(k).member > 0,
             a < b
      PROVE  j < k
  <2>1. RP!RowsBefore(written["client"][a], written["client"][b])
    BY <1>8, Assumed, RP!LogHasClientOrder DEF RP!LogOrderIsClientOrder
  <2>2. j \in 1..accepted /\ k \in 1..accepted
    BY <1>2, <1>4
  <2>3. PICK p, q : p = rowOf[s[j]] /\ q = rowOf[s[k]]
    OBVIOUS
  <2>4. p \in DOMAIN log /\ q \in DOMAIN log /\ p \in Nat /\ q \in Nat
    BY <1>3, <1>4, <2>2, <2>3
  <2>5. log[p] = StoredRow(j) /\ log[q] = StoredRow(k)
    BY <1>2, <2>3 DEF StoredRow
  <2>6. p < q
    BY <1>8, <2>1, <2>4, <2>5 DEF RP!RowsBefore
  <2>7. j # k
    BY <2>3, <2>4, <2>6
  <2>8. ~(k < j)
    BY <1>4, <2>2, <2>3, <2>4, <2>6
  <2>9. QED BY <1>3, <2>2, <2>7, <2>8
<1>9. QED BY <1>5, <1>6, <1>7, <1>8

\* The audit trail of a session whose database did not fail and whose writer was not
\* cancelled, whatever its lines, the sizes of the queue and of the batch, and however pumps,
\* writer and connection took turns: the table has every row but those it counted as dropped,
\* in the order of recording; it names every handled message but at most as many; and it
\* lists what the client got in the order in which the client got it.
THEOREM AuditTrailHolds == Spec => []AuditTrail
BY TrailAtEnd, ComponentInvariants, RecordedInvariance, PTL DEF Spec

\* The instance of FiniteSets in the buffer's module is FiniteSets.
LEMMA SameCardinality == \A S : Cardinality(S) = BP!Cardinality(S) /\ Cardinality(S) = RP!Cardinality(S)
BY DEF Cardinality, BP!Cardinality, RP!Cardinality

\* What the table lacks at any moment.
LEMMA KillCost ==
    ASSUME RP!IInv, BP!IInv, BP!LossInv, Recorded
    PROVE  KillCostsAtMost
<1> DEFINE E == BP!Elements(table) \cap (1..accepted)
           M == (1..accepted) \ BP!Elements(table)
<1>1. accepted \in Nat /\ dropped \in Nat /\ Len(log) \in Nat
  BY CountTypes
<1>2. Cardinality(M) <= QueueMax + BatchSize * (1 + faults)
  <2>1. BP!KillLosesAtMost
    BY Assumed, BP!FewAreLost
  <2>2. Cardinality(M) = BP!Cardinality(M)
    BY SameCardinality
  <2>3. QED BY <2>1, <2>2 DEF BP!KillLosesAtMost
<1>3. /\ Cardinality(E) \in Nat /\ Cardinality(Unnamed(table)) \in Nat
      /\ Cardinality(Unnamed(table)) <= Len(log) - Cardinality(E)
  <2>1. Unnamed(table) \subseteq HandledMembers \ {RowName(rowOf[e]) : e \in E}
    BY DEF Unnamed, BP!Elements
  <2>2. E \in SUBSET (1..accepted)
    OBVIOUS
  <2> HIDE DEF E
  <2>3. QED BY <2>1, <2>2, UnnamedFew
<1>4. Cardinality(M) \in Nat /\ Cardinality(E) + Cardinality(M) = accepted
  <2>1. 1 \in Int /\ accepted \in Int
    BY <1>1
  <2>2. /\ IsFiniteSet(1..accepted)
        /\ Cardinality(1..accepted) = IF 1 > accepted THEN 0 ELSE accepted - 1 + 1
    BY <2>1, FS_Interval
  <2>3. E \in SUBSET (1..accepted) /\ M \in SUBSET (1..accepted)
    OBVIOUS
  <2>4. IsFiniteSet(E) /\ IsFiniteSet(M) /\ Cardinality(E) \in Nat /\ Cardinality(M) \in Nat
    BY <2>2, <2>3, FS_Subset, FS_CardinalityType
  <2>5. E \cup M = 1..accepted /\ E \cap M = {}
    OBVIOUS
  <2>6. Cardinality(1..accepted) = Cardinality(E) + Cardinality(M) - Cardinality({})
    BY <2>4, <2>5, FS_Union
  <2>7. QED BY <1>1, <2>2, <2>4, <2>6, FS_EmptySet
<1>5. QueueMax + BatchSize * (1 + faults) \in Nat
  <2>1. faults \in Nat
    BY SessionAssumption DEF BP!IInv, BP!TypeOK
  <2>2. QueueMax \in Nat /\ BatchSize \in Nat /\ 1 + faults \in Nat
    BY <2>1, SessionAssumption
  <2>3. BatchSize * (1 + faults) \in Nat
    BY <2>2
  <2>4. QED BY <2>2, <2>3
<1> HIDE DEF E, M
<1>6. PICK r \in Nat : r = QueueMax + BatchSize * (1 + faults)
  BY <1>5
<1>7. Cardinality(Unnamed(table)) <= Owed + dropped + r
  BY <1>1, <1>2, <1>3, <1>4, <1>6 DEF Owed
<1>8. Owed + dropped + r = Owed + dropped + QueueMax + BatchSize * (1 + faults)
  <2>1. Owed \in Int /\ QueueMax \in Nat
    BY <1>1, SessionAssumption DEF Owed
  <2>2. PICK q \in Nat : q = BatchSize * (1 + faults)
    <3>1. faults \in Nat
      BY SessionAssumption DEF BP!IInv, BP!TypeOK
    <3>2. BatchSize \in Nat /\ 1 + faults \in Nat
      BY <3>1, SessionAssumption
    <3>3. QED BY <3>2
  <2>3. QED BY <1>1, <1>6, <2>1, <2>2
<1>9. QED BY <1>7, <1>8 DEF KillCostsAtMost

\* docs/adr/0001 for a whole session: at whatever moment the proxy dies, the messages that were
\* handled and that the table does not name are the dropped ones, the rows still to be recorded,
\* the queue, one batch, and one batch per failed operation, at most.
THEOREM KillCostBounded == Spec => []KillCostsAtMost
BY KillCost, ComponentInvariants, RecordedInvariance, PTL DEF Spec

-----------------------------------------------------------------------------
(* What the two components promise holds of a session.                      *)

LEMMA SameRelayPromises ==
    /\ R!TypeOK <=> RP!TypeOK
    /\ R!EachMessageOnce <=> RP!EachMessageOnce
    /\ R!BlockedNotDelivered <=> RP!BlockedNotDelivered
    /\ R!FailOpenIsAudited <=> RP!FailOpenIsAudited
    /\ R!AuditComplete <=> RP!AuditComplete
    /\ R!LogOrderIsClientOrder <=> RP!LogOrderIsClientOrder
BY DEF R!Dirs, RP!Dirs, R!Peers, RP!Peers, R!Dst, RP!Dst, R!Row, RP!Row, R!Row0,
       RP!Row0, R!Answers, RP!Answers, R!Handled, RP!Handled, R!NoJob, RP!NoJob, R!Job,
       RP!Job, R!Got, RP!Got, R!NotAllowed, RP!NotAllowed, R!MustBeAnswered,
       RP!MustBeAnswered, R!IsRequest, RP!IsRequest, R!Parsed, RP!Parsed, R!Before,
       RP!Before, R!RowsBefore, RP!RowsBefore, R!Cardinality, RP!Cardinality, R!TypeOK,
       RP!TypeOK, R!EachMessageOnce, RP!EachMessageOnce, R!BlockedNotDelivered,
       RP!BlockedNotDelivered, R!FailOpenIsAudited, RP!FailOpenIsAudited,
       R!AuditComplete, RP!AuditComplete, R!LogOrderIsClientOrder,
       RP!LogOrderIsClientOrder

\* Composed with the audit-log writer the relay still does nothing but what Relay allows:
\* waiting for record() to be called for its rows only delays it.
THEOREM SessionImplementsRelay == Spec => R!Init /\ [][R!Next]_(R!vars)
<1>1. Init => R!Init
  BY DEF Init
<1>2. [Next]_vars => [R!Next]_(R!vars)
  BY RelayMoves, SameRelay
<1>3. QED BY <1>1, <1>2, PTL DEF Spec

\* So what was proved of the relay holds in every session.
THEOREM RelayInSession ==
    Spec => [](/\ R!TypeOK /\ R!EachMessageOnce /\ R!BlockedNotDelivered
               /\ R!FailOpenIsAudited /\ R!AuditComplete /\ R!LogOrderIsClientOrder)
<1>1. RP!IInv => /\ RP!TypeOK /\ RP!EachMessageOnce /\ RP!BlockedNotDelivered
                 /\ RP!FailOpenIsAudited /\ RP!AuditComplete /\ RP!LogOrderIsClientOrder
  BY Assumed, RP!TypesHold, RP!OnceEach, RP!NothingBlockedPasses, RP!FailOpenHasARow,
     RP!RowsCoverLines, RP!LogHasClientOrder
<1>2. RP!IInv => /\ R!TypeOK /\ R!EachMessageOnce /\ R!BlockedNotDelivered
                 /\ R!FailOpenIsAudited /\ R!AuditComplete /\ R!LogOrderIsClientOrder
  BY <1>1, SameRelayPromises
<1>3. QED BY <1>2, ComponentInvariants, PTL DEF Spec

LEMMA SameBufferPromises ==
    /\ B!TypeOK <=> BP!TypeOK
    /\ B!RowsInOrder <=> BP!RowsInOrder
    /\ B!DuplicatesOnlyLastBatch <=> BP!DuplicatesOnlyLastBatch
    /\ B!NothingVanishes <=> BP!NothingVanishes
    /\ B!KillLosesAtMost <=> BP!KillLosesAtMost
BY DEF B!Stop, BP!Stop, B!Events, BP!Events, B!Increasing, BP!Increasing, B!Elements,
       BP!Elements, B!Occurrences, BP!Occurrences, B!Cancelled, BP!Cancelled,
       B!InFlight, BP!InFlight, B!Cardinality, BP!Cardinality, B!TypeOK, BP!TypeOK,
       B!RowsInOrder, BP!RowsInOrder, B!DuplicatesOnlyLastBatch,
       BP!DuplicatesOnlyLastBatch, B!NothingVanishes, BP!NothingVanishes,
       B!KillLosesAtMost, BP!KillLosesAtMost

\* And so does what was proved of the audit-log writer, whenever the pumps record and whatever
\* they leave unrecorded at the end.
THEOREM BufferInSession ==
    Spec => [](/\ B!TypeOK /\ B!RowsInOrder /\ B!DuplicatesOnlyLastBatch
               /\ B!NothingVanishes /\ B!KillLosesAtMost)
<1>1. BP!Init /\ [][BP!Next]_(BP!vars) => []BP!Copies
  BY Assumed, BP!CopiesInvariance
<1>2. /\ BP!IInv => BP!TypeOK /\ BP!RowsInOrder
      /\ BP!IInv /\ BP!LossInv /\ BP!Copies => BP!DuplicatesOnlyLastBatch
      /\ BP!LossInv => BP!NothingVanishes
      /\ BP!IInv /\ BP!LossInv => BP!KillLosesAtMost
  BY Assumed, BP!TypesHold, BP!TableInOrder, BP!TwiceAtMost, BP!FewAreLost DEF BP!LossInv
<1>3. BP!IInv /\ BP!LossInv /\ BP!Copies =>
         /\ B!TypeOK /\ B!RowsInOrder /\ B!DuplicatesOnlyLastBatch
         /\ B!NothingVanishes /\ B!KillLosesAtMost
  BY <1>2, SameBufferPromises
<1>4. QED BY <1>1, <1>3, ComponentsRun, ComponentInvariants, PTL DEF Spec

\* Fed by both pumps and left by run_proxy, and without the time limit of shutdown(), the
\* writer implements AuditLog: accepted rows become durable in their order, and a failing
\* database operation costs at most one run of consecutive rows.
THEOREM SessionImplementsLog ==
    ASSUME ~CanTimeout
    PROVE  Spec => LogSpec
<1>1. BP!Init /\ [][BP!Next]_(BP!vars) => BP!LogSpec
  BY Assumed, BP!SafelyImplementsLog
<1>2. BP!LogSpec <=> LogSpec
  BY DEF LogSpec, B!LogSpec, BP!LogSpec, B!Log!Spec, BP!Log!Spec, B!Log!Init, BP!Log!Init,
         B!Log!Next, BP!Log!Next, B!Log!vars, BP!Log!vars, B!Log!Accept, BP!Log!Accept,
         B!Log!Commit, BP!Log!Commit, B!Log!Lose, BP!Log!Lose, B!Pending, BP!Pending,
         B!Unexecuted, BP!Unexecuted, B!WithoutStop, BP!WithoutStop, B!Stop, BP!Stop
<1>3. QED BY <1>1, <1>2, ComponentsRun, PTL DEF Spec
\* A stored row that says BLOCK is never contradicted by what a peer received, before or
\* after it was stored, whatever a failing database and a cancelled writer lost or repeated.
THEOREM StoredBlocksAreTrue == Spec => []StoredBlocksHold
<1>1. BP!Init /\ [][BP!Next]_(BP!vars) => []BP!OnlyAccepted
  BY Assumed, BP!OnlyAcceptedInvariance
<1>2. RP!IInv /\ BP!IInv /\ BP!OnlyAccepted /\ Recorded => StoredBlocksHold
  <2>1. SUFFICES ASSUME RP!IInv, BP!IInv, BP!OnlyAccepted, Recorded PROVE StoredBlocksHold
    OBVIOUS
  <2>2. \A k \in DOMAIN Stored : Stored[k] \in 1..accepted
    BY <2>1, Assumed, BP!StoredEvents DEF Stored
  <2>3. /\ accepted \in Nat /\ dropped \in Nat /\ DOMAIN log = 1..Len(log) /\ Len(log) \in Nat
        /\ log \in Seq(RP!Row0)
    BY <2>1, CountTypes, LenProperties
  <2>4. \A k \in DOMAIN Stored : rowOf[Stored[k]] \in DOMAIN log
    BY <2>1, <2>2, <2>3 DEF Recorded
  <2>5. R!BlockedNotDelivered
    BY <2>1, Assumed, RP!NothingBlockedPasses, SameRelayPromises
  <2>6. SUFFICES ASSUME NEW k \in DOMAIN Stored, StoredRow(k).verdict = "BLOCK",
                        NEW a \in DOMAIN written[R!Dst(StoredRow(k).dir)],
                        NEW w, w = written[R!Dst(StoredRow(k).dir)][a],
                        w.dir = StoredRow(k).dir, w.line = StoredRow(k).line,
                        NEW i \in DOMAIN w.text.parts, i = StoredRow(k).member,
                        w.text.parts[i] = "verbatim"
                 PROVE  FALSE
    BY DEF StoredBlocksHold
  <2>7. PICK r : r = StoredRow(k) /\ r \in {log[j] : j \in DOMAIN log}
    BY <2>4, <2>6 DEF StoredRow
  <2>8. r.dir \in R!Dirs
    <3>1. r \in RP!Row0
      BY <2>3, <2>4, <2>6, <2>7, ElementOfSeq DEF StoredRow
    <3>2. QED BY <3>1 DEF RP!Row0, RP!Row, RP!Dirs, R!Dirs
  <2>9. w \in {written[R!Dst(r.dir)][j] : j \in DOMAIN written[R!Dst(r.dir)]}
    BY <2>6, <2>7
  <2>10. r.dir = w.dir /\ r.line = w.line /\ r.member = i /\ r.verdict = "BLOCK"
    BY <2>6, <2>7
  <2>11. QED BY <2>5, <2>6, <2>7, <2>8, <2>9, <2>10 DEF R!BlockedNotDelivered
<1>3. QED BY <1>1, <1>2, ComponentsRun, ComponentInvariants, RecordedInvariance, PTL DEF Spec
=============================================================================
