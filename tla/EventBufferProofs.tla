------------------------- MODULE EventBufferProofs -------------------------
(***************************************************************************)
(* What holds of EventBuffer for every queue size, batch size, number of    *)
(* events and of failures.  In this order: its state is well-formed and     *)
(* unless the writer was cancelled the table holds the events in order;     *)
(* without the time limit of shutdown() the writer implements AuditLog; the *)
(* events it may lose; how often it may store an event.                     *)
(***************************************************************************)
EXTENDS EventBuffer, TLAPS, SequenceTheorems, FiniteSetTheorems

-----------------------------------------------------------------------------
(* Ordered sequences.  A Stop may stand behind anything.                    *)

Ordered(s) == \A i, j \in DOMAIN s : i < j /\ s[j] # Stop => s[i] < s[j]
Before(s, t) == \A i \in DOMAIN s, j \in DOMAIN t : t[j] # Stop => s[i] < t[j]
UpTo(s, n) == \A i \in DOMAIN s : s[i] <= n

\* Putting one ordered sequence behind another that is before it keeps order.
LEMMA ConcatOrdered ==
    ASSUME NEW s \in Seq(Nat), NEW t \in Seq(Nat), Ordered(s), Ordered(t), Before(s, t)
    PROVE  Ordered(s \o t)
<1>1. /\ DOMAIN s = 1..Len(s) /\ DOMAIN t = 1..Len(t) /\ Len(s) \in Nat /\ Len(t) \in Nat
      /\ DOMAIN (s \o t) = 1..(Len(s) + Len(t))
      /\ \A i \in 1..(Len(s) + Len(t)) :
            (s \o t)[i] = IF i <= Len(s) THEN s[i] ELSE t[i - Len(s)]
  BY ConcatProperties, LenProperties
<1>2. SUFFICES ASSUME NEW i \in 1..(Len(s) + Len(t)), NEW j \in 1..(Len(s) + Len(t)),
                      i < j, (s \o t)[j] # Stop
               PROVE  (s \o t)[i] < (s \o t)[j]
  BY <1>1 DEF Ordered
<1>3. CASE j <= Len(s)
  <2>1. i \in DOMAIN s /\ j \in DOMAIN s /\ (s \o t)[i] = s[i] /\ (s \o t)[j] = s[j]
    BY <1>1, <1>2, <1>3
  <2>2. QED BY <1>2, <2>1 DEF Ordered
<1>4. CASE i > Len(s)
  <2>1. /\ i - Len(s) \in DOMAIN t /\ j - Len(s) \in DOMAIN t /\ i - Len(s) < j - Len(s)
        /\ (s \o t)[i] = t[i - Len(s)] /\ (s \o t)[j] = t[j - Len(s)]
    BY <1>1, <1>2, <1>4
  <2>2. QED BY <1>2, <2>1 DEF Ordered
<1>5. CASE i <= Len(s) /\ j > Len(s)
  <2>1. /\ i \in DOMAIN s /\ j - Len(s) \in DOMAIN t
        /\ (s \o t)[i] = s[i] /\ (s \o t)[j] = t[j - Len(s)]
    BY <1>1, <1>2, <1>5
  <2>2. QED BY <1>2, <2>1 DEF Before
<1>6. QED BY <1>1, <1>2, <1>3, <1>4, <1>5

\* A concatenation is before what both of its parts are before.
LEMMA ConcatBefore ==
    ASSUME NEW s \in Seq(Nat), NEW t \in Seq(Nat), NEW u \in Seq(Nat),
           Before(s, u), Before(t, u)
    PROVE  Before(s \o t, u)
<1>1. /\ DOMAIN s = 1..Len(s) /\ DOMAIN t = 1..Len(t) /\ Len(s) \in Nat /\ Len(t) \in Nat
      /\ DOMAIN (s \o t) = 1..(Len(s) + Len(t))
      /\ \A i \in 1..(Len(s) + Len(t)) :
            (s \o t)[i] = IF i <= Len(s) THEN s[i] ELSE t[i - Len(s)]
  BY ConcatProperties, LenProperties
<1>2. SUFFICES ASSUME NEW i \in 1..(Len(s) + Len(t)), NEW j \in DOMAIN u, u[j] # Stop
               PROVE  (s \o t)[i] < u[j]
  BY <1>1 DEF Before
<1>3. CASE i <= Len(s)
  <2>1. i \in DOMAIN s /\ (s \o t)[i] = s[i]
    BY <1>1, <1>2, <1>3
  <2>2. QED BY <1>2, <2>1 DEF Before
<1>4. CASE i > Len(s)
  <2>1. i - Len(s) \in DOMAIN t /\ (s \o t)[i] = t[i - Len(s)]
    BY <1>1, <1>2, <1>4
  <2>2. QED BY <1>2, <2>1 DEF Before
<1>5. QED BY <1>1, <1>2, <1>3, <1>4

\* The elements of a concatenation are those of its parts.
LEMMA ConcatUpTo ==
    ASSUME NEW s \in Seq(Nat), NEW t \in Seq(Nat), NEW n \in Nat, UpTo(s, n), UpTo(t, n)
    PROVE  UpTo(s \o t, n)
<1>1. /\ DOMAIN s = 1..Len(s) /\ DOMAIN t = 1..Len(t) /\ Len(s) \in Nat /\ Len(t) \in Nat
      /\ DOMAIN (s \o t) = 1..(Len(s) + Len(t))
      /\ \A i \in 1..(Len(s) + Len(t)) :
            (s \o t)[i] = IF i <= Len(s) THEN s[i] ELSE t[i - Len(s)]
  BY ConcatProperties, LenProperties
<1>2. SUFFICES ASSUME NEW i \in 1..(Len(s) + Len(t))
               PROVE  (s \o t)[i] <= n
  BY <1>1 DEF UpTo
<1>3. CASE i <= Len(s)
  <2>1. i \in DOMAIN s /\ (s \o t)[i] = s[i]
    BY <1>1, <1>2, <1>3
  <2>2. QED BY <1>2, <2>1 DEF UpTo
<1>4. CASE i > Len(s)
  <2>1. i - Len(s) \in DOMAIN t /\ (s \o t)[i] = t[i - Len(s)]
    BY <1>1, <1>2, <1>4
  <2>2. QED BY <1>2, <2>1 DEF UpTo
<1>5. QED BY <1>1, <1>2, <1>3, <1>4

\* A slice of a sequence: its type, its length and its elements.
LEMMA Slice ==
    ASSUME NEW S, NEW s \in Seq(S), NEW m \in 1..(Len(s) + 1), NEW n \in 0..Len(s)
    PROVE  /\ SubSeq(s, m, n) \in Seq(S)
           /\ Len(SubSeq(s, m, n)) = IF m <= n THEN n - m + 1 ELSE 0
           /\ DOMAIN SubSeq(s, m, n) = 1..Len(SubSeq(s, m, n))
           /\ \A i \in DOMAIN SubSeq(s, m, n) :
                 /\ i + m - 1 \in m..n /\ i + m - 1 \in DOMAIN s
                 /\ SubSeq(s, m, n)[i] = s[i + m - 1]
<1>1. \A i \in m..n : s[i] \in S
  BY ElementOfSeq
<1>2. /\ SubSeq(s, m, n) \in Seq(S)
      /\ Len(SubSeq(s, m, n)) = IF m <= n THEN n - m + 1 ELSE 0
      /\ \A i \in 1..(n - m + 1) : SubSeq(s, m, n)[i] = s[m + i - 1]
  BY <1>1, SubSeqProperties
<1>3. DOMAIN SubSeq(s, m, n) = 1..Len(SubSeq(s, m, n)) /\ DOMAIN s = 1..Len(s)
  BY <1>2, LenProperties
<1>4. ASSUME NEW i \in DOMAIN SubSeq(s, m, n)
      PROVE  /\ i + m - 1 \in m..n /\ i + m - 1 \in DOMAIN s
             /\ SubSeq(s, m, n)[i] = s[i + m - 1]
  <2>1. i \in 1..(n - m + 1)
    BY <1>2, <1>3, <1>4
  <2>2. m + i - 1 = i + m - 1
    BY <2>1
  <2>3. SubSeq(s, m, n)[i] = s[m + i - 1]
    BY <1>2, <2>1
  <2>4. QED BY <1>3, <2>1, <2>2, <2>3
<1>5. QED BY <1>2, <1>3, <1>4

\* What remains of a sequence when its head is cut off.
LEMMA SliceToEnd ==
    ASSUME NEW s \in Seq(Nat), NEW p \in 1..(Len(s) + 1)
    PROVE  /\ Len(SubSeq(s, p, Len(s))) = IF p <= Len(s) THEN Len(s) - p + 1 ELSE 0
           /\ DOMAIN SubSeq(s, p, Len(s)) = 1..Len(SubSeq(s, p, Len(s)))
           /\ \A i \in DOMAIN SubSeq(s, p, Len(s)) :
                 /\ i + p - 1 \in p..Len(s) /\ i + p - 1 \in DOMAIN s
                 /\ SubSeq(s, p, Len(s))[i] = s[i + p - 1]
<1>1. Len(s) \in 0..Len(s)
  BY LenProperties
<1>2. \A n \in 0..Len(s) :
         /\ Len(SubSeq(s, p, n)) = IF p <= n THEN n - p + 1 ELSE 0
         /\ DOMAIN SubSeq(s, p, n) = 1..Len(SubSeq(s, p, n))
         /\ \A i \in DOMAIN SubSeq(s, p, n) :
               /\ i + p - 1 \in p..n /\ i + p - 1 \in DOMAIN s
               /\ SubSeq(s, p, n)[i] = s[i + p - 1]
  <2>1. TAKE n \in 0..Len(s)
  <2>2. QED BY Slice
<1>3. QED BY <1>1, <1>2, Zenon

\* A slice of an ordered sequence is ordered, and before a later slice.
LEMMA SliceOrdered ==
    ASSUME NEW s \in Seq(Nat), NEW m \in 1..(Len(s) + 1), NEW n \in 0..Len(s), Ordered(s)
    PROVE  /\ Ordered(SubSeq(s, m, n))
           /\ \A p \in 1..(Len(s) + 1) : n < p => Before(SubSeq(s, m, n), SubSeq(s, p, Len(s)))
<1>1. \A i \in DOMAIN SubSeq(s, m, n) :
         /\ i + m - 1 \in m..n /\ i + m - 1 \in DOMAIN s
         /\ SubSeq(s, m, n)[i] = s[i + m - 1]
  BY Slice, SMTT(30)
<1>2. \A i \in DOMAIN SubSeq(s, m, n) : i \in Nat
  <2>1. DOMAIN SubSeq(s, m, n) = 1..Len(SubSeq(s, m, n))
    BY Slice
  <2>2. QED BY <2>1
<1>3. ASSUME NEW i \in DOMAIN SubSeq(s, m, n), NEW j \in DOMAIN SubSeq(s, m, n),
             i < j, SubSeq(s, m, n)[j] # Stop
      PROVE  SubSeq(s, m, n)[i] < SubSeq(s, m, n)[j]
  <2>1. i + m - 1 < j + m - 1
    BY <1>2, <1>3
  <2>2. QED BY <1>1, <1>3, <2>1 DEF Ordered
<1>4. ASSUME NEW p \in 1..(Len(s) + 1), n < p
      PROVE  Before(SubSeq(s, m, n), SubSeq(s, p, Len(s)))
  <2>1. Len(s) \in 0..Len(s)
    BY LenProperties
  <2>2. \A j \in DOMAIN SubSeq(s, p, Len(s)) :
           /\ j + p - 1 \in p..Len(s) /\ j + p - 1 \in DOMAIN s
           /\ SubSeq(s, p, Len(s))[j] = s[j + p - 1]
    BY <2>1, Slice, SMTT(30)
  <2>3. ASSUME NEW i \in DOMAIN SubSeq(s, m, n), NEW j \in DOMAIN SubSeq(s, p, Len(s)),
               SubSeq(s, p, Len(s))[j] # Stop
        PROVE  SubSeq(s, m, n)[i] < SubSeq(s, p, Len(s))[j]
    <3>1. i + m - 1 \in m..n /\ j + p - 1 \in p..Len(s)
      BY <1>1, <2>2
    <3>2. i + m - 1 < j + p - 1
      BY <1>4, <3>1
    <3>3. QED BY <1>1, <2>2, <2>3, <3>2 DEF Ordered
  <2>4. QED BY <2>3 DEF Before
<1>5. QED BY <1>3, <1>4 DEF Ordered

\* What is before a sequence, after it or bounds it is so of its slices.
LEMMA SliceBefore ==
    ASSUME NEW s \in Seq(Nat), NEW m \in 1..(Len(s) + 1), NEW n \in 0..Len(s)
    PROVE  /\ \A t \in Seq(Nat) : Before(t, s) => Before(t, SubSeq(s, m, n))
           /\ \A t \in Seq(Nat) : Before(s, t) => Before(SubSeq(s, m, n), t)
           /\ \A k \in Nat : UpTo(s, k) => UpTo(SubSeq(s, m, n), k)
  BY Slice DEF Before, UpTo

\* What holds of the empty sequence.
LEMMA Empty ==
    /\ <<>> \in Seq(Nat) /\ Ordered(<<>>) /\ \A n : UpTo(<<>>, n)
    /\ \A s : Before(s, <<>>) /\ Before(<<>>, s)
BY DEF Ordered, Before, UpTo

\* Putting one element at the end.
LEMMA AppendKeeps ==
    ASSUME NEW s \in Seq(Nat), NEW e \in Nat
    PROVE  /\ Append(s, e) \in Seq(Nat)
           /\ \A n \in Nat : UpTo(s, n) /\ (e = Stop \/ n < e) /\ Ordered(s) => Ordered(Append(s, e))
           /\ \A n \in Nat, t \in Seq(Nat) :
                 UpTo(t, n) /\ (e = Stop \/ n < e) /\ Before(t, s) => Before(t, Append(s, e))
           /\ \A n, m \in Nat : UpTo(s, n) /\ n <= m /\ e <= m => UpTo(Append(s, e), m)
<1>1. /\ DOMAIN s = 1..Len(s) /\ Len(s) \in Nat /\ Append(s, e) \in Seq(Nat)
      /\ DOMAIN Append(s, e) = 1..(Len(s) + 1)
      /\ Append(s, e)[Len(s) + 1] = e
      /\ \A i \in 1..Len(s) : Append(s, e)[i] = s[i]
  BY AppendProperties, LenProperties
<1>2. \A i \in DOMAIN s : s[i] \in Nat
  BY <1>1, ElementOfSeq
<1>3. ASSUME NEW n \in Nat, UpTo(s, n), e = Stop \/ n < e, Ordered(s)
      PROVE  Ordered(Append(s, e))
  <2>1. SUFFICES ASSUME NEW i \in DOMAIN Append(s, e), NEW j \in DOMAIN Append(s, e),
                        i < j, Append(s, e)[j] # Stop
                 PROVE  Append(s, e)[i] < Append(s, e)[j]
    BY DEF Ordered
  <2>2. i \in DOMAIN s /\ Append(s, e)[i] = s[i]
    BY <1>1, <2>1
  <2>3. CASE j \in DOMAIN s
    BY <1>1, <1>3, <2>1, <2>2, <2>3 DEF Ordered
  <2>4. CASE j = Len(s) + 1
    <3>1. s[i] <= n /\ n < e /\ Append(s, e)[j] = e
      BY <1>1, <1>3, <2>1, <2>2, <2>4 DEF UpTo
    <3>2. QED BY <1>2, <2>2, <3>1
  <2>5. QED BY <1>1, <2>3, <2>4
<1>4. ASSUME NEW n \in Nat, NEW t \in Seq(Nat), UpTo(t, n), e = Stop \/ n < e, Before(t, s)
      PROVE  Before(t, Append(s, e))
  <2>1. SUFFICES ASSUME NEW i \in DOMAIN t, NEW j \in DOMAIN Append(s, e), Append(s, e)[j] # Stop
                 PROVE  t[i] < Append(s, e)[j]
    BY DEF Before
  <2>2. t[i] \in Nat /\ t[i] <= n
    BY <1>4, <2>1, LenProperties, ElementOfSeq DEF UpTo
  <2>3. CASE j \in DOMAIN s
    BY <1>1, <1>4, <2>1, <2>3 DEF Before
  <2>4. CASE j = Len(s) + 1
    BY <1>1, <1>4, <2>1, <2>2, <2>4
  <2>5. QED BY <1>1, <2>3, <2>4
<1>5. ASSUME NEW n \in Nat, NEW m \in Nat, UpTo(s, n), n <= m, e <= m
      PROVE  UpTo(Append(s, e), m)
  <2>1. SUFFICES ASSUME NEW i \in DOMAIN Append(s, e)
                 PROVE  Append(s, e)[i] <= m
    BY DEF UpTo
  <2>2. CASE i \in DOMAIN s
    <3>1. s[i] <= n /\ s[i] \in Nat /\ Append(s, e)[i] = s[i]
      BY <1>1, <1>2, <1>5, <2>2 DEF UpTo
    <3>2. QED BY <1>5, <3>1
  <2>3. CASE i = Len(s) + 1
    BY <1>1, <1>5, <2>3
  <2>4. QED BY <1>1, <2>2, <2>3
<1>6. QED BY <1>1, <1>3, <1>4, <1>5

-----------------------------------------------------------------------------
(* The four places an event passes through: the table, the open             *)
(* transaction, the batch that is being inserted, and the queue.            *)

InOrder(a, b, c, d, n) ==
    /\ Ordered(a) /\ Ordered(b) /\ Ordered(c) /\ Ordered(d)
    /\ Before(a, b) /\ Before(a, c) /\ Before(a, d)
    /\ Before(b, c) /\ Before(b, d) /\ Before(c, d)
    /\ UpTo(a, n) /\ UpTo(b, n) /\ UpTo(c, n) /\ UpTo(d, n)

\* A commit keeps the order, and so does an executemany, even a partial one.
LEMMA MoveKeepsOrder ==
    ASSUME NEW a \in Seq(Nat), NEW b \in Seq(Nat), NEW c \in Seq(Nat), NEW d \in Seq(Nat),
           NEW n \in Nat, InOrder(a, b, c, d, n)
    PROVE  /\ InOrder(a \o b, <<>>, c, d, n)
           /\ InOrder(a, b \o c, <<>>, d, n)
<1>1. /\ Ordered(a \o b) /\ UpTo(a \o b, n)
      /\ Before(a \o b, c) /\ Before(a \o b, d)
  BY ConcatOrdered, ConcatBefore, ConcatUpTo DEF InOrder
<1>2. /\ Ordered(b \o c) /\ UpTo(b \o c, n) /\ Before(b \o c, d)
  BY ConcatOrdered, ConcatBefore, ConcatUpTo DEF InOrder
<1>3. Before(a, b \o c)
  <2>1. /\ DOMAIN b = 1..Len(b) /\ DOMAIN c = 1..Len(c) /\ Len(b) \in Nat /\ Len(c) \in Nat
        /\ DOMAIN (b \o c) = 1..(Len(b) + Len(c))
        /\ \A i \in 1..(Len(b) + Len(c)) :
              (b \o c)[i] = IF i <= Len(b) THEN b[i] ELSE c[i - Len(b)]
    BY ConcatProperties, LenProperties
  <2>2. SUFFICES ASSUME NEW i \in DOMAIN a, NEW j \in 1..(Len(b) + Len(c)), (b \o c)[j] # Stop
                 PROVE  a[i] < (b \o c)[j]
    BY <2>1 DEF Before
  <2>3. CASE j <= Len(b)
    <3>1. j \in DOMAIN b /\ (b \o c)[j] = b[j]
      BY <2>1, <2>2, <2>3
    <3>2. QED BY <2>2, <3>1 DEF Before, InOrder
  <2>4. CASE j > Len(b)
    <3>1. j - Len(b) \in DOMAIN c /\ (b \o c)[j] = c[j - Len(b)]
      BY <2>1, <2>2, <2>4
    <3>2. QED BY <2>2, <3>1 DEF Before, InOrder
  <2>5. QED BY <2>1, <2>2, <2>3, <2>4
<1>4. InOrder(a \o b, <<>>, c, d, n)
  BY <1>1, Empty DEF InOrder
<1>5. InOrder(a, b \o c, <<>>, d, n)
  BY <1>2, <1>3, Empty DEF InOrder
<1>6. QED BY <1>4, <1>5

\* Losing the transaction, the batch or the end of the batch keeps the order.
LEMMA LossKeepsOrder ==
    ASSUME NEW a \in Seq(Nat), NEW b \in Seq(Nat), NEW c \in Seq(Nat), NEW d \in Seq(Nat),
           NEW n \in Nat, InOrder(a, b, c, d, n)
    PROVE  /\ InOrder(a, <<>>, c, d, n)
           /\ InOrder(a, b, <<>>, d, n)
           /\ \A k \in 0..Len(c) : SubSeq(c, 1, k) \in Seq(Nat) /\ InOrder(a, b, SubSeq(c, 1, k), d, n)
<1>1. InOrder(a, <<>>, c, d, n) /\ InOrder(a, b, <<>>, d, n)
  BY Empty DEF InOrder
<1>2. ASSUME NEW k \in 0..Len(c)
      PROVE  SubSeq(c, 1, k) \in Seq(Nat) /\ InOrder(a, b, SubSeq(c, 1, k), d, n)
  <2>1. 1 \in 1..(Len(c) + 1)
    BY LenProperties
  <2>2. SubSeq(c, 1, k) \in Seq(Nat) /\ Ordered(SubSeq(c, 1, k))
    BY <2>1, Slice, SliceOrdered DEF InOrder
  <2>3. /\ Before(a, SubSeq(c, 1, k)) /\ Before(b, SubSeq(c, 1, k))
        /\ Before(SubSeq(c, 1, k), d) /\ UpTo(SubSeq(c, 1, k), n)
    BY <2>1, SliceBefore DEF InOrder
  <2>4. QED BY <2>2, <2>3 DEF InOrder
<1>3. QED BY <1>1, <1>2

\* The writer takes the first k items, and with them the Stop behind them or not.
LEMMA TakeKeepsOrder ==
    ASSUME NEW a \in Seq(Nat), NEW b \in Seq(Nat), NEW d \in Seq(Nat), NEW n \in Nat,
           InOrder(a, b, <<>>, d, n),
           NEW k \in 0..Len(d), NEW p \in 1..(Len(d) + 1), k < p
    PROVE  /\ InOrder(a, b, SubSeq(d, 1, k), SubSeq(d, p, Len(d)), n)
           /\ InOrder(a, b, <<>>, SubSeq(d, p, Len(d)), n)
<1>1. 1 \in 1..(Len(d) + 1) /\ Len(d) \in 0..Len(d)
  BY LenProperties
<1>2. /\ Ordered(SubSeq(d, 1, k)) /\ Before(SubSeq(d, 1, k), SubSeq(d, p, Len(d)))
      /\ Ordered(SubSeq(d, p, Len(d)))
  BY <1>1, SliceOrdered DEF InOrder
<1>3. /\ Before(a, SubSeq(d, 1, k)) /\ Before(b, SubSeq(d, 1, k)) /\ UpTo(SubSeq(d, 1, k), n)
      /\ Before(a, SubSeq(d, p, Len(d))) /\ Before(b, SubSeq(d, p, Len(d)))
      /\ UpTo(SubSeq(d, p, Len(d)), n)
  BY <1>1, SliceBefore DEF InOrder
<1>4. QED BY <1>2, <1>3, Empty DEF InOrder

\* A new event, or Stop, goes behind everything.
LEMMA ArrivalKeepsOrder ==
    ASSUME NEW a \in Seq(Nat), NEW b \in Seq(Nat), NEW c \in Seq(Nat), NEW d \in Seq(Nat),
           NEW n \in Nat, InOrder(a, b, c, d, n)
    PROVE  /\ InOrder(a, b, c, Append(d, n + 1), n + 1)
           /\ InOrder(a, b, c, Append(d, Stop), n)
<1>1. n + 1 \in Nat /\ n < n + 1 /\ n <= n + 1 /\ Stop \in Nat /\ Stop <= n
  BY DEF Stop
<1>2. \A s \in Seq(Nat) : UpTo(s, n) => UpTo(s, n + 1)
  <2>1. ASSUME NEW s \in Seq(Nat), UpTo(s, n), NEW i \in DOMAIN s
        PROVE  s[i] <= n + 1
    <3>1. s[i] \in Nat /\ s[i] <= n
      BY <2>1, ElementOfSeq, LenProperties DEF UpTo
    <3>2. QED BY <3>1
  <2>2. QED BY <2>1 DEF UpTo
<1>3. /\ Ordered(Append(d, n + 1)) /\ UpTo(Append(d, n + 1), n + 1)
      /\ Before(a, Append(d, n + 1)) /\ Before(b, Append(d, n + 1)) /\ Before(c, Append(d, n + 1))
  BY <1>1, AppendKeeps DEF InOrder
<1>4. /\ Ordered(Append(d, Stop)) /\ UpTo(Append(d, Stop), n)
      /\ Before(a, Append(d, Stop)) /\ Before(b, Append(d, Stop)) /\ Before(c, Append(d, Stop))
  BY <1>1, AppendKeeps DEF InOrder
<1>5. QED BY <1>2, <1>3, <1>4 DEF InOrder

-----------------------------------------------------------------------------
(* The inductive invariant.                                                 *)

\* An operation is with the thread only while the writer awaits it, and every
\* batch has been flushed before the next one is taken.
Consistent ==
    /\ accepted + dropped <= MaxEvents
    /\ wpc = "get" => batch = <<>>
    /\ wpc \in {"get", "done"} => thread = <<>>
    /\ wpc = "many" => thread \in {<<>>, <<"many">>}
    /\ wpc = "commit" => thread \in {<<>>, <<"commit">>}

IInv ==
    /\ TypeOK
    /\ Consistent
    /\ ~Cancelled => InOrder(table, txn, Unexecuted, queue, accepted)

-----------------------------------------------------------------------------
(* The invariant is inductive: one lemma per action.                        *)

\* The four places hold sequences of numbers.
LEMMA Places ==
    ASSUME TypeOK
    PROVE  /\ table \in Seq(Nat) /\ txn \in Seq(Nat) /\ batch \in Seq(Nat)
           /\ queue \in Seq(Nat) /\ Unexecuted \in Seq(Nat) /\ accepted \in Nat
<1>1. Events \subseteq Nat /\ Events \cup {Stop} \subseteq Nat
  BY DEF Events, Stop
<1>2. Seq(Events) \subseteq Seq(Nat) /\ Seq(Events \cup {Stop}) \subseteq Seq(Nat)
  BY <1>1, SeqMonotonic
<1>3. QED BY <1>1, <1>2, Empty DEF TypeOK, Unexecuted

LEMMA InitHolds == Init => IInv
<1>1. InOrder(<<>>, <<>>, <<>>, <<>>, 0)
  BY Empty DEF InOrder
<1>2. SUFFICES ASSUME Init PROVE IInv
  OBVIOUS
<1>3. TypeOK
  <2>1. \A S : <<>> \in Seq(S) /\ Len(<<>>) = 0
    BY EmptySeq
  <2>2. /\ queue \in Seq(Events \cup {Stop}) /\ Len(queue) <= QueueMax
        /\ batch \in Seq(Events) /\ Len(batch) <= BatchSize
        /\ thread \in Seq({"many", "commit"}) /\ txn \in Seq(Events) /\ table \in Seq(Events)
    BY <1>2, <2>1, BufferAssumption DEF Init
  <2>3. accepted \in 0..MaxEvents /\ dropped \in 0..MaxEvents /\ faults \in 0..MaxFaults
    BY <1>2, BufferAssumption DEF Init
  <2>4. QED BY <1>2, <2>2, <2>3 DEF Init, TypeOK
<1>4. Consistent
  BY <1>2, BufferAssumption DEF Init, Consistent
<1>5. Unexecuted = <<>>
  BY <1>2 DEF Init, Unexecuted
<1>6. QED BY <1>1, <1>2, <1>3, <1>4, <1>5 DEF IInv, Init

LEMMA RecordKeeps == IInv /\ Record => IInv'
<1>1. SUFFICES ASSUME IInv, Record PROVE IInv'
  OBVIOUS
<1>2. TypeOK /\ Consistent /\ accepted \in Nat /\ dropped \in Nat
  BY <1>1 DEF IInv, TypeOK
<1>3. UNCHANGED <<writer, db, Unexecuted>> /\ Cancelled' = Cancelled
  BY <1>1 DEF Record, Unexecuted, writer, db, Cancelled
<1>4. CASE HasRoom
  <2>1. accepted' = accepted + 1 /\ queue' = Append(queue, accepted + 1) /\ dropped' = dropped
    BY <1>1, <1>4 DEF Record
  <2>2. accepted + 1 \in Events
    BY <1>1, <1>2, BufferAssumption DEF Record, Events
  <2>3. TypeOK'
    BY <1>1, <1>2, <1>3, <1>4, <2>1, <2>2, BufferAssumption
       DEF TypeOK, Record, HasRoom, writer, db, Events
  <2>4. Consistent'
    BY <1>1, <1>2, <1>3, <2>1, BufferAssumption DEF Consistent, Record, writer, db
  <2>5. ~Cancelled => InOrder(table, txn, Unexecuted, queue, accepted)'
    BY <1>1, <1>2, <1>3, <2>1, Places, ArrivalKeepsOrder DEF IInv, db
  <2>6. QED BY <1>3, <2>3, <2>4, <2>5 DEF IInv
<1>5. CASE ~HasRoom
  <2>1. accepted' = accepted /\ queue' = queue /\ dropped' = dropped + 1
    BY <1>1, <1>5 DEF Record
  <2>2. TypeOK'
    BY <1>1, <1>2, <1>3, <2>1, BufferAssumption DEF TypeOK, Record, writer, db
  <2>3. Consistent'
    BY <1>1, <1>2, <1>3, <2>1, BufferAssumption DEF Consistent, Record, writer, db
  <2>4. QED BY <1>1, <1>3, <2>1, <2>2, <2>3 DEF IInv, db
<1>6. QED BY <1>4, <1>5

LEMMA GetKeeps == IInv /\ Get => IInv'
<1>1. SUFFICES ASSUME IInv, Get PROVE IInv'
  OBVIOUS
<1>2. TypeOK /\ Consistent /\ batch = <<>> /\ thread = <<>> /\ wpc = "get"
  BY <1>1 DEF IInv, Get, Consistent
<1>3. PICK k \in 0..Len(queue) :
          /\ Takes(k)
          /\ batch' = batch \o SubSeq(queue, 1, k)
          /\ queue' = SubSeq(queue, IF MeetsStop(k) THEN k + 2 ELSE k + 1, Len(queue))
          /\ stopping' = StopSeen(k)
          /\ IF FlushNeeded(k)
             THEN wpc' = "many" /\ thread' = Append(thread, "many")
             ELSE wpc' = "done" /\ UNCHANGED thread
  BY <1>1 DEF Get
<1>4. UNCHANGED <<accepted, dropped, spc, failed, txn, table, faults>>
  BY <1>1 DEF Get
<1>5. /\ queue \in Seq(Events \cup {Stop}) /\ Len(queue) \in Nat /\ Len(queue) <= QueueMax
      /\ DOMAIN queue = 1..Len(queue) /\ \A i \in 1..Len(queue) : queue[i] \in Events \cup {Stop}
  BY <1>2, LenProperties, ElementOfSeq DEF TypeOK
<1>6. /\ Len(batch) = 0 /\ k \in Nat /\ 1 \in 1..(Len(queue) + 1) /\ Len(queue) \in 0..Len(queue)
  BY <1>2, <1>5, EmptySeq
<1>7. PICK p \in 1..(Len(queue) + 1) : k < p /\ queue' = SubSeq(queue, p, Len(queue))
  <2>1. CASE MeetsStop(k)
    <3>1. k + 2 \in 1..(Len(queue) + 1) /\ k < k + 2
      BY <1>5, <1>6, <2>1 DEF MeetsStop
    <3>2. QED BY <1>3, <2>1, <3>1
  <2>2. CASE ~MeetsStop(k)
    <3>1. k + 1 \in 1..(Len(queue) + 1) /\ k < k + 1
      BY <1>5, <1>6
    <3>2. QED BY <1>3, <2>2, <3>1
  <2>3. QED BY <2>1, <2>2
<1>8. queue' \in Seq(Events \cup {Stop}) /\ Len(queue') <= QueueMax
  <2>1. /\ queue' \in Seq(Events \cup {Stop})
        /\ Len(queue') = IF p <= Len(queue) THEN Len(queue) - p + 1 ELSE 0
    BY <1>5, <1>6, <1>7, Slice
  <2>2. QED BY <1>5, <1>7, <2>1, BufferAssumption
<1>9. batch' = SubSeq(queue, 1, k) /\ batch' \in Seq(Events) /\ Len(batch') = k
  <2>1. \A i \in 1..k : queue[i] \in Events
    BY <1>3, <1>5, <1>6 DEF Takes
  <2>2. SubSeq(queue, 1, k) \in Seq(Events) /\ Len(SubSeq(queue, 1, k)) = k
    BY <1>6, <2>1, SubSeqProperties
  <2>3. batch' = SubSeq(queue, 1, k)
    BY <1>2, <1>3, <2>2, ConcatEmptySeq
  <2>4. QED BY <2>2, <2>3
<1>10. k <= BatchSize
  <2>1. CASE k = 0
    BY <2>1, BufferAssumption
  <2>2. CASE k > 0
    <3>1. ~FullAfter(k - 1)
      BY <1>3, <1>6, <2>2 DEF Takes
    <3>2. QED BY <1>6, <2>2, <3>1, BufferAssumption DEF FullAfter
  <2>3. QED BY <1>6, <2>1, <2>2
<1>11. /\ thread' \in Seq({"many", "commit"}) /\ wpc' \in {"many", "done"}
       /\ wpc' = "many" => thread' = <<"many">>
       /\ wpc' = "done" => thread' = <<>>
       /\ stopping' \in BOOLEAN
  <2>1. Append(<<>>, "many") = <<"many">> /\ <<"many">> \in Seq({"many", "commit"})
    OBVIOUS
  <2>2. StopSeen(k) \in BOOLEAN
    BY DEF StopSeen, MeetsStop
  <2>3. QED BY <1>2, <1>3, <2>1, <2>2 DEF TypeOK
<1>12. TypeOK'
  BY <1>2, <1>4, <1>8, <1>9, <1>10, <1>11 DEF TypeOK
<1>13. Consistent'
  BY <1>2, <1>4, <1>11 DEF Consistent
<1>14. InOrder(table, txn, Unexecuted, queue, accepted)'
  <2>1. InOrder(table, txn, <<>>, queue, accepted)
    BY <1>1, <1>2 DEF IInv, Unexecuted, Cancelled
  <2>2. /\ InOrder(table, txn, SubSeq(queue, 1, k), SubSeq(queue, p, Len(queue)), accepted)
        /\ InOrder(table, txn, <<>>, SubSeq(queue, p, Len(queue)), accepted)
    BY <1>2, <1>7, <2>1, Places, TakeKeepsOrder
  <2>3. Unexecuted' \in {SubSeq(queue, 1, k), <<>>}
    BY <1>9 DEF Unexecuted
  <2>4. QED BY <1>4, <1>7, <2>2, <2>3
<1>15. QED BY <1>12, <1>13, <1>14 DEF IInv

LEMMA ExecutedKeeps == IInv /\ Executed => IInv'
<1>1. SUFFICES ASSUME IInv, Executed PROVE IInv'
  OBVIOUS
<1>2. TypeOK /\ Consistent /\ wpc = "many" /\ wpc' = "commit" /\ thread = <<>>
  BY <1>1 DEF IInv, Executed
<1>3. thread' = <<"commit">> /\ thread' \in Seq({"many", "commit"})
  BY <1>1, <1>2 DEF Executed
<1>4. UNCHANGED <<queue, accepted, dropped, batch, stopping, spc, failed, txn, table, faults>>
  BY <1>1 DEF Executed
<1>5. TypeOK'
  BY <1>2, <1>3, <1>4 DEF TypeOK
<1>6. Consistent'
  BY <1>2, <1>3, <1>4 DEF Consistent
<1>7. Unexecuted = <<>> /\ Unexecuted' = <<>> /\ ~Cancelled
  BY <1>2 DEF Unexecuted, Cancelled
<1>8. QED BY <1>1, <1>4, <1>5, <1>6, <1>7 DEF IInv

LEMMA FlushedKeeps == IInv /\ Flushed => IInv'
<1>1. SUFFICES ASSUME IInv, Flushed PROVE IInv'
  OBVIOUS
<1>2. /\ TypeOK /\ Consistent /\ thread = <<>> /\ wpc \in {"many", "commit"}
      /\ wpc' \in {"get", "done"} /\ batch' = <<>>
  BY <1>1 DEF IInv, Flushed, BatchAfterFlush
<1>3. UNCHANGED <<queue, accepted, dropped, stopping, spc, db>>
  BY <1>1 DEF Flushed
<1>4. batch' \in Seq(Events) /\ Len(batch') <= BatchSize
  BY <1>2, EmptySeq, BufferAssumption
<1>5. TypeOK'
  BY <1>2, <1>3, <1>4 DEF TypeOK, db
<1>6. Consistent'
  BY <1>2, <1>3 DEF Consistent, db
<1>7. Unexecuted = <<>> /\ Unexecuted' = <<>> /\ ~Cancelled
  BY <1>2 DEF Unexecuted, Cancelled
<1>8. QED BY <1>1, <1>3, <1>5, <1>6, <1>7 DEF IInv, db

\* Once the writer is cancelled only its types matter.
LEMMA CancelExecutedKeeps == IInv /\ CancelExecuted => IInv'
<1>1. SUFFICES ASSUME IInv, CancelExecuted PROVE IInv'
  OBVIOUS
<1>2. TypeOK /\ Consistent /\ wpc' = "ccommit" /\ thread = <<>>
  BY <1>1 DEF IInv, CancelExecuted
<1>3. thread' \in Seq({"many", "commit"})
  BY <1>1, <1>2 DEF CancelExecuted
<1>4. UNCHANGED <<queue, accepted, dropped, batch, stopping, spc, failed, txn, table, faults>>
  BY <1>1 DEF CancelExecuted
<1>5. TypeOK'
  BY <1>2, <1>3, <1>4 DEF TypeOK
<1>6. Consistent' /\ Cancelled'
  BY <1>2, <1>4 DEF Consistent, Cancelled
<1>7. QED BY <1>5, <1>6 DEF IInv

LEMMA CancelFlushedKeeps == IInv /\ CancelFlushed => IInv'
<1>1. SUFFICES ASSUME IInv, CancelFlushed PROVE IInv'
  OBVIOUS
<1>2. TypeOK /\ Consistent /\ wpc' = "cancelled"
  BY <1>1 DEF IInv, CancelFlushed
<1>3. UNCHANGED <<queue, accepted, dropped, batch, stopping, spc, db>>
  BY <1>1 DEF CancelFlushed
<1>4. TypeOK' /\ Consistent' /\ Cancelled'
  BY <1>2, <1>3 DEF TypeOK, Consistent, Cancelled, db
<1>5. QED BY <1>4 DEF IInv

LEMMA ShutdownKeeps == IInv /\ Shutdown => IInv'
<1>1. SUFFICES ASSUME IInv, Shutdown PROVE IInv'
  OBVIOUS
<1>2. spc' = "put" /\ UNCHANGED <<queue, accepted, dropped, writer, db>>
  BY <1>1 DEF Shutdown
<1>3. QED BY <1>1, <1>2 DEF IInv, TypeOK, Consistent, Cancelled, Unexecuted, writer, db

LEMMA PutStopKeeps == IInv /\ PutStop => IInv'
<1>1. SUFFICES ASSUME IInv, PutStop PROVE IInv'
  OBVIOUS
<1>2. TypeOK /\ Consistent /\ queue' = Append(queue, Stop) /\ spc' = "wait"
  BY <1>1 DEF IInv, PutStop
<1>3. UNCHANGED <<accepted, dropped, writer, db>>
  BY <1>1 DEF PutStop
<1>4. queue' \in Seq(Events \cup {Stop}) /\ Len(queue') <= QueueMax
  BY <1>1, <1>2, BufferAssumption DEF PutStop, TypeOK
<1>5. TypeOK'
  BY <1>2, <1>3, <1>4 DEF TypeOK, writer, db
<1>6. Consistent' /\ Cancelled' = Cancelled /\ Unexecuted' = Unexecuted
  BY <1>2, <1>3 DEF Consistent, Cancelled, Unexecuted, writer, db
<1>7. ~Cancelled => InOrder(table, txn, Unexecuted, queue, accepted)'
  BY <1>1, <1>2, <1>3, <1>6, Places, ArrivalKeepsOrder DEF IInv, db
<1>8. QED BY <1>5, <1>6, <1>7 DEF IInv

LEMMA TimeoutKeeps == IInv /\ Timeout => IInv'
<1>1. SUFFICES ASSUME IInv, Timeout PROVE IInv'
  OBVIOUS
<1>2. TypeOK /\ Consistent /\ spc' = "cancel"
  BY <1>1 DEF IInv, Timeout
<1>3. UNCHANGED <<queue, accepted, dropped, batch, stopping, failed, txn, table, faults>>
  BY <1>1 DEF Timeout
<1>4. CASE wpc' = CancelHandler(wpc) /\ thread' = IF wpc' = "cmany" THEN Append(thread, "many") ELSE thread
  <2>1. thread' \in Seq({"many", "commit"})
    BY <1>2, <1>4 DEF TypeOK
  <2>2. wpc' \in {"cmany", "cancelled"}
    BY <1>4 DEF CancelHandler
  <2>3. TypeOK' /\ Consistent' /\ Cancelled'
    BY <1>2, <1>3, <2>1, <2>2 DEF TypeOK, Consistent, Cancelled
  <2>4. QED BY <2>3 DEF IInv
<1>5. CASE wpc = "get" /\ UNCHANGED <<wpc, thread>>
  BY <1>1, <1>2, <1>3, <1>5 DEF IInv, TypeOK, Consistent, Cancelled, Unexecuted
<1>6. QED BY <1>1, <1>4, <1>5 DEF Timeout

LEMMA JoinedKeeps == IInv /\ Joined => IInv'
<1>1. SUFFICES ASSUME IInv, Joined PROVE IInv'
  OBVIOUS
<1>2. spc' = "done" /\ UNCHANGED <<queue, accepted, dropped, writer, db>>
  BY <1>1 DEF Joined
<1>3. QED BY <1>1, <1>2 DEF IInv, TypeOK, Consistent, Cancelled, Unexecuted, writer, db

\* The operation leaves the thread, and every row it moves is an event.
LEMMA ThreadManyKeeps == IInv /\ ThreadMany => IInv'
<1>1. SUFFICES ASSUME IInv, ThreadMany PROVE IInv'
  OBVIOUS
<1>2. TypeOK /\ Consistent /\ thread # <<>> /\ Head(thread) = "many" /\ thread' = Tail(thread)
  BY <1>1 DEF IInv, ThreadMany
<1>3. UNCHANGED <<queue, accepted, dropped, writer, spc, table>>
  BY <1>1 DEF ThreadMany
<1>4. faults' \in 0..MaxFaults /\ failed' \in BOOLEAN
  <2>1. \/ faults' = faults /\ failed' = FALSE
        \/ faults < MaxFaults /\ faults' = faults + 1 /\ failed' = TRUE
    BY <1>1 DEF ThreadMany
  <2>2. faults \in 0..MaxFaults /\ MaxFaults \in Nat
    BY <1>2, BufferAssumption DEF TypeOK
  <2>3. faults < MaxFaults => faults + 1 \in 0..MaxFaults
    BY <2>2
  <2>4. faults' \in 0..MaxFaults
    BY <2>1, <2>2, <2>3
  <2>5. failed' \in BOOLEAN
    BY <2>1
  <2>6. QED BY <2>4, <2>5
<1>5. thread' \in Seq({"many", "commit"})
  BY <1>2, HeadTailProperties DEF TypeOK
<1>6. \/ txn' = txn \o batch
      \/ \E k \in 0..(Len(batch) - 1) : txn' = txn \o SubSeq(batch, 1, k)
      \/ txn' = <<>>
  BY <1>1 DEF ThreadMany
<1>7. txn' \in Seq(Events)
  <2>1. \A k \in 0..(Len(batch) - 1) : SubSeq(batch, 1, k) \in Seq(Events)
    <3>1. Len(batch) \in Nat /\ batch \in Seq(Events)
      BY <1>2, LenProperties DEF TypeOK
    <3>2. QED BY <3>1, Slice
  <2>2. txn \in Seq(Events) /\ batch \in Seq(Events) /\ <<>> \in Seq(Events)
    BY <1>2, EmptySeq DEF TypeOK
  <2>3. /\ txn \o batch \in Seq(Events)
        /\ \A k \in 0..(Len(batch) - 1) : txn \o SubSeq(batch, 1, k) \in Seq(Events)
    BY <2>1, <2>2, ConcatProperties
  <2>4. QED BY <1>6, <2>2, <2>3
<1>8. TypeOK'
  BY <1>2, <1>3, <1>4, <1>5, <1>7 DEF TypeOK, writer
<1>9. ~Cancelled => wpc = "many" /\ thread = <<"many">> /\ thread' = <<>>
  BY <1>2, SMTT(30) DEF Consistent, Cancelled, TypeOK
<1>10. Consistent'
  <2>1. CASE Cancelled
    BY <1>2, <1>3, <2>1 DEF Consistent, Cancelled, writer
  <2>2. CASE ~Cancelled
    BY <1>2, <1>3, <1>9, <2>2 DEF Consistent, writer
  <2>3. QED BY <2>1, <2>2
<1>11. ASSUME ~Cancelled PROVE InOrder(table, txn, Unexecuted, queue, accepted)'
  <2>1. Unexecuted = batch /\ Unexecuted' = <<>>
    BY <1>3, <1>9, <1>11 DEF Unexecuted, writer
  <2>2. InOrder(table, txn, batch, queue, accepted) /\ batch \in Seq(Nat)
    BY <1>1, <1>2, <1>11, <2>1, Places DEF IInv
  <2>3. CASE txn' = txn \o batch
    BY <1>2, <1>3, <2>1, <2>2, <2>3, Places, MoveKeepsOrder
  <2>4. CASE txn' = <<>>
    <3>1. InOrder(table, <<>>, batch, queue, accepted)
      BY <1>2, <2>2, Places, LossKeepsOrder
    <3>2. InOrder(table, <<>>, <<>>, queue, accepted)
      BY <1>2, <2>2, <3>1, Places, Empty, LossKeepsOrder
    <3>3. QED BY <1>3, <2>1, <2>4, <3>2
  <2>5. CASE \E k \in 0..(Len(batch) - 1) : txn' = txn \o SubSeq(batch, 1, k)
    <3>1. PICK k \in 0..Len(batch) : txn' = txn \o SubSeq(batch, 1, k)
      <4>1. Len(batch) \in Nat
        BY <2>2, LenProperties
      <4>2. \A k \in 0..(Len(batch) - 1) : k \in 0..Len(batch)
        BY <4>1
      <4>3. QED BY <2>5, <4>2
    <3>2. SubSeq(batch, 1, k) \in Seq(Nat) /\ InOrder(table, txn, SubSeq(batch, 1, k), queue, accepted)
      BY <1>2, <2>2, Places, LossKeepsOrder
    <3>3. InOrder(table, txn \o SubSeq(batch, 1, k), <<>>, queue, accepted)
      BY <1>2, <3>2, Places, MoveKeepsOrder
    <3>4. QED BY <1>3, <2>1, <3>1, <3>3
  <2>6. QED BY <1>6, <2>3, <2>4, <2>5
<1>12. Cancelled' = Cancelled
  BY <1>3 DEF Cancelled, writer
<1>13. QED BY <1>8, <1>10, <1>11, <1>12 DEF IInv

LEMMA ThreadCommitKeeps == IInv /\ ThreadCommit => IInv'
<1>1. SUFFICES ASSUME IInv, ThreadCommit PROVE IInv'
  OBVIOUS
<1>2. TypeOK /\ Consistent /\ thread # <<>> /\ Head(thread) = "commit" /\ thread' = Tail(thread)
  BY <1>1 DEF IInv, ThreadCommit
<1>3. UNCHANGED <<queue, accepted, dropped, writer, spc>>
  BY <1>1 DEF ThreadCommit
<1>4. faults' \in 0..MaxFaults /\ failed' \in BOOLEAN
  <2>1. \/ faults' = faults /\ failed' = FALSE
        \/ faults < MaxFaults /\ faults' = faults + 1 /\ failed' = TRUE
    BY <1>1 DEF ThreadCommit
  <2>2. faults \in 0..MaxFaults /\ MaxFaults \in Nat
    BY <1>2, BufferAssumption DEF TypeOK
  <2>3. faults < MaxFaults => faults + 1 \in 0..MaxFaults
    BY <2>2
  <2>4. faults' \in 0..MaxFaults
    BY <2>1, <2>2, <2>3
  <2>5. failed' \in BOOLEAN
    BY <2>1
  <2>6. QED BY <2>4, <2>5
<1>5. thread' \in Seq({"many", "commit"})
  BY <1>2, HeadTailProperties DEF TypeOK
<1>6. \/ table' = table \o txn /\ txn' = <<>>
      \/ table' = table /\ txn' \in {txn, <<>>}
  BY <1>1 DEF ThreadCommit
<1>7. txn' \in Seq(Events) /\ table' \in Seq(Events)
  <2>1. txn \in Seq(Events) /\ table \in Seq(Events) /\ <<>> \in Seq(Events)
    BY <1>2, EmptySeq DEF TypeOK
  <2>2. table \o txn \in Seq(Events)
    BY <2>1, ConcatProperties
  <2>3. QED BY <1>6, <2>1, <2>2
<1>8. TypeOK'
  BY <1>2, <1>3, <1>4, <1>5, <1>7 DEF TypeOK, writer
<1>9. ~Cancelled => wpc = "commit" /\ thread = <<"commit">> /\ thread' = <<>>
  BY <1>2, SMTT(30) DEF Consistent, Cancelled, TypeOK
<1>10. Consistent'
  <2>1. CASE Cancelled
    BY <1>2, <1>3, <2>1 DEF Consistent, Cancelled, writer
  <2>2. CASE ~Cancelled
    BY <1>2, <1>3, <1>9, <2>2 DEF Consistent, writer
  <2>3. QED BY <2>1, <2>2
<1>11. ASSUME ~Cancelled PROVE InOrder(table, txn, Unexecuted, queue, accepted)'
  <2>1. Unexecuted = <<>> /\ Unexecuted' = <<>>
    BY <1>3, <1>9, <1>11 DEF Unexecuted, writer
  <2>2. InOrder(table, txn, <<>>, queue, accepted)
    BY <1>1, <1>11, <2>1 DEF IInv
  <2>3. InOrder(table \o txn, <<>>, <<>>, queue, accepted) /\ InOrder(table, <<>>, <<>>, queue, accepted)
    BY <1>2, <2>2, Places, Empty, MoveKeepsOrder, LossKeepsOrder
  <2>4. QED BY <1>3, <1>6, <2>1, <2>2, <2>3
<1>12. Cancelled' = Cancelled
  BY <1>3 DEF Cancelled, writer
<1>13. QED BY <1>8, <1>10, <1>11, <1>12 DEF IInv

LEMMA OtherCommitKeeps == IInv /\ OtherCommit => IInv'
<1>1. SUFFICES ASSUME IInv, OtherCommit PROVE IInv'
  OBVIOUS
<1>2. TypeOK /\ Consistent /\ table' = table \o txn /\ txn' = <<>>
  BY <1>1 DEF IInv, OtherCommit
<1>3. UNCHANGED <<queue, accepted, dropped, writer, spc, thread, failed, faults>>
  BY <1>1 DEF OtherCommit
<1>4. txn' \in Seq(Events) /\ table' \in Seq(Events)
  BY <1>2, ConcatProperties, EmptySeq DEF TypeOK
<1>5. TypeOK' /\ Consistent'
  BY <1>2, <1>3, <1>4 DEF TypeOK, Consistent, writer
<1>6. Cancelled' = Cancelled /\ Unexecuted' = Unexecuted
  BY <1>3 DEF Cancelled, Unexecuted, writer
<1>7. ~Cancelled => InOrder(table, txn, Unexecuted, queue, accepted)'
  BY <1>1, <1>2, <1>3, <1>6, Places, MoveKeepsOrder DEF IInv
<1>8. QED BY <1>5, <1>6, <1>7 DEF IInv

LEMMA StutterKeeps == IInv /\ UNCHANGED vars => IInv'
BY DEF IInv, TypeOK, Consistent, Cancelled, Unexecuted, vars, writer, db

-----------------------------------------------------------------------------
(* The theorems.                                                            *)

LEMMA Invariance == Init /\ [][Next]_vars => []IInv
<1>1. Init => IInv
  BY InitHolds
<1>2. IInv /\ [Next]_vars => IInv'
  <2>1. IInv /\ WriterStep => IInv'
    BY GetKeeps, ExecutedKeeps, FlushedKeeps, CancelExecutedKeeps, CancelFlushedKeeps DEF WriterStep
  <2>2. IInv /\ ShutdownStep => IInv'
    BY PutStopKeeps, JoinedKeeps DEF ShutdownStep
  <2>3. IInv /\ ThreadStep => IInv'
    BY ThreadManyKeeps, ThreadCommitKeeps DEF ThreadStep
  <2>4. IInv /\ Terminated => IInv'
    BY StutterKeeps DEF Terminated
  <2>5. QED BY <2>1, <2>2, <2>3, <2>4, RecordKeeps, ShutdownKeeps, TimeoutKeeps,
               OtherCommitKeeps, StutterKeeps DEF Next
<1>3. QED BY <1>1, <1>2, PTL

LEMMA TypesHold == IInv => TypeOK
BY DEF IInv

\* The queue never exceeds queue_max nor a batch batch_size, and the state of the
\* buffer, its writer and the connection stays well-formed.
THEOREM TypeCorrect == Spec => []TypeOK
BY TypesHold, Invariance, PTL DEF Spec

LEMMA TableInOrder == IInv => RowsInOrder
<1>1. SUFFICES ASSUME IInv, ~Cancelled, NEW i \in DOMAIN table, NEW j \in DOMAIN table, i < j
               PROVE  table[i] < table[j]
  BY DEF RowsInOrder, Increasing
<1>2. table[j] # Stop
  <2>1. table \in Seq(Events)
    BY <1>1 DEF IInv, TypeOK
  <2>2. table[j] \in Events
    BY <1>1, <2>1, ElementOfSeq, LenProperties
  <2>3. QED BY <2>2, BufferAssumption DEF Events, Stop
<1>3. Ordered(table)
  BY <1>1 DEF IInv, InOrder
<1>4. QED BY <1>1, <1>2, <1>3 DEF Ordered

\* Whatever fails and whoever commits the shared transaction, the table of a
\* writer that was not cancelled holds each event at most once and in order.
THEOREM StoredInOrder == Spec => []RowsInOrder
BY TableInOrder, Invariance, PTL DEF Spec

-----------------------------------------------------------------------------
(* The writer implements AuditLog when the time limit of shutdown() does    *)
(* not expire.                                                              *)

\* Rows that n database failures may leave in the open transaction, and events
\* that they may cost.
Room(n) == BatchSize * n

\* The batch was inserted and waits for its commit.
BatchInTxn == \/ wpc = "many" /\ thread = <<>> /\ ~failed
              \/ wpc = "commit" /\ thread # <<>>

\* Nothing is recorded behind the Stop, which shutdown() puts once.
StopLast ==
    /\ \A i \in DOMAIN queue : queue[i] = Stop => i = Len(queue)
    /\ spc \in {"idle", "put"} => \A i \in DOMAIN queue : queue[i] # Stop

\* A transaction holds what failures left there, and the batch in hand.
TxnBounded ==
    ~Cancelled => Len(txn) <= Room(faults) + (IF BatchInTxn THEN BatchSize ELSE 0)

LogInv == StopLast /\ TxnBounded

LEMMA Rooms ==
    ASSUME NEW n \in Nat
    PROVE  Room(n) \in Nat /\ Room(n + 1) = Room(n) + BatchSize /\ BatchSize \in Nat \ {0}
BY BufferAssumption DEF Room

\* The failures so far and the operations of the thread, as an action leaves them.
LEMMA GetEffect ==
    ASSUME IInv, Get
    PROVE  \E k \in 0..Len(queue), p \in 1..(Len(queue) + 1) :
              /\ p = k + 1 \/ (p = k + 2 /\ k + 1 \in DOMAIN queue /\ queue[k + 1] = Stop)
              /\ batch' = SubSeq(queue, 1, k) /\ queue' = SubSeq(queue, p, Len(queue))
              /\ \A i \in 1..k : queue[i] # Stop
              /\ batch = <<>> /\ thread = <<>> /\ wpc = "get"
              /\ \/ wpc' = "many" /\ thread' = <<"many">>
                 \/ wpc' = "done" /\ thread' = <<>> /\ k = 0
              /\ UNCHANGED <<accepted, dropped, spc, failed, txn, table, faults>>
<1>1. /\ TypeOK /\ batch = <<>> /\ thread = <<>> /\ wpc = "get"
      /\ UNCHANGED <<accepted, dropped, spc, failed, txn, table, faults>>
  BY DEF IInv, Get, Consistent
<1>2. PICK k \in 0..Len(queue) :
          /\ Takes(k)
          /\ batch' = batch \o SubSeq(queue, 1, k)
          /\ queue' = SubSeq(queue, IF MeetsStop(k) THEN k + 2 ELSE k + 1, Len(queue))
          /\ IF FlushNeeded(k)
             THEN wpc' = "many" /\ thread' = Append(thread, "many")
             ELSE wpc' = "done" /\ UNCHANGED thread
  BY DEF Get
<1>3. /\ queue \in Seq(Events \cup {Stop}) /\ Len(queue) \in Nat
      /\ DOMAIN queue = 1..Len(queue) /\ Len(batch) = 0 /\ k \in Nat
      /\ 1 \in 1..(Len(queue) + 1) /\ Len(queue) \in 0..Len(queue)
  BY <1>1, LenProperties, EmptySeq DEF TypeOK
<1>4. SubSeq(queue, 1, k) \in Seq(Events \cup {Stop})
  BY <1>3, Slice
<1>5. batch' = SubSeq(queue, 1, k)
  BY <1>1, <1>2, <1>4, ConcatEmptySeq
<1>6. \/ wpc' = "many" /\ thread' = <<"many">>
      \/ wpc' = "done" /\ thread' = <<>> /\ k = 0
  BY <1>1, <1>2, <1>3 DEF FlushNeeded
<1>7. \A i \in 1..k : queue[i] # Stop
  BY <1>2 DEF Takes
<1>8. CASE MeetsStop(k)
  <2>1. /\ k + 2 \in 1..(Len(queue) + 1) /\ queue' = SubSeq(queue, k + 2, Len(queue))
        /\ k + 1 \in DOMAIN queue /\ queue[k + 1] = Stop
    BY <1>2, <1>3, <1>8 DEF MeetsStop
  <2>2. QED BY <1>1, <1>5, <1>6, <1>7, <2>1
<1>9. CASE ~MeetsStop(k)
  <2>1. k + 1 \in 1..(Len(queue) + 1) /\ queue' = SubSeq(queue, k + 1, Len(queue))
    BY <1>2, <1>3, <1>9
  <2>2. QED BY <1>1, <1>5, <1>6, <1>7, <2>1
<1>10. QED BY <1>8, <1>9

\* What the thread executes for a writer that was not cancelled.
LEMMA ThreadEffect ==
    ASSUME IInv, ~Cancelled
    PROVE  /\ ThreadMany => /\ wpc = "many" /\ thread = <<"many">> /\ thread' = <<>>
                            /\ UNCHANGED <<queue, accepted, batch, wpc, table>>
           /\ ThreadCommit => /\ wpc = "commit" /\ thread = <<"commit">> /\ thread' = <<>>
                              /\ UNCHANGED <<queue, accepted, batch, wpc>>
<1>1. /\ wpc \in {"get", "many", "commit", "done"}
      /\ wpc \in {"get", "done"} => thread = <<>>
      /\ wpc = "many" => thread \in {<<>>, <<"many">>}
      /\ wpc = "commit" => thread \in {<<>>, <<"commit">>}
  BY DEF IInv, TypeOK, Consistent, Cancelled
<1>2. ASSUME ThreadMany
      PROVE  /\ wpc = "many" /\ thread = <<"many">> /\ thread' = <<>>
             /\ UNCHANGED <<queue, accepted, batch, wpc, table>>
  <2>1. thread # <<>> /\ Head(thread) = "many" /\ thread' = Tail(thread)
    BY <1>2 DEF ThreadMany
  <2>2. UNCHANGED <<queue, accepted, batch, wpc, table>>
    BY <1>2 DEF ThreadMany, writer
  <2>3. QED BY <1>1, <2>1, <2>2
<1>3. ASSUME ThreadCommit
      PROVE  /\ wpc = "commit" /\ thread = <<"commit">> /\ thread' = <<>>
             /\ UNCHANGED <<queue, accepted, batch, wpc>>
  <2>1. thread # <<>> /\ Head(thread) = "commit" /\ thread' = Tail(thread)
    BY <1>3 DEF ThreadCommit
  <2>2. UNCHANGED <<queue, accepted, batch, wpc>>
    BY <1>3 DEF ThreadCommit, writer
  <2>3. QED BY <1>1, <2>1, <2>2
<1>4. QED BY <1>2, <1>3

LEMMA StopLastKept == IInv /\ StopLast /\ [Next]_vars => StopLast'
<1>1. SUFFICES ASSUME IInv, StopLast, [Next]_vars PROVE StopLast'
  OBVIOUS
<1>2. TypeOK /\ queue \in Seq(Nat) /\ DOMAIN queue = 1..Len(queue) /\ Len(queue) \in Nat
  BY <1>1, Places, LenProperties DEF IInv
<1>3. \A e \in Nat : /\ DOMAIN Append(queue, e) = 1..(Len(queue) + 1)
                     /\ Len(Append(queue, e)) = Len(queue) + 1
                     /\ Append(queue, e)[Len(queue) + 1] = e
                     /\ \A i \in 1..Len(queue) : Append(queue, e)[i] = queue[i]
  BY <1>2, AppendProperties, LenProperties
<1>4. CASE Record
  <2>1. spc = "idle" /\ spc' = "idle" /\ queue' \in {queue, Append(queue, accepted + 1)}
    BY <1>4 DEF Record
  <2>2. accepted + 1 \in Nat /\ accepted + 1 # Stop
    BY <1>2 DEF TypeOK, Stop
  <2>3. CASE queue' = Append(queue, accepted + 1)
    <3>1. \A i \in DOMAIN queue' : queue'[i] # Stop
      BY <1>1, <1>2, <1>3, <2>1, <2>2, <2>3 DEF StopLast
    <3>2. QED BY <3>1 DEF StopLast
  <2>4. QED BY <1>1, <2>1, <2>3 DEF StopLast
<1>5. CASE PutStop
  <2>1. spc = "put" /\ spc' = "wait" /\ queue' = Append(queue, Stop) /\ Stop \in Nat
    BY <1>5 DEF PutStop, Stop
  <2>2. QED BY <1>1, <1>2, <1>3, <2>1 DEF StopLast
<1>6. CASE Get
  <2>1. PICK k \in 0..Len(queue), p \in 1..(Len(queue) + 1) :
              queue' = SubSeq(queue, p, Len(queue)) /\ spc' = spc
    BY <1>1, <1>6, GetEffect
  <2>2. /\ Len(queue') = IF p <= Len(queue) THEN Len(queue) - p + 1 ELSE 0
        /\ DOMAIN queue' = 1..Len(queue')
        /\ \A i \in DOMAIN queue' :
              /\ i + p - 1 \in p..Len(queue) /\ i + p - 1 \in DOMAIN queue
              /\ queue'[i] = queue[i + p - 1]
    <3>1. PICK q \in Seq(Nat) : q = queue
      BY <1>2
    <3>2. p \in 1..(Len(q) + 1) /\ queue' = SubSeq(q, p, Len(q))
      BY <2>1, <3>1
    <3>3. QED BY <3>1, <3>2, SliceToEnd
  <2>3. \A i \in DOMAIN queue' : queue'[i] = Stop => i = Len(queue')
    <3>1. ASSUME NEW i \in DOMAIN queue', queue'[i] = Stop PROVE i = Len(queue')
      <4>1. i + p - 1 = Len(queue) /\ i \in 1..Len(queue')
        BY <1>1, <2>2, <3>1 DEF StopLast
      <4>2. QED BY <1>2, <2>2, <4>1, SMTT(30)
    <3>2. QED BY <3>1
  <2>4. QED BY <1>1, <2>1, <2>2, <2>3 DEF StopLast
<1>7. CASE UNCHANGED queue /\ (spc' = spc \/ spc' \notin {"idle", "put"} \/ spc = "idle")
  BY <1>1, <1>7 DEF StopLast
<1>8. QED
  BY <1>1, <1>4, <1>5, <1>6, <1>7
     DEF Next, WriterStep, ShutdownStep, ThreadStep, Executed, Flushed, CancelExecuted,
         CancelFlushed, Shutdown, Joined, Timeout, ThreadMany, ThreadCommit, OtherCommit,
         Terminated, vars, writer, db

LEMMA TxnBoundedKept == IInv /\ TxnBounded /\ [Next]_vars => TxnBounded'
<1>1. SUFFICES ASSUME IInv, TxnBounded, [Next]_vars, ~Cancelled' PROVE TxnBounded'
  BY DEF TxnBounded
<1>2. /\ TypeOK /\ Consistent /\ Len(txn) \in Nat /\ Len(batch) \in Nat /\ Len(batch) <= BatchSize
      /\ txn \in Seq(Nat) /\ batch \in Seq(Nat) /\ faults \in Nat
      /\ Room(faults) \in Nat /\ Room(faults + 1) = Room(faults) + BatchSize
      /\ BatchSize \in Nat /\ Len(<<>>) = 0
  BY <1>1, Places, LenProperties, Rooms, EmptySeq DEF IInv, TypeOK
<1>3. ~Cancelled /\ Len(txn) <= Room(faults) + (IF BatchInTxn THEN BatchSize ELSE 0)
  <2>1. ~Cancelled
    BY <1>1 DEF Next, WriterStep, ShutdownStep, ThreadStep, Record, Get, Executed, Flushed,
                CancelExecuted, CancelFlushed, Shutdown, PutStop, Joined, Timeout, ThreadMany,
                ThreadCommit, OtherCommit, Terminated, Cancelled, vars, writer, db
  <2>2. QED BY <1>1, <2>1 DEF TxnBounded
<1>4. CASE Get
  <2>1. ~BatchInTxn /\ UNCHANGED <<txn, faults>>
    BY <1>4 DEF Get, BatchInTxn
  <2>2. QED BY <1>2, <1>3, <2>1 DEF TxnBounded
<1>5. CASE Executed
  <2>1. BatchInTxn /\ BatchInTxn' /\ UNCHANGED <<txn, faults>>
    BY <1>2, <1>5 DEF Executed, BatchInTxn
  <2>2. QED BY <1>2, <1>3, <2>1 DEF TxnBounded
<1>6. CASE Flushed
  <2>1. ~BatchInTxn /\ UNCHANGED <<txn, faults>>
    BY <1>6 DEF Flushed, BatchInTxn, db
  <2>2. QED BY <1>2, <1>3, <2>1 DEF TxnBounded
<1>7. CASE ThreadMany
  <2>1. ~BatchInTxn /\ wpc = "many" /\ wpc' = "many" /\ thread = <<"many">> /\ thread' = <<>>
    BY <1>1, <1>3, <1>7, ThreadEffect DEF BatchInTxn
  <2>2. CASE txn' = txn \o batch /\ failed' = FALSE /\ faults' = faults
    <3>1. Len(txn') = Len(txn) + Len(batch)
      BY <1>2, <2>2, ConcatProperties
    <3>2. QED BY <1>2, <1>3, <2>1, <2>2, <3>1 DEF TxnBounded, BatchInTxn
  <2>3. CASE faults' = faults + 1 /\ \E k \in 0..(Len(batch) - 1) : txn' = txn \o SubSeq(batch, 1, k)
    <3>1. PICK k \in 0..(Len(batch) - 1) : txn' = txn \o SubSeq(batch, 1, k)
      BY <2>3
    <3>2. 1 \in 1..(Len(batch) + 1) /\ k \in 0..Len(batch)
      BY <1>2
    <3>3. SubSeq(batch, 1, k) \in Seq(Nat) /\ Len(SubSeq(batch, 1, k)) = k
      BY <1>2, <3>2, Slice, SMTT(30)
    <3>4. Len(txn') = Len(txn) + k
      BY <1>2, <3>1, <3>3, ConcatProperties, ZenonT(30)
    <3>5. QED BY <1>2, <1>3, <2>1, <2>3, <3>2, <3>4, SMTT(30) DEF TxnBounded
  <2>4. CASE faults' = faults + 1 /\ txn' = <<>>
    BY <1>2, <2>4 DEF TxnBounded
  <2>5. QED BY <1>7, <2>2, <2>3, <2>4 DEF ThreadMany
<1>8. CASE ThreadCommit
  <2>1. wpc = "commit" /\ ~BatchInTxn'
    BY <1>1, <1>3, <1>8, ThreadEffect DEF BatchInTxn
  <2>2. \/ txn' = <<>> /\ faults' \in {faults, faults + 1}
        \/ txn' = txn /\ faults' = faults + 1
    BY <1>8 DEF ThreadCommit
  <2>3. QED BY <1>2, <1>3, <2>1, <2>2 DEF TxnBounded
<1>9. CASE OtherCommit
  BY <1>2, <1>9 DEF OtherCommit, TxnBounded
<1>10. CASE Timeout
  <2>1. UNCHANGED <<txn, faults, wpc, thread, failed>>
    BY <1>1, <1>10 DEF Timeout, CancelHandler, Cancelled
  <2>2. QED BY <1>2, <1>3, <2>1 DEF TxnBounded, BatchInTxn
<1>11. CASE UNCHANGED <<txn, faults, wpc, thread, failed>>
  BY <1>2, <1>3, <1>11 DEF TxnBounded, BatchInTxn
<1>12. QED
  BY <1>1, <1>3, <1>4, <1>5, <1>6, <1>7, <1>8, <1>9, <1>10, <1>11
     DEF Next, WriterStep, ShutdownStep, ThreadStep, Record, CancelExecuted, CancelFlushed,
         Shutdown, PutStop, Joined, Terminated, Cancelled, vars, writer, db

-----------------------------------------------------------------------------
(* Pieces of a concatenation.                                               *)

LEMMA Suffix ==
    ASSUME NEW s \in Seq(Nat), NEW m \in 1..(Len(s) + 1)
    PROVE  /\ SubSeq(s, m, Len(s)) \in Seq(Nat)
           /\ Len(SubSeq(s, m, Len(s))) = Len(s) + 1 - m
           /\ DOMAIN SubSeq(s, m, Len(s)) = 1..(Len(s) + 1 - m)
           /\ \A i \in 1..(Len(s) + 1 - m) : SubSeq(s, m, Len(s))[i] = s[i + m - 1]
<1>1. Len(s) \in Nat /\ Len(s) \in 0..Len(s)
  BY LenProperties
<1> DEFINE t == SubSeq(s, m, Len(s))
<1>2. /\ t \in Seq(Nat) /\ Len(t) = IF m <= Len(s) THEN Len(s) - m + 1 ELSE 0
      /\ DOMAIN t = 1..Len(t) /\ \A i \in DOMAIN t : t[i] = s[i + m - 1]
  BY <1>1, Slice, SMTT(30)
<1> HIDE DEF t
<1>3. Len(t) = Len(s) + 1 - m
  BY <1>1, <1>2
<1>4. QED BY <1>2, <1>3 DEF t

LEMMA Pieces ==
    ASSUME NEW s \in Seq(Nat), NEW t \in Seq(Nat)
    PROVE  /\ s \o t \in Seq(Nat) /\ Len(s \o t) = Len(s) + Len(t)
           /\ Len(s) \in Nat /\ Len(t) \in Nat
           /\ SubSeq(s \o t, 1, Len(s)) = s
           /\ SubSeq(s \o t, Len(s) + 1, Len(s \o t)) = t
<1>1. /\ s \o t \in Seq(Nat) /\ Len(s \o t) = Len(s) + Len(t)
      /\ \A i \in 1..(Len(s) + Len(t)) :
            (s \o t)[i] = IF i <= Len(s) THEN s[i] ELSE t[i - Len(s)]
      /\ Len(s) \in Nat /\ Len(t) \in Nat
  BY ConcatProperties, LenProperties
<1>2. SubSeq(s \o t, 1, Len(s)) = s
  <2>1. 1 \in 1..(Len(s \o t) + 1) /\ Len(s) \in 0..Len(s \o t)
    BY <1>1
  <2>2. /\ SubSeq(s \o t, 1, Len(s)) \in Seq(Nat)
        /\ Len(SubSeq(s \o t, 1, Len(s))) = Len(s)
        /\ DOMAIN SubSeq(s \o t, 1, Len(s)) = 1..Len(s)
        /\ \A i \in DOMAIN SubSeq(s \o t, 1, Len(s)) :
              SubSeq(s \o t, 1, Len(s))[i] = (s \o t)[i + 1 - 1]
    BY <1>1, <2>1, Slice
  <2>3. \A i \in 1..Len(s) : SubSeq(s \o t, 1, Len(s))[i] = s[i]
    <3>1. \A i \in 1..Len(s) : i + 1 - 1 = i /\ i \in 1..(Len(s) + Len(t)) /\ i <= Len(s)
      BY <1>1
    <3>2. QED BY <1>1, <2>2, <3>1
  <2>4. QED BY <2>2, <2>3, SeqEqual
<1>3. SubSeq(s \o t, Len(s) + 1, Len(s \o t)) = t
  <2>1. PICK st \in Seq(Nat) : st = s \o t
    BY <1>1
  <2>2. PICK m \in 1..(Len(st) + 1) : m = Len(s) + 1
    BY <1>1, <2>1
  <2>3. PICK u \in Seq(Nat) :
           /\ u = SubSeq(st, m, Len(st)) /\ Len(u) = Len(st) + 1 - m
           /\ \A i \in 1..(Len(st) + 1 - m) : u[i] = st[i + m - 1]
    BY Suffix
  <2>4. Len(u) = Len(t) /\ Len(st) + 1 - m = Len(t)
    BY <1>1, <2>1, <2>2, <2>3
  <2>5. \A i \in 1..Len(t) : u[i] = t[i]
    <3>1. \A i \in 1..Len(t) : /\ i + m - 1 = i + Len(s)
                               /\ i + Len(s) \in 1..(Len(s) + Len(t))
                               /\ ~(i + Len(s) <= Len(s)) /\ (i + Len(s)) - Len(s) = i
      BY <1>1, <2>2
    <3>2. \A i \in 1..Len(t) : st[i + Len(s)] = t[i]
      BY <1>1, <2>1, <3>1
    <3>3. QED BY <2>3, <2>4, <3>1, <3>2
  <2>6. u = t
    BY <2>4, <2>5, SeqEqual
  <2>7. QED BY <2>1, <2>2, <2>3, <2>6
<1>4. QED BY <1>1, <1>2, <1>3

\* ConcatAssociative, for the sequences that are here.
LEMMA Associative == \A s, t, u \in Seq(Nat) : (s \o t) \o u = s \o (t \o u)
BY ConcatAssociative, SMTT(30)

\* Cutting the middle of three pieces out.
LEMMA CutOut ==
    ASSUME NEW s \in Seq(Nat), NEW t \in Seq(Nat), NEW u \in Seq(Nat)
    PROVE  /\ (s \o t) \o u = s \o (t \o u) /\ (s \o t) \o u \in Seq(Nat)
           /\ Len((s \o t) \o u) = Len(s) + Len(t) + Len(u)
           /\ SubSeq((s \o t) \o u, 1, Len(s)) = s
           /\ SubSeq((s \o t) \o u, Len(s) + 1, Len((s \o t) \o u)) = t \o u
           /\ SubSeq((s \o t) \o u, Len(s) + Len(t) + 1, Len((s \o t) \o u)) = u
<1>1. (s \o t) \o u = s \o (t \o u)
  BY ConcatAssociative, SMTT(30)
<1>2. s \o t \in Seq(Nat) /\ t \o u \in Seq(Nat)
  BY Pieces
<1> DEFINE st == s \o t
           tu == t \o u
<1>3. /\ st \in Seq(Nat) /\ tu \in Seq(Nat) /\ st \o u = s \o tu
      /\ Len(st) = Len(s) + Len(t)
  BY <1>1, <1>2, Pieces
<1>4. st = s \o t /\ tu = t \o u
  OBVIOUS
<1> HIDE DEF st, tu
<1>5. /\ st \o u \in Seq(Nat) /\ Len(st \o u) = Len(st) + Len(u)
      /\ SubSeq(st \o u, Len(st) + 1, Len(st \o u)) = u
  BY <1>3, Pieces
<1>6. /\ SubSeq(s \o tu, 1, Len(s)) = s
      /\ SubSeq(s \o tu, Len(s) + 1, Len(s \o tu)) = tu
  BY <1>3, Pieces
<1>7. QED BY <1>3, <1>4, <1>5, <1>6

\* The events that wait: taking some of them, and the Stop behind them or not,
\* leaves the others.
LEMMA WaitingSplits ==
    ASSUME NEW q \in Seq(Nat), \A i \in DOMAIN q : q[i] = Stop => i = Len(q),
           NEW k \in 0..Len(q), \A i \in 1..k : q[i] # Stop,
           NEW p \in 1..(Len(q) + 1),
           p = k + 1 \/ (p = k + 2 /\ k + 1 \in DOMAIN q /\ q[k + 1] = Stop)
    PROVE  /\ SubSeq(q, 1, k) \in Seq(Nat)
           /\ WithoutStop(SubSeq(q, p, Len(q))) \in Seq(Nat)
           /\ SubSeq(q, 1, k) \o WithoutStop(SubSeq(q, p, Len(q))) = WithoutStop(q)
<1>1. PICK n \in Nat : n = Len(q) /\ DOMAIN q = 1..n
  BY LenProperties
<1>2. k \in 0..n /\ k \in Nat /\ p \in 1..(n + 1) /\ p \in Nat /\ 1 \in 1..(n + 1)
  BY <1>1
<1>3. q = <<>> <=> n = 0
  BY <1>1, EmptySeq
<1>4. PICK front \in Seq(Nat) : front = SubSeq(q, 1, k)
  BY <1>1, <1>2, Slice
<1>5. PICK rest \in Seq(Nat) :
         /\ rest = SubSeq(q, p, n) /\ Len(rest) = n + 1 - p
         /\ \A i \in 1..(n + 1 - p) : rest[i] = q[i + p - 1]
  <2>1. /\ SubSeq(q, p, Len(q)) \in Seq(Nat) /\ Len(SubSeq(q, p, Len(q))) = Len(q) + 1 - p
        /\ \A i \in 1..(Len(q) + 1 - p) : SubSeq(q, p, Len(q))[i] = q[i + p - 1]
    BY Suffix
  <2>2. QED BY <1>1, <2>1
<1>6. rest = <<>> <=> n + 1 - p = 0
  BY <1>5, EmptySeq
<1>7. CASE p = k + 2 /\ k + 1 \in DOMAIN q /\ q[k + 1] = Stop
  <2>1. k + 1 = n /\ n - 1 = k /\ n + 1 - p = 0 /\ n # 0
    <3>1. k + 1 = n
      BY <1>1, <1>7
    <3>2. QED BY <1>2, <1>7, <3>1
  <2>2. WithoutStop(rest) = <<>>
    BY <1>6, <2>1 DEF WithoutStop
  <2>3. WithoutStop(q) = front
    BY <1>1, <1>3, <1>4, <1>7, <2>1 DEF WithoutStop
  <2>4. QED BY <1>1, <1>4, <1>5, <2>2, <2>3, ConcatEmptySeq, EmptySeq
<1>8. CASE p = k + 1 /\ k = n
  <2>1. n + 1 - p = 0
    BY <1>2, <1>8
  <2>2. WithoutStop(rest) = <<>>
    BY <1>6, <2>1 DEF WithoutStop
  <2>3. front = q
    BY <1>1, <1>4, <1>8, SubSeqFull
  <2>4. WithoutStop(q) = q
    <3>1. q # <<>> => n \in 1..k
      BY <1>2, <1>3, <1>8
    <3>2. QED BY <1>1, <3>1 DEF WithoutStop
  <2>5. QED BY <1>1, <1>4, <1>5, <2>2, <2>3, <2>4, ConcatEmptySeq, EmptySeq
<1>9. CASE p = k + 1 /\ k # n
  <2>1. /\ n # 0 /\ n + 1 - p = n - k /\ n - k # 0 /\ n - k \in 1..(n + 1 - p)
        /\ (n - k) + p - 1 = n
    BY <1>2, <1>9
  <2>2. q # <<>> /\ rest # <<>> /\ Len(rest) = n - k /\ rest[Len(rest)] = q[Len(q)]
    BY <1>1, <1>3, <1>5, <1>6, <2>1
  <2>3. 1 \in 1..(n + 1) /\ k \in (1 - 1)..n /\ n - 1 \in k..n /\ n \in k..n
    <3>1. 1 - 1 = 0
      OBVIOUS
    <3>2. QED BY <1>2, <1>9, <3>1
  <2>4. CASE q[Len(q)] = Stop
    <3>1. WithoutStop(q) = SubSeq(q, 1, n - 1)
      BY <1>1, <2>2, <2>4 DEF WithoutStop
    <3>2. WithoutStop(rest) = SubSeq(rest, 1, (n - k) - 1)
      BY <2>2, <2>4 DEF WithoutStop
    <3>3. SubSeq(rest, 1, (n - k) - 1) = SubSeq(q, k + 1, n - 1)
      <4>1. CASE n - k = 1
        <5>1. /\ (n - k) - 1 < 1 /\ n - 1 < k + 1
              /\ (n - k) - 1 \in Int /\ n - 1 \in Int /\ 1 \in Int /\ k + 1 \in Int
          BY <1>2, <4>1
        <5>2. SubSeq(rest, 1, (n - k) - 1) = <<>> /\ SubSeq(q, k + 1, n - 1) = <<>>
          BY <5>1, SubSeqEmpty
        <5>3. QED BY <5>2
      <4>2. CASE n - k # 1
        <5>1. /\ p \in 1..n /\ n \in 1..n
              /\ 1 \in 1..(n - p + 1) /\ (n - k) - 1 \in 1..(n - p + 1)
              /\ p + 1 - 1 = k + 1 /\ p + ((n - k) - 1) - 1 = n - 1
          BY <1>2, <1>9, <2>1, <4>2
        <5>2. SubSeq(SubSeq(q, p, n), 1, (n - k) - 1)
                = SubSeq(q, p + 1 - 1, p + ((n - k) - 1) - 1)
          BY <1>1, <5>1, SubSeqOfSubSeq
        <5>3. QED BY <1>5, <5>1, <5>2
      <4>3. QED BY <4>1, <4>2
    <3>4. SubSeq(q, 1, k) \o SubSeq(q, k + 1, n - 1) = SubSeq(q, 1, n - 1)
      BY <1>1, <2>3, ConcatAdjacentSubSeq
    <3>5. SubSeq(rest, 1, (n - k) - 1) \in Seq(Nat)
      <4>1. 1 \in 1..(Len(rest) + 1) /\ (n - k) - 1 \in 0..Len(rest)
        BY <1>2, <2>1, <2>2
      <4>2. QED BY <4>1, Slice
    <3>6. QED BY <1>1, <1>4, <1>5, <3>1, <3>2, <3>3, <3>4, <3>5
  <2>5. CASE q[Len(q)] # Stop
    <3>1. WithoutStop(q) = q /\ WithoutStop(rest) = rest
      BY <2>2, <2>5 DEF WithoutStop
    <3>2. SubSeq(q, 1, k) \o SubSeq(q, k + 1, n) = SubSeq(q, 1, n)
      BY <1>1, <2>3, ConcatAdjacentSubSeq
    <3>3. SubSeq(q, 1, n) = q
      BY <1>1, SubSeqFull
    <3>4. QED BY <1>1, <1>4, <1>5, <1>9, <3>1, <3>2, <3>3
  <2>6. QED BY <2>4, <2>5
<1>10. QED BY <1>1, <1>7, <1>8, <1>9

-----------------------------------------------------------------------------
(* Every step of the writer is a step of AuditLog or changes nothing of it. *)

LEMMA Mapped ==
    ASSUME IInv, StopLast
    PROVE  /\ txn \in Seq(Nat) /\ Unexecuted \in Seq(Nat) /\ WithoutStop(queue) \in Seq(Nat)
           /\ table \in Seq(Nat) /\ batch \in Seq(Nat) /\ queue \in Seq(Nat)
           /\ Len(WithoutStop(queue)) <= QueueMax /\ faults \in 0..MaxFaults
           /\ Len(WithoutStop(queue)) \in Nat /\ Len(txn) \in Nat /\ Len(batch) \in Nat
<1>1. /\ TypeOK /\ queue \in Seq(Nat) /\ txn \in Seq(Nat) /\ Unexecuted \in Seq(Nat)
      /\ table \in Seq(Nat) /\ batch \in Seq(Nat)
  BY Places DEF IInv
<1>2. Len(queue) \in Nat /\ Len(queue) <= QueueMax /\ (queue # <<>> => Len(queue) # 0)
  BY <1>1, LenProperties, EmptySeq DEF TypeOK
<1>3. CASE queue # <<>> /\ queue[Len(queue)] = Stop
  <2>1. 1 \in 1..(Len(queue) + 1) /\ Len(queue) - 1 \in 0..Len(queue)
    BY <1>2, <1>3
  <2>2. /\ SubSeq(queue, 1, Len(queue) - 1) \in Seq(Nat)
        /\ Len(SubSeq(queue, 1, Len(queue) - 1)) =
             IF 1 <= Len(queue) - 1 THEN (Len(queue) - 1) - 1 + 1 ELSE 0
    BY <1>1, <2>1, Slice
  <2>3. WithoutStop(queue) = SubSeq(queue, 1, Len(queue) - 1)
    BY <1>3 DEF WithoutStop
  <2>4. Len(SubSeq(queue, 1, Len(queue) - 1)) <= QueueMax
    BY <1>2, <2>2, BufferAssumption
  <2>5. QED BY <1>1, <2>2, <2>3, <2>4, LenProperties DEF TypeOK
<1>4. CASE ~(queue # <<>> /\ queue[Len(queue)] = Stop)
  <2>1. WithoutStop(queue) = queue
    BY <1>4 DEF WithoutStop
  <2>2. QED BY <1>1, <1>2, <2>1, LenProperties DEF TypeOK
<1>5. QED BY <1>3, <1>4

\* What one step of AuditLog needs to know of the sequences that change hands.
LEMMA Losing ==
    ASSUME NEW s \in Seq(Nat), NEW t \in Seq(Nat), NEW u \in Seq(Nat),
           Pending = (s \o t) \o u, Pending' = s \o u,
           faults < MaxFaults, faults' = faults + 1, UNCHANGED <<table, accepted>>
    PROVE  Log!Lose
<1>1. /\ Pending = (s \o t) \o u
      /\ SubSeq(Pending, 1, Len(s)) = s
      /\ SubSeq(Pending, Len(s) + Len(t) + 1, Len(Pending)) = u
      /\ Len(Pending) = Len(s) + Len(t) + Len(u)
      /\ Len(s) \in Nat /\ Len(t) \in Nat /\ Len(u) \in Nat
  BY CutOut, LenProperties
<1>2. Len(s) \in 0..Len(Pending) /\ Len(s) + Len(t) \in Len(s)..Len(Pending)
  BY <1>1
<1>3. Pending' = SubSeq(Pending, 1, Len(s)) \o SubSeq(Pending, Len(s) + Len(t) + 1, Len(Pending))
  BY <1>1
<1>4. QED BY <1>2, <1>3 DEF Log!Lose

LEMMA Committing ==
    ASSUME NEW s \in Seq(Nat), NEW t \in Seq(Nat), s # <<>>,
           Pending = s \o t, Pending' = t, table' = table \o s, UNCHANGED <<accepted, faults>>
    PROVE  Log!Commit
<1>1. /\ SubSeq(Pending, 1, Len(s)) = s /\ SubSeq(Pending, Len(s) + 1, Len(Pending)) = t
      /\ Len(Pending) = Len(s) + Len(t) /\ Len(s) \in Nat \ {0} /\ Len(t) \in Nat
  BY Pieces, EmptySeq
<1>2. Len(s) \in 1..Len(Pending)
  BY <1>1
<1>3. QED BY <1>1, <1>2 DEF Log!Commit

LEMMA RecordAccepts == IInv /\ LogInv /\ ~Cancelled /\ Record => [Log!Next]_Log!vars
<1>1. SUFFICES ASSUME IInv, LogInv, ~Cancelled, Record PROVE [Log!Next]_Log!vars
  OBVIOUS
<1>2. StopLast /\ TxnBounded /\ TypeOK /\ accepted \in Nat
  BY <1>1 DEF LogInv, IInv, TypeOK
<1>3. UNCHANGED <<txn, table, faults, Unexecuted>> /\ spc = "idle"
  BY <1>1 DEF Record, writer, db, Unexecuted
<1>4. CASE HasRoom
  <2>1. accepted' = accepted + 1 /\ queue' = Append(queue, accepted + 1) /\ Len(queue) < QueueMax
    BY <1>1, <1>4 DEF Record, HasRoom
  <2>2. /\ txn \in Seq(Nat) /\ Unexecuted \in Seq(Nat) /\ queue \in Seq(Nat)
        /\ faults \in 0..MaxFaults /\ MaxFaults \in Nat /\ batch \in Seq(Nat)
        /\ Len(txn) \in Nat /\ Len(queue) \in Nat /\ Len(batch) \in Nat /\ Len(batch) <= BatchSize
    BY <1>1, <1>2, Mapped, BufferAssumption, LenProperties DEF TypeOK
  <2>3. WithoutStop(queue) = queue
    <3>1. queue # <<>> => Len(queue) \in DOMAIN queue
      BY <2>2, EmptySeq, LenProperties
    <3>2. QED BY <1>2, <1>3, <3>1 DEF StopLast, WithoutStop
  <2>4. accepted + 1 # Stop /\ WithoutStop(queue') = queue'
    <3>1. accepted + 1 \in Nat /\ accepted + 1 # Stop
      BY <1>2 DEF Stop
    <3>2. Len(queue') = Len(queue) + 1 /\ queue'[Len(queue) + 1] = accepted + 1
      BY <2>1, <2>2, <3>1, AppendProperties
    <3>3. QED BY <3>1, <3>2 DEF WithoutStop
  <2>5. PICK some \in Seq(Nat) : some = txn \o Unexecuted
    BY <2>2, ConcatProperties
  <2>6. Pending = some \o queue /\ Pending' = some \o Append(queue, accepted + 1)
    BY <1>3, <2>1, <2>3, <2>4, <2>5 DEF Pending
  <2>7. some \o Append(queue, accepted + 1) = Append(some \o queue, accepted + 1)
    <3>1. accepted + 1 \in Nat /\ some \o queue \in Seq(Nat) /\ <<accepted + 1>> \in Seq(Nat)
      BY <1>2, <2>2, ConcatProperties
    <3>2. /\ Append(queue, accepted + 1) = queue \o <<accepted + 1>>
          /\ Append(some \o queue, accepted + 1) = (some \o queue) \o <<accepted + 1>>
      BY <2>2, <3>1, AppendIsConcat
    <3>3. PICK new \in Seq(Nat) : new = <<accepted + 1>>
      BY <3>1
    <3>4. (some \o queue) \o new = some \o (queue \o new)
      <4>1. queue \in Seq(Nat) /\ some \in Seq(Nat) /\ new \in Seq(Nat)
        BY <2>2, <2>5, <3>3
      <4>2. QED BY <4>1, Associative
    <3>5. QED BY <3>2, <3>3, <3>4
  <2>8. Len(Pending) < QueueMax + BatchSize * (1 + MaxFaults)
    <3>1. Len(Pending) = Len(txn) + Len(Unexecuted) + Len(queue) /\ Len(Unexecuted) \in Nat
      BY <2>2, <2>5, <2>6, Pieces
    <3>2. /\ Len(Unexecuted) <= BatchSize /\ (BatchInTxn => Len(Unexecuted) = 0)
      BY <2>2, EmptySeq, BufferAssumption DEF Unexecuted, BatchInTxn
    <3>3. Len(txn) + Len(Unexecuted) <= Room(faults + 1)
      <4>1. /\ Room(faults) \in Nat /\ Room(faults + 1) = Room(faults) + BatchSize
            /\ BatchSize \in Nat
        <5>1. faults \in Nat
          BY <2>2
        <5>2. QED BY <5>1, Rooms
      <4>2. Len(txn) <= Room(faults) + (IF BatchInTxn THEN BatchSize ELSE 0)
        BY <1>1, <1>2 DEF TxnBounded
      <4>3. CASE BatchInTxn
        BY <2>2, <3>1, <3>2, <4>1, <4>2, <4>3
      <4>4. CASE ~BatchInTxn
        BY <2>2, <3>1, <3>2, <4>1, <4>2, <4>4
      <4>5. QED BY <4>3, <4>4
    <3>4. Room(faults + 1) <= BatchSize * (1 + MaxFaults)
      <4>1. \A b, m, n \in Nat : m <= n => b * m <= b * n
        OBVIOUS
      <4>2. /\ faults + 1 \in Nat /\ 1 + MaxFaults \in Nat /\ faults + 1 <= 1 + MaxFaults
            /\ BatchSize \in Nat
        BY <2>2, BufferAssumption
      <4>3. QED BY <4>1, <4>2 DEF Room
    <3>5. Room(faults + 1) \in Nat /\ BatchSize * (1 + MaxFaults) \in Nat /\ QueueMax \in Nat
      <4>1. \A b, n \in Nat : b * n \in Nat
        OBVIOUS
      <4>2. faults + 1 \in Nat /\ 1 + MaxFaults \in Nat /\ BatchSize \in Nat /\ QueueMax \in Nat
        BY <2>2, BufferAssumption
      <4>3. QED BY <4>1, <4>2 DEF Room
    <3>6. QED BY <2>1, <2>2, <3>1, <3>3, <3>4, <3>5
  <2>9. Log!Accept
    BY <1>3, <2>1, <2>6, <2>7, <2>8 DEF Log!Accept
  <2>10. QED BY <2>9 DEF Log!Next
<1>5. CASE ~HasRoom
  BY <1>1, <1>3, <1>5 DEF Record, Log!vars, Pending
<1>6. QED BY <1>4, <1>5

\* Pending as three pieces, the middle one the batch that waits for its executemany.
LEMMA GetMoves == IInv /\ StopLast /\ Get => UNCHANGED Log!vars
<1>1. SUFFICES ASSUME IInv, StopLast, Get PROVE UNCHANGED Log!vars
  OBVIOUS
<1>2. PICK k \in 0..Len(queue), p \in 1..(Len(queue) + 1) :
              /\ p = k + 1 \/ (p = k + 2 /\ k + 1 \in DOMAIN queue /\ queue[k + 1] = Stop)
              /\ batch' = SubSeq(queue, 1, k) /\ queue' = SubSeq(queue, p, Len(queue))
              /\ \A i \in 1..k : queue[i] # Stop
              /\ batch = <<>> /\ thread = <<>> /\ wpc = "get"
              /\ \/ wpc' = "many" /\ thread' = <<"many">>
                 \/ wpc' = "done" /\ thread' = <<>> /\ k = 0
              /\ UNCHANGED <<accepted, dropped, spc, failed, txn, table, faults>>
  BY <1>1, GetEffect
<1>3. /\ queue \in Seq(Nat) /\ txn \in Seq(Nat) /\ WithoutStop(queue) \in Seq(Nat)
  BY <1>1, Mapped
<1>4. /\ SubSeq(queue, 1, k) \in Seq(Nat)
      /\ WithoutStop(SubSeq(queue, p, Len(queue))) \in Seq(Nat)
      /\ SubSeq(queue, 1, k) \o WithoutStop(SubSeq(queue, p, Len(queue))) = WithoutStop(queue)
  <2>1. \A i \in DOMAIN queue : queue[i] = Stop => i = Len(queue)
    BY <1>1 DEF StopLast
  <2>2. QED BY <1>2, <1>3, <2>1, WaitingSplits
<1>5. Unexecuted = <<>>
  BY <1>2 DEF Unexecuted
<1>6. Unexecuted' = SubSeq(queue, 1, k)
  <2>1. CASE wpc' = "many" /\ thread' = <<"many">>
    BY <1>2, <2>1 DEF Unexecuted
  <2>2. CASE wpc' = "done" /\ thread' = <<>> /\ k = 0
    <3>1. Unexecuted' = <<>>
      BY <2>2 DEF Unexecuted
    <3>2. SubSeq(queue, 1, k) = <<>>
      <4>1. k \in Int /\ 1 \in Int /\ k < 1
        BY <2>2
      <4>2. QED BY <4>1, SubSeqEmpty
    <3>3. QED BY <3>1, <3>2
  <2>3. QED BY <1>2, <2>1, <2>2
<1>7. Pending' = (txn \o SubSeq(queue, 1, k)) \o WithoutStop(SubSeq(queue, p, Len(queue)))
  BY <1>2, <1>6 DEF Pending
<1>8. Pending = txn \o WithoutStop(queue)
  BY <1>3, <1>5, ConcatEmptySeq DEF Pending
<1>9. Pending' = Pending
  <2>1. PICK taken \in Seq(Nat), left \in Seq(Nat) :
           taken = SubSeq(queue, 1, k) /\ left = WithoutStop(SubSeq(queue, p, Len(queue)))
    BY <1>4
  <2>2. (txn \o taken) \o left = txn \o (taken \o left)
    <3>1. txn \in Seq(Nat) /\ taken \in Seq(Nat) /\ left \in Seq(Nat)
      BY <1>3, <2>1
    <3>2. QED BY <3>1, Associative
  <2>3. QED BY <1>4, <1>7, <1>8, <2>1, <2>2
<1>10. QED BY <1>2, <1>9 DEF Log!vars

\* Steps that move no event.
LEMMA OthersMoveNothing ==
    ASSUME IInv, StopLast, ~Cancelled,
           Executed \/ Flushed \/ Shutdown \/ Joined \/ Terminated \/ PutStop \/ UNCHANGED vars
    PROVE  UNCHANGED Log!vars
<1>1. CASE Executed
  BY <1>1 DEF Executed, Log!vars, Pending, Unexecuted
<1>2. CASE Flushed
  BY <1>2 DEF Flushed, Log!vars, Pending, Unexecuted, db
<1>3. CASE Shutdown \/ Joined \/ Terminated \/ UNCHANGED vars
  BY <1>3 DEF Shutdown, Joined, Terminated, vars, Log!vars, Pending, Unexecuted, writer, db
<1>4. CASE PutStop
  <2>1. spc = "put" /\ queue' = Append(queue, Stop) /\ UNCHANGED <<accepted, dropped, writer, db>>
    BY <1>4 DEF PutStop
  <2>2. queue \in Seq(Nat) /\ Len(queue) \in Nat /\ Stop \in Nat
    BY Mapped, LenProperties DEF Stop
  <2>3. WithoutStop(queue) = queue
    <3>1. queue # <<>> => Len(queue) \in DOMAIN queue
      BY <2>2, EmptySeq, LenProperties
    <3>2. QED BY <2>1, <3>1 DEF StopLast, WithoutStop
  <2>4. WithoutStop(queue') = queue
    <3>1. PICK n \in Nat : n = Len(queue) + 1
      BY <2>2
    <3>2. /\ queue' \in Seq(Nat) /\ Len(queue') = n /\ queue'[n] = Stop /\ n # 0
          /\ Len(queue') - 1 = Len(queue)
      BY <2>1, <2>2, <3>1, AppendProperties
    <3>3. queue' # <<>>
      BY <3>2, EmptySeq
    <3>4. WithoutStop(queue') = SubSeq(Append(queue, Stop), 1, Len(queue))
      BY <2>1, <3>2, <3>3 DEF WithoutStop
    <3>5. PICK tail \in Seq(Nat) : tail = <<Stop>>
      <4>1. <<Stop>> \in Seq(Nat)
        BY <2>2
      <4>2. QED BY <4>1
    <3>6. Append(queue, Stop) = queue \o tail
      BY <2>2, <3>5, AppendIsConcat
    <3>7. SubSeq(queue \o tail, 1, Len(queue)) = queue
      BY <2>2, Pieces
    <3>8. QED BY <3>4, <3>6, <3>7
  <2>5. Unexecuted' = Unexecuted
    BY <2>1 DEF Unexecuted, writer, db
  <2>6. QED BY <2>1, <2>3, <2>4, <2>5 DEF Log!vars, Pending, db
<1>5. QED BY <1>1, <1>2, <1>3, <1>4

\* An executemany leaves its batch pending, or a failure costs it or a part of it.
LEMMA ManyLoses == IInv /\ StopLast /\ ~Cancelled /\ ThreadMany => [Log!Next]_Log!vars
<1>1. SUFFICES ASSUME IInv, StopLast, ~Cancelled, ThreadMany PROVE [Log!Next]_Log!vars
  OBVIOUS
<1>2. /\ wpc = "many" /\ thread = <<"many">> /\ thread' = <<>>
      /\ UNCHANGED <<queue, accepted, batch, wpc, table>>
  BY <1>1, ThreadEffect
<1>3. Unexecuted = batch /\ Unexecuted' = <<>>
  BY <1>2 DEF Unexecuted
<1>4. /\ txn \in Seq(Nat) /\ batch \in Seq(Nat) /\ WithoutStop(queue) \in Seq(Nat)
      /\ Len(batch) \in Nat /\ <<>> \in Seq(Nat)
  BY <1>1, Mapped, EmptySeq
<1>5. PICK u \in Seq(Nat) : u = WithoutStop(queue)
  BY <1>4
<1>6. Pending = (txn \o batch) \o u
  BY <1>3, <1>5 DEF Pending
<1>7. Pending' = (txn' \o <<>>) \o u
  BY <1>2, <1>3, <1>5 DEF Pending
<1>8. \A s \in Seq(Nat) : txn' = s => Pending' = s \o u
  BY <1>7, ConcatEmptySeq
<1>9. CASE txn' = txn \o batch /\ UNCHANGED faults
  <2>1. txn \o batch \in Seq(Nat)
    BY <1>4, Pieces
  <2>2. Pending' = Pending
    BY <1>6, <1>8, <1>9, <2>1
  <2>3. QED BY <1>2, <1>9, <2>2 DEF Log!vars
<1>10. CASE faults < MaxFaults /\ faults' = faults + 1 /\ txn' = <<>>
  <2>1. PICK t \in Seq(Nat) : t = txn \o batch
    BY <1>4, Pieces
  <2>2. Pending = (<<>> \o t) \o u
    BY <1>6, <2>1, ConcatEmptySeq
  <2>3. Pending' = <<>> \o u
    BY <1>4, <1>8, <1>10
  <2>4. Log!Lose
    BY <1>2, <1>4, <1>10, <2>2, <2>3, Losing
  <2>5. QED BY <2>4 DEF Log!Next
<1>11. CASE /\ faults < MaxFaults /\ faults' = faults + 1
            /\ \E k \in 0..(Len(batch) - 1) : txn' = txn \o SubSeq(batch, 1, k)
  <2>1. PICK k \in 0..(Len(batch) - 1) : txn' = txn \o SubSeq(batch, 1, k)
    BY <1>11
  <2>2. /\ 1 \in 1..(Len(batch) + 1) /\ k \in 0..Len(batch) /\ k + 1 \in 1..(Len(batch) + 1)
        /\ Len(batch) \in 0..Len(batch) /\ k \in Nat /\ k \in (1 - 1)..Len(batch)
        /\ Len(batch) \in k..Len(batch) /\ 1 - 1 = 0 /\ 0 <= k /\ 1 \in Int
    BY <1>4
  <2>3. SubSeq(batch, 1, k) \in Seq(Nat) /\ SubSeq(batch, k + 1, Len(batch)) \in Seq(Nat)
    BY <1>4, <2>2, Slice
  <2>4. SubSeq(batch, 1, k) \o SubSeq(batch, k + 1, Len(batch)) = batch
    <3>1. SubSeq(batch, 1, k) \o SubSeq(batch, k + 1, Len(batch)) = SubSeq(batch, 1, Len(batch))
      BY <1>4, <2>2, ConcatAdjacentSubSeq
    <3>2. QED BY <1>4, <3>1, SubSeqFull
  <2>5. PICK done \in Seq(Nat), rest \in Seq(Nat) :
              done = SubSeq(batch, 1, k) /\ rest = SubSeq(batch, k + 1, Len(batch))
    BY <2>3
  <2>6. PICK s \in Seq(Nat) : s = txn \o done
    BY <1>4, Pieces
  <2>7. txn \o batch = s \o rest
    <3>1. (txn \o done) \o rest = txn \o (done \o rest)
      <4>1. txn \in Seq(Nat) /\ done \in Seq(Nat) /\ rest \in Seq(Nat)
        BY <1>4, <2>5
      <4>2. QED BY <4>1, Associative, ZenonT(30)
    <3>2. QED BY <2>4, <2>5, <2>6, <3>1
  <2>8. Pending = (s \o rest) \o u /\ Pending' = s \o u
    BY <1>6, <1>8, <2>1, <2>5, <2>6, <2>7
  <2>9. Log!Lose
    BY <1>2, <1>11, <2>8, Losing
  <2>10. QED BY <2>9 DEF Log!Next
<1>12. QED BY <1>1, <1>9, <1>10, <1>11 DEF ThreadMany

\* A commit makes the rows of the transaction durable, or a failure costs them.
LEMMA CommitStores ==
    IInv /\ StopLast /\ ~Cancelled /\ (ThreadCommit \/ OtherCommit) => [Log!Next]_Log!vars
<1>1. SUFFICES ASSUME IInv, StopLast, ~Cancelled, ThreadCommit \/ OtherCommit
               PROVE  [Log!Next]_Log!vars
  OBVIOUS
<1>2. UNCHANGED <<queue, accepted, Unexecuted>>
  <2>1. CASE ThreadCommit
    <3>1. wpc = "commit" /\ UNCHANGED <<queue, accepted, batch, wpc>>
      BY <1>1, <2>1, ThreadEffect
    <3>2. QED BY <3>1 DEF Unexecuted
  <2>2. CASE OtherCommit
    BY <2>2 DEF OtherCommit, Unexecuted, writer
  <2>3. QED BY <1>1, <2>1, <2>2
<1>3. /\ txn \in Seq(Nat) /\ Unexecuted \in Seq(Nat) /\ WithoutStop(queue) \in Seq(Nat)
      /\ table \in Seq(Nat) /\ <<>> \in Seq(Nat)
  BY <1>1, Mapped, EmptySeq
<1>4. PICK u \in Seq(Nat) : u = Unexecuted \o WithoutStop(queue)
  BY <1>3, Pieces
<1>5. Pending = txn \o u
  BY <1>3, <1>4, ConcatAssociative, SMTT(30) DEF Pending
<1>6. \A s \in Seq(Nat) : txn' = s => Pending' = s \o u
  <2>1. ASSUME NEW s \in Seq(Nat), txn' = s PROVE Pending' = s \o u
    <3>1. Pending' = (s \o Unexecuted) \o WithoutStop(queue)
      BY <1>2, <2>1 DEF Pending
    <3>2. (s \o Unexecuted) \o WithoutStop(queue) = s \o (Unexecuted \o WithoutStop(queue))
      <4>1. s \in Seq(Nat) /\ Unexecuted \in Seq(Nat) /\ WithoutStop(queue) \in Seq(Nat)
        BY <1>3, <2>1
      <4>2. QED BY <4>1, Associative
    <3>3. QED BY <1>4, <3>1, <3>2
  <2>2. QED BY <2>1
<1>7. CASE table' = table \o txn /\ txn' = <<>> /\ UNCHANGED faults
  <2>1. Pending' = u
    BY <1>3, <1>4, <1>6, <1>7, ConcatEmptySeq
  <2>2. CASE txn = <<>>
    <3>1. Pending' = Pending /\ table' = table
      BY <1>3, <1>5, <1>7, <2>1, <2>2, ConcatEmptySeq
    <3>2. QED BY <1>2, <1>7, <3>1 DEF Log!vars
  <2>3. CASE txn # <<>>
    <3>1. Log!Commit
      BY <1>2, <1>3, <1>5, <1>7, <2>1, <2>3, Committing
    <3>2. QED BY <3>1 DEF Log!Next
  <2>4. QED BY <2>2, <2>3
<1>8. CASE faults < MaxFaults /\ faults' = faults + 1 /\ UNCHANGED table /\ txn' \in {txn, <<>>}
  <2>1. CASE txn' = txn
    <3>1. Pending = (txn \o <<>>) \o u /\ Pending' = txn \o u
      BY <1>3, <1>5, <1>6, <2>1, ConcatEmptySeq
    <3>2. Log!Lose
      BY <1>2, <1>3, <1>8, <3>1, Losing
    <3>3. QED BY <3>2 DEF Log!Next
  <2>2. CASE txn' = <<>>
    <3>1. Pending = (<<>> \o txn) \o u /\ Pending' = <<>> \o u
      BY <1>3, <1>5, <1>6, <2>2, ConcatEmptySeq
    <3>2. Log!Lose
      BY <1>2, <1>3, <1>8, <3>1, Losing
    <3>3. QED BY <3>2 DEF Log!Next
  <2>3. QED BY <1>8, <2>1, <2>2
<1>9. QED BY <1>1, <1>7, <1>8 DEF ThreadCommit, OtherCommit

LEMMA StepMaps == IInv /\ LogInv /\ ~Cancelled /\ ~CanTimeout /\ [Next]_vars => [Log!Next]_Log!vars
<1>1. SUFFICES ASSUME IInv, LogInv, ~Cancelled, ~CanTimeout, [Next]_vars PROVE [Log!Next]_Log!vars
  OBVIOUS
<1>2. StopLast
  BY <1>1 DEF LogInv
<1>3. CASE Record
  BY <1>1, <1>3, RecordAccepts
<1>4. CASE Get
  BY <1>1, <1>2, <1>4, GetMoves
<1>5. CASE Executed \/ Flushed \/ Shutdown \/ Joined \/ Terminated \/ PutStop \/ UNCHANGED vars
  BY <1>1, <1>2, <1>5, OthersMoveNothing
<1>6. CASE ThreadMany
  BY <1>1, <1>2, <1>6, ManyLoses
<1>7. CASE ThreadCommit \/ OtherCommit
  BY <1>1, <1>2, <1>7, CommitStores
<1>8. CASE CancelExecuted \/ CancelFlushed \/ Timeout
  BY <1>1, <1>8 DEF CancelExecuted, CancelFlushed, Timeout, Cancelled
<1>9. QED BY <1>1, <1>3, <1>4, <1>5, <1>6, <1>7, <1>8 DEF Next, WriterStep, ShutdownStep, ThreadStep

LEMMA LogInvariance == Init /\ [][Next]_vars => []LogInv
<1>1. Init => LogInv
  <2>1. SUFFICES ASSUME Init PROVE LogInv
    OBVIOUS
  <2>2. queue = <<>> /\ txn = <<>> /\ faults = 0
    BY <2>1 DEF Init
  <2>3. StopLast
    BY <2>2 DEF StopLast
  <2>4. Len(txn) = 0
    BY <2>2, EmptySeq
  <2>5. faults \in Nat /\ Room(faults) \in Nat /\ BatchSize \in Nat
    <3>1. faults \in Nat
      BY <2>2
    <3>2. QED BY <3>1, Rooms
  <2>6. QED BY <2>3, <2>4, <2>5 DEF LogInv, TxnBounded
<1>2. IInv /\ LogInv /\ [Next]_vars => LogInv'
  BY StopLastKept, TxnBoundedKept DEF LogInv
<1>3. QED BY <1>1, <1>2, Invariance, PTL

\* Only the time limit cancels the writer.
LEMMA NeverCancelled ==
    ASSUME ~CanTimeout
    PROVE  Init /\ [][Next]_vars => []~Cancelled
<1>1. Init => ~Cancelled
  BY DEF Init, Cancelled
<1>2. ~Cancelled /\ [Next]_vars => ~Cancelled'
  BY DEF Next, WriterStep, ShutdownStep, ThreadStep, Record, Get, Executed, Flushed,
         CancelExecuted, CancelFlushed, Shutdown, PutStop, Joined, Timeout, ThreadMany,
         ThreadCommit, OtherCommit, Terminated, Cancelled, vars, writer, db
<1>3. QED BY <1>1, <1>2, PTL

LEMMA SafelyImplementsLog ==
    ASSUME ~CanTimeout
    PROVE  Init /\ [][Next]_vars => LogSpec
<1>1. Init => Log!Init
  <2>1. SUFFICES ASSUME Init PROVE Log!Init
    OBVIOUS
  <2>2. txn = <<>> /\ Unexecuted = <<>> /\ WithoutStop(queue) = <<>>
    BY <2>1 DEF Init, Unexecuted, WithoutStop
  <2>3. Pending = <<>>
    BY <2>2, ConcatEmptySeq, EmptySeq DEF Pending
  <2>4. accepted + 1 = 1
    BY <2>1 DEF Init
  <2>5. QED BY <2>1, <2>3, <2>4 DEF Init, Log!Init
<1>2. Init /\ [][Next]_vars => []~Cancelled
  BY NeverCancelled
<1>3. IInv /\ LogInv /\ ~Cancelled /\ [Next]_vars => [Log!Next]_Log!vars
  BY StepMaps
<1>4. QED BY <1>1, <1>2, <1>3, Invariance, LogInvariance, PTL DEF LogSpec, Log!Spec

\* Without the time limit of shutdown() the writer implements AuditLog: whatever
\* the database does, accepted events become durable in their order, and a failure
\* costs at most one run of consecutive events.
THEOREM WriterImplementsLog ==
    ASSUME ~CanTimeout
    PROVE  Spec => LogSpec
BY SafelyImplementsLog DEF Spec

-----------------------------------------------------------------------------
(* What a database failure may cost.                                        *)

LEMMA ElementsOf ==
    /\ Elements(<<>>) = {}
    /\ \A s, t \in Seq(Nat) : Elements(s \o t) = Elements(s) \cup Elements(t)
    /\ \A s \in Seq(Nat), e \in Nat : Elements(Append(s, e)) = Elements(s) \cup {e}
<1>1. Elements(<<>>) = {}
  BY DEF Elements
<1>2. ASSUME NEW s \in Seq(Nat), NEW t \in Seq(Nat)
      PROVE  Elements(s \o t) = Elements(s) \cup Elements(t)
  <2>1. /\ DOMAIN s = 1..Len(s) /\ DOMAIN t = 1..Len(t) /\ Len(s) \in Nat /\ Len(t) \in Nat
        /\ DOMAIN (s \o t) = 1..(Len(s) + Len(t))
        /\ \A i \in 1..(Len(s) + Len(t)) :
              (s \o t)[i] = IF i <= Len(s) THEN s[i] ELSE t[i - Len(s)]
    BY <1>2, ConcatProperties, LenProperties
  <2>2. \A i \in DOMAIN s : i \in DOMAIN (s \o t) /\ (s \o t)[i] = s[i]
    BY <2>1
  <2>3. \A i \in DOMAIN t : i + Len(s) \in DOMAIN (s \o t) /\ (s \o t)[i + Len(s)] = t[i]
    <3>1. \A i \in DOMAIN t : /\ i + Len(s) \in 1..(Len(s) + Len(t))
                              /\ ~(i + Len(s) <= Len(s)) /\ (i + Len(s)) - Len(s) = i
      BY <2>1
    <3>2. QED BY <2>1, <3>1
  <2>4. \A i \in DOMAIN (s \o t) : (s \o t)[i] \in Elements(s) \cup Elements(t)
    <3>1. ASSUME NEW i \in DOMAIN (s \o t) PROVE (s \o t)[i] \in Elements(s) \cup Elements(t)
      <4>1. CASE i <= Len(s)
        BY <2>1, <3>1, <4>1 DEF Elements
      <4>2. CASE ~(i <= Len(s))
        <5>1. i - Len(s) \in DOMAIN t
          BY <2>1, <3>1, <4>2
        <5>2. QED BY <2>1, <3>1, <4>2, <5>1 DEF Elements
      <4>3. QED BY <4>1, <4>2
    <3>2. QED BY <3>1
  <2>5. Elements(s) \subseteq Elements(s \o t)
    BY <2>2 DEF Elements
  <2>6. Elements(t) \subseteq Elements(s \o t)
    BY <2>3 DEF Elements
  <2>7. Elements(s \o t) \subseteq Elements(s) \cup Elements(t)
    BY <2>4 DEF Elements
  <2>8. QED BY <2>5, <2>6, <2>7
<1>3. ASSUME NEW s \in Seq(Nat), NEW e \in Nat
      PROVE  Elements(Append(s, e)) = Elements(s) \cup {e}
  <2>1. /\ DOMAIN s = 1..Len(s) /\ Len(s) \in Nat
        /\ DOMAIN Append(s, e) = 1..(Len(s) + 1)
        /\ Append(s, e)[Len(s) + 1] = e
        /\ \A i \in 1..Len(s) : Append(s, e)[i] = s[i]
    BY <1>3, AppendProperties, LenProperties
  <2>2. \A i \in 1..(Len(s) + 1) : i \in 1..Len(s) \/ i = Len(s) + 1
    BY <2>1
  <2>3. \A i \in 1..Len(s) : i \in 1..(Len(s) + 1)
    BY <2>1
  <2>4. Len(s) + 1 \in 1..(Len(s) + 1)
    BY <2>1
  <2>5. QED BY <2>1, <2>2, <2>3, <2>4 DEF Elements
<1>4. QED BY <1>1, <1>2, <1>3

LEMMA ElementsSize ==
    \A s \in Seq(Nat) : /\ IsFiniteSet(Elements(s)) /\ Cardinality(Elements(s)) \in Nat
                        /\ Cardinality(Elements(s)) <= Len(s)
<1>1. SUFFICES ASSUME NEW s \in Seq(Nat)
               PROVE  /\ IsFiniteSet(Elements(s)) /\ Cardinality(Elements(s)) \in Nat
                      /\ Cardinality(Elements(s)) <= Len(s)
  OBVIOUS
<1>2. PICK n \in Nat : n = Len(s) /\ DOMAIN s = 1..n
  BY LenProperties
<1>3. IsFiniteSet(1..n) /\ Cardinality(1..n) = n
  <2>1. 1 \in Int /\ n \in Int /\ (1 > n => n = 0) /\ n - 1 + 1 = n
    BY <1>2
  <2>2. /\ IsFiniteSet(1..n)
        /\ Cardinality(1..n) = IF 1 > n THEN 0 ELSE n - 1 + 1
    BY <2>1, FS_Interval
  <2>3. QED BY <2>1, <2>2
<1>4. [i \in 1..n |-> s[i]] \in Surjection(1..n, Elements(s))
  BY <1>2 DEF Surjection, Elements
<1>5. IsFiniteSet(Elements(s)) /\ Cardinality(Elements(s)) <= Cardinality(1..n)
  BY <1>3, <1>4, FS_Surjection
<1>6. QED BY <1>2, <1>3, <1>5, FS_CardinalityType

\* Taking the front of the queue, and the Stop or not, loses no event of it.
LEMMA TakingKeepsAll ==
    ASSUME NEW q \in Seq(Nat), NEW k \in 0..Len(q), NEW p \in 1..(Len(q) + 1),
           p = k + 1 \/ (p = k + 2 /\ k + 1 \in DOMAIN q /\ q[k + 1] = Stop)
    PROVE  Elements(q) \subseteq
             Elements(SubSeq(q, 1, k)) \cup Elements(SubSeq(q, p, Len(q))) \cup {Stop}
<1>1. PICK n \in Nat : n = Len(q) /\ DOMAIN q = 1..n
  BY LenProperties
<1>2. k \in 0..n /\ p \in 1..(n + 1) /\ 1 \in 1..(n + 1) /\ k \in Nat /\ p \in Nat
  BY <1>1
<1>3. PICK front \in Seq(Nat) :
         /\ front = SubSeq(q, 1, k) /\ DOMAIN front = 1..k
         /\ \A i \in 1..k : front[i] = q[i]
  <2>1. /\ SubSeq(q, 1, k) \in Seq(Nat)
        /\ Len(SubSeq(q, 1, k)) = IF 1 <= k THEN k - 1 + 1 ELSE 0
        /\ DOMAIN SubSeq(q, 1, k) = 1..Len(SubSeq(q, 1, k))
        /\ \A i \in DOMAIN SubSeq(q, 1, k) : SubSeq(q, 1, k)[i] = q[i + 1 - 1]
    BY <1>1, <1>2, Slice, SMTT(30)
  <2>2. Len(SubSeq(q, 1, k)) = k /\ \A i \in 1..k : i + 1 - 1 = i
    BY <1>2, <2>1
  <2>3. QED BY <2>1, <2>2
<1>4. PICK rest \in Seq(Nat) :
         /\ rest = SubSeq(q, p, n) /\ DOMAIN rest = 1..(n + 1 - p)
         /\ \A i \in 1..(n + 1 - p) : rest[i] = q[i + p - 1]
  <2>1. /\ SubSeq(q, p, Len(q)) \in Seq(Nat)
        /\ DOMAIN SubSeq(q, p, Len(q)) = 1..(Len(q) + 1 - p)
        /\ \A i \in 1..(Len(q) + 1 - p) : SubSeq(q, p, Len(q))[i] = q[i + p - 1]
    BY Suffix
  <2>2. QED BY <1>1, <2>1
<1>5. ASSUME NEW i \in 1..n PROVE q[i] \in Elements(front) \cup Elements(rest) \cup {Stop}
  <2>1. CASE i \in 1..k
    BY <1>3, <2>1 DEF Elements
  <2>2. CASE i >= p
    <3>1. i - p + 1 \in 1..(n + 1 - p) /\ (i - p + 1) + p - 1 = i
      BY <1>2, <1>5, <2>2
    <3>2. QED BY <1>4, <3>1 DEF Elements
  <2>3. CASE i = k + 1 /\ p = k + 2
    BY <1>2, <2>3
  <2>4. i \in 1..k \/ i >= p \/ (i = k + 1 /\ p = k + 2)
    BY <1>2, <1>5
  <2>5. QED BY <2>1, <2>2, <2>3, <2>4
<1>6. Elements(q) \subseteq Elements(front) \cup Elements(rest) \cup {Stop}
  <2>1. \A e \in Elements(q) : \E i \in 1..n : e = q[i]
    BY <1>1 DEF Elements
  <2>2. QED BY <1>5, <2>1
<1>7. QED BY <1>1, <1>3, <1>4, <1>6

-----------------------------------------------------------------------------
(* The inductive invariant of the losses.                                   *)

\* What the thread may hold once the writer was cancelled, and when it is done.
Handed ==
    /\ wpc = "cmany" => thread \in {<<>>, <<"many">>, <<"many", "many">>, <<"commit", "many">>}
    /\ wpc = "ccommit" => thread \in {<<>>, <<"commit">>}
    /\ wpc = "cancelled" => thread = <<>>
    /\ wpc = "done" => batch = <<>>

\* The rows of a batch that was inserted are where other users may commit them.
BatchKept == BatchInTxn => Elements(batch) \subseteq Elements(table) \cup Elements(txn)

\* The flush of the batch is over, well or not.
Settled == thread = <<>> /\ (wpc = "commit" \/ (wpc = "many" /\ failed))

\* Accepted events that are neither stored, nor queued, nor being flushed.
Lost == (1..accepted) \ (Elements(table) \cup Elements(queue)
                            \cup (IF Settled THEN {} ELSE Elements(batch)))

LossBounded == Cardinality(Lost) <= Room(faults)

\* As long as nothing failed, what was handed to the thread is in the database.
Handled == \/ wpc \in {"commit", "ccommit", "cancelled"}
           \/ wpc \in {"many", "cmany"} /\ thread = <<>>

Clean == faults = 0 => /\ ~failed
                       /\ Handled => Elements(batch) \subseteq Elements(table) \cup Elements(txn)

LossInv == Handed /\ BatchKept /\ LossBounded /\ Clean /\ NothingVanishes

LEMMA LossStep ==
    ASSUME IInv, IInv', LossBounded,
           \/ Lost' \subseteq Lost /\ faults' \in {faults, faults + 1}
           \/ Lost' \subseteq Lost \cup Elements(batch) /\ faults' = faults + 1
    PROVE  LossBounded'
<1>1. /\ TypeOK /\ TypeOK' /\ accepted \in Nat /\ accepted' \in Nat /\ faults \in Nat
      /\ batch \in Seq(Nat) /\ Len(batch) <= BatchSize /\ Len(batch) \in Nat
  BY Places, LenProperties DEF IInv, TypeOK
<1>2. IsFiniteSet(1..accepted) /\ IsFiniteSet(1..accepted')
  <2>1. 1 \in Int /\ accepted \in Int /\ accepted' \in Int
    BY <1>1
  <2>2. QED BY <2>1, FS_Interval
<1>3. IsFiniteSet(Lost) /\ IsFiniteSet(Lost')
  BY <1>2, FS_Subset DEF Lost
<1>4. Cardinality(Lost) \in Nat /\ Cardinality(Lost') \in Nat
  BY <1>3, FS_CardinalityType
<1>5. /\ Room(faults) \in Nat /\ Room(faults + 1) = Room(faults) + BatchSize
      /\ BatchSize \in Nat
  BY <1>1, Rooms
<1>6. Cardinality(Lost) <= Room(faults)
  BY DEF LossBounded
<1>7. CASE Lost' \subseteq Lost /\ faults' \in {faults, faults + 1}
  <2>1. Cardinality(Lost') <= Cardinality(Lost)
    BY <1>3, <1>7, FS_Subset
  <2>2. CASE faults' = faults
    <3>1. Cardinality(Lost') <= Room(faults)
      BY <1>4, <1>5, <1>6, <2>1
    <3>2. QED BY <2>2, <3>1 DEF LossBounded
  <2>3. CASE faults' = faults + 1
    <3>1. Cardinality(Lost') <= Room(faults + 1)
      BY <1>4, <1>5, <1>6, <2>1
    <3>2. QED BY <2>3, <3>1 DEF LossBounded
  <2>4. QED BY <1>7, <2>2, <2>3
<1>8. CASE Lost' \subseteq Lost \cup Elements(batch) /\ faults' = faults + 1
  <2>1. /\ IsFiniteSet(Elements(batch)) /\ Cardinality(Elements(batch)) \in Nat
        /\ Cardinality(Elements(batch)) <= Len(batch)
    BY <1>1, ElementsSize
  <2>2. /\ IsFiniteSet(Lost \cup Elements(batch))
        /\ Cardinality(Lost \cup Elements(batch)) = Cardinality(Lost)
             + Cardinality(Elements(batch)) - Cardinality(Lost \cap Elements(batch))
    BY <1>3, <2>1, FS_Union
  <2>3. Cardinality(Lost \cap Elements(batch)) \in Nat
    BY <1>3, FS_Intersection, FS_CardinalityType
  <2>4. Cardinality(Lost') <= Cardinality(Lost \cup Elements(batch))
    BY <1>8, <2>2, FS_Subset
  <2>5. Cardinality(Lost') <= Room(faults + 1)
    BY <1>1, <1>4, <1>5, <1>6, <2>1, <2>2, <2>3, <2>4
  <2>6. QED BY <1>8, <2>5 DEF LossBounded
<1>9. QED BY <1>7, <1>8

\* The operations a writer hands to the thread, one by one.
LEMMA Operations ==
    ASSUME NEW op \in {"many", "commit"}
    PROVE  /\ Append(<<>>, op) = <<op>> /\ Append(<<op>>, "many") = <<op, "many">>
           /\ Tail(<<op>>) = <<>> /\ Tail(<<op, "many">>) = <<"many">>
           /\ Head(<<op>>) = op /\ Head(<<op, "many">>) = op
           /\ <<op>> # <<>> /\ <<op, "many">> # <<>>
<1>1. Append(<<>>, op) = <<op>> /\ Append(<<op>>, "many") = <<op, "many">>
  <2>1. Append(<<>>, op) = <<op>>
    OBVIOUS
  <2>2. PICK s \in Seq({"many", "commit"}) :
           s = Append(<<op>>, "many") /\ Len(s) = 2 /\ s[1] = op /\ s[2] = "many"
    <3>1. PICK one \in Seq({"many", "commit"}) : one = <<op>> /\ Len(one) = 1 /\ one[1] = op
      <4>1. <<op>> \in Seq({"many", "commit"})
        OBVIOUS
      <4>2. Len(<<op>>) = 1 /\ <<op>>[1] = op
        OBVIOUS
      <4>3. QED BY <4>1, <4>2
    <3>2. /\ Append(one, "many") \in Seq({"many", "commit"})
          /\ Len(Append(one, "many")) = 2
          /\ Append(one, "many")[1] = op /\ Append(one, "many")[2] = "many"
      BY <3>1, AppendProperties
    <3>3. QED BY <3>1, <3>2
  <2>3. s = <<s[1], s[2]>>
    <3>1. s \in Seq({"many", "commit"}) /\ Len(s) = 2
      BY <2>2
    <3>2. QED BY <3>1
  <2>4. QED BY <2>1, <2>2, <2>3
<1>2. Tail(<<op>>) = <<>>
  OBVIOUS
<1>3. Tail(<<op, "many">>) = <<"many">>
  OBVIOUS
<1>4. Head(<<op>>) = op /\ Head(<<op, "many">>) = op
  OBVIOUS
<1>5. <<op>> # <<>> /\ <<op, "many">> # <<>>
  OBVIOUS
<1>6. QED BY <1>1, <1>2, <1>3, <1>4, <1>5

LEMMA HandedKept == IInv /\ Handed /\ [Next]_vars => Handed'
<1>1. SUFFICES ASSUME IInv, Handed, [Next]_vars PROVE Handed'
  OBVIOUS
<1>2. TypeOK /\ Consistent
  BY <1>1 DEF IInv
<1>3. CASE Get
  <2>1. PICK k \in 0..Len(queue) :
              /\ batch' = SubSeq(queue, 1, k)
              /\ wpc' = "many" \/ (wpc' = "done" /\ k = 0)
    BY <1>1, <1>3, GetEffect
  <2>2. k = 0 => batch' = <<>>
    <3>1. 1 \in Int /\ 0 \in Int /\ 0 < 1
      OBVIOUS
    <3>2. QED BY <2>1, <3>1, SubSeqEmpty
  <2>3. QED BY <2>1, <2>2 DEF Handed
<1>4. CASE ThreadMany \/ ThreadCommit
  <2>1. thread # <<>> /\ thread' = Tail(thread) /\ UNCHANGED <<wpc, batch>>
    BY <1>4 DEF ThreadMany, ThreadCommit, writer
  <2>2. /\ wpc' = "cmany" => thread' \in {<<>>, <<"many">>}
        /\ wpc' = "ccommit" => thread' = <<>>
        /\ wpc' # "cancelled"
    BY <1>1, <2>1, Operations DEF Handed
  <2>3. QED BY <1>1, <2>1, <2>2 DEF Handed
<1>5. CASE Timeout
  <2>1. CASE /\ wpc' = CancelHandler(wpc)
             /\ thread' = IF wpc' = "cmany" THEN Append(thread, "many") ELSE thread
    <3>1. wpc \in {"get", "many", "commit"}
      BY <1>5 DEF Timeout
    <3>2. CASE wpc = "get"
      BY <1>2, <2>1, <3>2 DEF Handed, Consistent, CancelHandler
    <3>3. CASE wpc \in {"many", "commit"}
      <4>1. wpc' = "cmany" /\ thread' = Append(thread, "many")
        BY <2>1, <3>3 DEF CancelHandler
      <4>2. thread \in {<<>>, <<"many">>, <<"commit">>}
        BY <1>2, <3>3 DEF Consistent
      <4>3. QED BY <4>1, <4>2, Operations DEF Handed
    <3>4. QED BY <3>1, <3>2, <3>3
  <2>2. CASE UNCHANGED <<wpc, thread>>
    BY <1>1, <1>5, <2>2 DEF Timeout, Handed
  <2>3. QED BY <1>5, <2>1, <2>2 DEF Timeout
<1>6. CASE Executed \/ CancelExecuted
  <2>1. wpc' \in {"commit", "ccommit"} /\ thread' = <<"commit">>
    BY <1>6, Operations DEF Executed, CancelExecuted
  <2>2. QED BY <2>1 DEF Handed
<1>7. CASE Flushed \/ CancelFlushed
  BY <1>1, <1>7 DEF Flushed, CancelFlushed, BatchAfterFlush, Handed, db
<1>8. CASE UNCHANGED <<wpc, thread, batch>>
  BY <1>1, <1>8 DEF Handed
<1>9. QED
  BY <1>1, <1>3, <1>4, <1>5, <1>6, <1>7, <1>8
     DEF Next, WriterStep, ShutdownStep, ThreadStep, Record, Shutdown, PutStop, Joined,
         OtherCommit, Terminated, vars, writer, db

-----------------------------------------------------------------------------
(* What the steps do to the sets of events.                                 *)

LEMMA RecordLoses == IInv /\ IInv' /\ LossInv /\ Record => LossInv'
<1>1. SUFFICES ASSUME IInv, IInv', LossInv, Record PROVE LossInv'
  OBVIOUS
<1>2. /\ queue \in Seq(Nat) /\ accepted \in Nat /\ UNCHANGED <<writer, db>>
      /\ \/ accepted' = accepted + 1 /\ queue' = Append(queue, accepted + 1)
         \/ UNCHANGED <<accepted, queue>>
  BY <1>1, Places DEF Record, IInv
<1>3. /\ Elements(queue) \subseteq Elements(queue')
      /\ 1..accepted' \subseteq (1..accepted) \cup Elements(queue')
  <2>1. CASE accepted' = accepted + 1 /\ queue' = Append(queue, accepted + 1)
    <3>1. accepted + 1 \in Nat /\ 1..(accepted + 1) \subseteq (1..accepted) \cup {accepted + 1}
      BY <1>2
    <3>2. Elements(queue') = Elements(queue) \cup {accepted + 1}
      BY <1>2, <2>1, <3>1, ElementsOf
    <3>3. QED BY <2>1, <3>1, <3>2
  <2>2. QED BY <1>2, <2>1
<1>4. /\ UNCHANGED <<Elements(table), Elements(txn), Elements(batch), InFlight, Handed,
                     BatchKept, Clean, Settled, faults>>
  BY <1>2 DEF writer, db, InFlight, Handed, BatchKept, BatchInTxn, Clean, Handled, Settled
<1>5. Lost' \subseteq Lost
  BY <1>3, <1>4 DEF Lost
<1>6. LossBounded'
  BY <1>1, <1>4, <1>5, LossStep DEF LossInv
<1>7. NothingVanishes'
  BY <1>1, <1>3, <1>4 DEF LossInv, NothingVanishes
<1>8. QED BY <1>1, <1>4, <1>6, <1>7 DEF LossInv

LEMMA GetLoses == IInv /\ IInv' /\ LossInv /\ Get => LossInv'
<1>1. SUFFICES ASSUME IInv, IInv', LossInv, Get PROVE LossInv'
  OBVIOUS
<1>2. PICK k \in 0..Len(queue), p \in 1..(Len(queue) + 1) :
              /\ p = k + 1 \/ (p = k + 2 /\ k + 1 \in DOMAIN queue /\ queue[k + 1] = Stop)
              /\ batch' = SubSeq(queue, 1, k) /\ queue' = SubSeq(queue, p, Len(queue))
              /\ batch = <<>> /\ thread = <<>> /\ wpc = "get"
              /\ \/ wpc' = "many" /\ thread' = <<"many">>
                 \/ wpc' = "done" /\ thread' = <<>> /\ k = 0
              /\ UNCHANGED <<accepted, dropped, spc, failed, txn, table, faults>>
  BY <1>1, GetEffect
<1>3. queue \in Seq(Nat) /\ accepted \in Nat
  BY <1>1, Places DEF IInv
<1>4. Elements(queue) \subseteq Elements(batch') \cup Elements(queue') \cup {Stop}
  BY <1>2, <1>3, TakingKeepsAll
<1>5. Stop \notin 1..accepted /\ Elements(batch) = {}
  BY <1>2, <1>3, ElementsOf DEF Stop
<1>6. wpc' = "done" => Elements(batch') = {}
  <2>1. 1 \in Int /\ 0 \in Int /\ 0 < 1
    OBVIOUS
  <2>2. k = 0 => batch' = <<>>
    BY <1>2, <2>1, SubSeqEmpty
  <2>3. QED BY <1>2, <2>2, ElementsOf
<1>7. ~Settled /\ ~Settled' /\ ~BatchInTxn' /\ ~Handled'
  <2>1. wpc' = "many" => thread' # <<>>
    BY <1>2, Operations
  <2>2. wpc' \in {"many", "done"}
    BY <1>2
  <2>3. QED BY <1>2, <2>1, <2>2 DEF Settled, BatchInTxn, Handled
<1>8. Lost' \subseteq Lost
  BY <1>2, <1>4, <1>5, <1>7 DEF Lost
<1>9. LossBounded'
  BY <1>1, <1>2, <1>8, LossStep DEF LossInv
<1>10. NothingVanishes'
  <2>1. InFlight = {} /\ InFlight' = Elements(batch')
    BY <1>2, <1>6 DEF InFlight
  <2>2. QED BY <1>1, <1>2, <1>4, <1>5, <2>1 DEF LossInv, NothingVanishes
<1>11. Handed'
  BY <1>1, HandedKept DEF LossInv, Next, WriterStep
<1>12. BatchKept' /\ Clean'
  BY <1>1, <1>2, <1>7 DEF LossInv, BatchKept, Clean
<1>13. QED BY <1>9, <1>10, <1>11, <1>12 DEF LossInv

LEMMA ManyCosts == IInv /\ IInv' /\ LossInv /\ ThreadMany => LossInv'
<1>1. SUFFICES ASSUME IInv, IInv', LossInv, ThreadMany PROVE LossInv'
  OBVIOUS
<1>2. /\ TypeOK /\ txn \in Seq(Nat) /\ batch \in Seq(Nat) /\ faults \in Nat
      /\ UNCHANGED <<queue, accepted, wpc, batch, table>> /\ thread # <<>>
  BY <1>1, Places DEF ThreadMany, writer, IInv, TypeOK
<1>3. ~Cancelled => wpc = "many" /\ thread' = <<>>
  BY <1>1, ThreadEffect
<1>4. ~Settled /\ (BatchInTxn' => ~failed')
  BY <1>2, <1>3 DEF Settled, BatchInTxn, Cancelled
<1>5. UNCHANGED <<Elements(queue), Elements(table), Elements(batch), InFlight>>
  BY <1>2 DEF InFlight
<1>6. Handed'
  BY <1>1, HandedKept DEF LossInv, Next, ThreadStep
<1>7. CASE txn' = txn \o batch /\ failed' = FALSE /\ UNCHANGED faults
  <2>1. Elements(txn') = Elements(txn) \cup Elements(batch)
    BY <1>2, <1>7, ElementsOf
  <2>2. ~Settled'
    BY <1>2, <1>3, <1>7 DEF Settled, Cancelled
  <2>3. Lost' = Lost
    BY <1>2, <1>4, <1>5, <2>2 DEF Lost
  <2>4. LossBounded'
    BY <1>1, <1>7, <2>3, LossStep DEF LossInv
  <2>5. BatchKept' /\ Clean' /\ NothingVanishes'
    BY <1>1, <1>2, <1>5, <1>7, <2>1 DEF LossInv, BatchKept, Clean, NothingVanishes
  <2>6. QED BY <1>6, <2>4, <2>5 DEF LossInv
<1>8. CASE failed' = TRUE /\ faults' = faults + 1
  <2>1. Lost' \subseteq Lost \cup Elements(batch)
    BY <1>2, <1>4, <1>5 DEF Lost
  <2>2. LossBounded'
    BY <1>1, <1>8, <2>1, LossStep DEF LossInv
  <2>3. faults' # 0
    BY <1>2, <1>8
  <2>4. BatchKept' /\ Clean' /\ NothingVanishes'
    BY <1>4, <1>8, <2>3 DEF BatchKept, Clean, NothingVanishes
  <2>5. QED BY <1>6, <2>2, <2>4 DEF LossInv
<1>9. QED BY <1>1, <1>7, <1>8 DEF ThreadMany

LEMMA CommitCosts == IInv /\ IInv' /\ LossInv /\ ThreadCommit => LossInv'
<1>1. SUFFICES ASSUME IInv, IInv', LossInv, ThreadCommit PROVE LossInv'
  OBVIOUS
<1>2. /\ TypeOK /\ txn \in Seq(Nat) /\ table \in Seq(Nat) /\ faults \in Nat
      /\ UNCHANGED <<queue, accepted, wpc, batch>>
      /\ thread # <<>> /\ Head(thread) = "commit" /\ thread' = Tail(thread)
  BY <1>1, Places DEF ThreadCommit, writer, IInv, TypeOK
<1>3. ~Cancelled => wpc = "commit" /\ thread' = <<>>
  BY <1>1, ThreadEffect
<1>4. ~Settled /\ ~BatchInTxn'
  BY <1>2, <1>3 DEF Settled, BatchInTxn, Cancelled
<1>5. UNCHANGED <<Elements(queue), Elements(batch), InFlight>>
  BY <1>2 DEF InFlight
<1>6. Handed'
  BY <1>1, HandedKept DEF LossInv, Next, ThreadStep
<1>7. Handled' => Handled
  <2>1. wpc = "cmany" => thread' # <<>>
    BY <1>1, <1>2, Operations DEF LossInv, Handed
  <2>2. QED BY <1>2, <1>3, <2>1 DEF Handled, Cancelled
<1>8. CASE table' = table \o txn /\ txn' = <<>> /\ failed' = FALSE /\ UNCHANGED faults
  <2>1. Elements(table') = Elements(table) \cup Elements(txn) /\ Elements(txn') = {}
    BY <1>2, <1>8, ElementsOf
  <2>2. Settled' => Elements(batch) \subseteq Elements(table')
    <3>1. Settled' => BatchInTxn
      BY <1>2, <1>3 DEF Settled, BatchInTxn, Cancelled
    <3>2. QED BY <1>1, <2>1, <3>1 DEF LossInv, BatchKept
  <2>3. Lost' \subseteq Lost
    BY <1>2, <1>4, <1>5, <2>1, <2>2 DEF Lost
  <2>4. LossBounded'
    BY <1>1, <1>8, <2>3, LossStep DEF LossInv
  <2>5. BatchKept' /\ Clean' /\ NothingVanishes'
    BY <1>1, <1>2, <1>4, <1>5, <1>7, <1>8, <2>1 DEF LossInv, BatchKept, Clean, NothingVanishes
  <2>6. QED BY <1>6, <2>4, <2>5 DEF LossInv
<1>9. CASE failed' = TRUE /\ faults' = faults + 1 /\ UNCHANGED table
  <2>1. Lost' \subseteq Lost \cup Elements(batch)
    BY <1>2, <1>4, <1>5, <1>9 DEF Lost
  <2>2. LossBounded'
    BY <1>1, <1>9, <2>1, LossStep DEF LossInv
  <2>3. faults' # 0
    BY <1>2, <1>9
  <2>4. BatchKept' /\ Clean' /\ NothingVanishes'
    BY <1>4, <2>3 DEF BatchKept, Clean, NothingVanishes
  <2>5. QED BY <1>6, <2>2, <2>4 DEF LossInv
<1>10. QED BY <1>1, <1>8, <1>9 DEF ThreadCommit

LEMMA OtherCommitCosts == IInv /\ IInv' /\ LossInv /\ OtherCommit => LossInv'
<1>1. SUFFICES ASSUME IInv, IInv', LossInv, OtherCommit PROVE LossInv'
  OBVIOUS
<1>2. /\ txn \in Seq(Nat) /\ table \in Seq(Nat) /\ table' = table \o txn /\ txn' = <<>>
      /\ UNCHANGED <<queue, accepted, wpc, batch, thread, failed, faults>>
  BY <1>1, Places DEF OtherCommit, writer, IInv
<1>3. Elements(table') = Elements(table) \cup Elements(txn) /\ Elements(txn') = {}
  BY <1>2, ElementsOf
<1>4. /\ UNCHANGED <<Elements(queue), Elements(batch), InFlight, Handed, Settled, BatchInTxn, Handled>>
  BY <1>2 DEF InFlight, Handed, Settled, BatchInTxn, Handled
<1>5. Lost' \subseteq Lost
  BY <1>2, <1>3, <1>4 DEF Lost
<1>6. LossBounded'
  BY <1>1, <1>2, <1>5, LossStep DEF LossInv
<1>7. BatchKept' /\ Clean' /\ NothingVanishes' /\ Handed'
  BY <1>1, <1>2, <1>3, <1>4 DEF LossInv, BatchKept, Clean, NothingVanishes
<1>8. QED BY <1>6, <1>7 DEF LossInv

\* The steps of the writer between two operations lose nothing.
LEMMA ExecutedCosts == IInv /\ IInv' /\ LossInv /\ (Executed \/ CancelExecuted) => LossInv'
<1>1. SUFFICES ASSUME IInv, IInv', LossInv, Executed \/ CancelExecuted PROVE LossInv'
  OBVIOUS
<1>2. /\ UNCHANGED <<queue, accepted, batch, failed, txn, table, faults>>
      /\ \/ wpc = "many" /\ wpc' = "commit"
         \/ wpc = "cmany" /\ wpc' = "ccommit"
      /\ thread = <<>> /\ ~failed /\ thread' = <<"commit">> /\ thread' # <<>>
  BY <1>1, Operations DEF Executed, CancelExecuted
<1>3. /\ UNCHANGED <<Elements(queue), Elements(batch), Elements(txn), Elements(table)>>
      /\ InFlight' = InFlight /\ ~Settled /\ ~Settled' /\ (BatchInTxn' => BatchInTxn) /\ Handled
  BY <1>2 DEF InFlight, Settled, BatchInTxn, Handled
<1>4. Lost' \subseteq Lost
  BY <1>2, <1>3 DEF Lost
<1>5. LossBounded'
  BY <1>1, <1>2, <1>4, LossStep DEF LossInv
<1>6. Handed'
  BY <1>1, HandedKept DEF LossInv, Next, WriterStep
<1>7. BatchKept' /\ Clean' /\ NothingVanishes'
  BY <1>1, <1>2, <1>3 DEF LossInv, BatchKept, Clean, NothingVanishes
<1>8. QED BY <1>5, <1>6, <1>7 DEF LossInv

LEMMA FlushedCosts == IInv /\ IInv' /\ LossInv /\ Flushed => LossInv'
<1>1. SUFFICES ASSUME IInv, IInv', LossInv, Flushed PROVE LossInv'
  OBVIOUS
<1>2. /\ UNCHANGED <<queue, accepted, failed, txn, table, faults, thread>>
      /\ thread = <<>> /\ (wpc = "commit" \/ (wpc = "many" /\ failed))
      /\ wpc' \in {"get", "done"} /\ batch' = <<>>
  BY <1>1 DEF Flushed, BatchAfterFlush, db
<1>3. /\ UNCHANGED <<Elements(queue), Elements(txn), Elements(table)>>
      /\ InFlight' = {} /\ InFlight = Elements(batch) /\ Settled /\ ~Settled'
      /\ ~BatchInTxn' /\ ~Handled'
  BY <1>2 DEF InFlight, Settled, BatchInTxn, Handled
<1>4. Elements(batch') = {}
  BY <1>2, ElementsOf
<1>5. Lost' \subseteq Lost
  BY <1>2, <1>3, <1>4 DEF Lost
<1>6. LossBounded'
  BY <1>1, <1>2, <1>5, LossStep DEF LossInv
<1>7. Handed'
  BY <1>1, HandedKept DEF LossInv, Next, WriterStep
<1>8. faults = 0 => Elements(batch) \subseteq Elements(table) \cup Elements(txn)
  BY <1>1, <1>2 DEF LossInv, Clean, Handled
<1>9. BatchKept' /\ Clean' /\ NothingVanishes'
  BY <1>1, <1>2, <1>3, <1>8 DEF LossInv, BatchKept, Clean, NothingVanishes
<1>10. QED BY <1>6, <1>7, <1>9 DEF LossInv

LEMMA CancelFlushedCosts == IInv /\ IInv' /\ LossInv /\ CancelFlushed => LossInv'
<1>1. SUFFICES ASSUME IInv, IInv', LossInv, CancelFlushed PROVE LossInv'
  OBVIOUS
<1>2. /\ UNCHANGED <<queue, accepted, batch, failed, txn, table, faults, thread>>
      /\ thread = <<>> /\ (wpc = "ccommit" \/ (wpc = "cmany" /\ failed)) /\ wpc' = "cancelled"
  BY <1>1 DEF CancelFlushed, db
<1>3. /\ UNCHANGED <<Elements(queue), Elements(batch), Elements(txn), Elements(table)>>
      /\ InFlight' = {} /\ InFlight = Elements(batch) /\ ~Settled /\ ~Settled'
      /\ ~BatchInTxn'
  BY <1>2 DEF InFlight, Settled, BatchInTxn
<1>4. Lost' \subseteq Lost
  BY <1>2, <1>3 DEF Lost
<1>5. LossBounded'
  BY <1>1, <1>2, <1>4, LossStep DEF LossInv
<1>6. Handed'
  BY <1>1, HandedKept DEF LossInv, Next, WriterStep
<1>7. faults = 0 => ~failed /\ Elements(batch) \subseteq Elements(table) \cup Elements(txn)
  BY <1>1, <1>2 DEF LossInv, Clean, Handled
<1>8. BatchKept' /\ Clean' /\ NothingVanishes'
  BY <1>1, <1>2, <1>3, <1>7 DEF LossInv, BatchKept, Clean, NothingVanishes
<1>9. QED BY <1>5, <1>6, <1>8 DEF LossInv

LEMMA TimeoutCosts == IInv /\ IInv' /\ LossInv /\ Timeout => LossInv'
<1>1. SUFFICES ASSUME IInv, IInv', LossInv, Timeout PROVE LossInv'
  OBVIOUS
<1>2. /\ UNCHANGED <<queue, accepted, batch, failed, txn, table, faults>>
      /\ wpc \in {"get", "many", "commit"}
      /\ UNCHANGED <<Elements(queue), Elements(batch), Elements(txn), Elements(table)>>
  BY <1>1 DEF Timeout
<1>3. Handed'
  BY <1>1, HandedKept DEF LossInv, Next
<1>4. CASE UNCHANGED <<wpc, thread>>
  BY <1>1, <1>2, <1>3, <1>4 DEF LossInv, LossBounded, Lost, Settled, BatchKept, BatchInTxn, Clean,
                          Handled, NothingVanishes, InFlight
<1>5. CASE /\ wpc' = CancelHandler(wpc)
           /\ thread' = IF wpc' = "cmany" THEN Append(thread, "many") ELSE thread
  <2>1. wpc' = (IF wpc = "get" THEN "cancelled" ELSE "cmany") /\ ~Settled' /\ ~BatchInTxn'
    BY <1>5 DEF CancelHandler, Settled, BatchInTxn
  <2>2. Lost' \subseteq Lost
    BY <1>2, <2>1 DEF Lost
  <2>3. LossBounded'
    BY <1>1, <1>2, <2>2, LossStep DEF LossInv
  <2>4. InFlight' = InFlight
    BY <1>2, <2>1 DEF InFlight
  <2>5. Handled' => Elements(batch) = {}
    <3>1. wpc = "get" => batch = <<>>
      BY <1>1 DEF IInv, Consistent
    <3>2. wpc \in {"many", "commit"} => thread \in {<<>>, <<"many">>, <<"commit">>}
      BY <1>1 DEF IInv, Consistent
    <3>3. wpc' = "cmany" => thread' # <<>>
      BY <1>2, <1>5, <2>1, <3>2, Operations
    <3>4. QED BY <1>2, <2>1, <3>1, <3>3, ElementsOf DEF Handled
  <2>6. BatchKept' /\ Clean' /\ NothingVanishes'
    BY <1>1, <1>2, <2>1, <2>4, <2>5 DEF LossInv, BatchKept, Clean, NothingVanishes
  <2>7. QED BY <1>3, <2>3, <2>6 DEF LossInv
<1>6. QED BY <1>1, <1>4, <1>5 DEF Timeout

LEMMA ShutdownCosts ==
    IInv /\ IInv' /\ LossInv /\ (Shutdown \/ PutStop \/ Joined \/ UNCHANGED vars) => LossInv'
<1>1. SUFFICES ASSUME IInv, IInv', LossInv, Shutdown \/ PutStop \/ Joined \/ UNCHANGED vars
               PROVE  LossInv'
  OBVIOUS
<1>2. UNCHANGED <<accepted, batch, wpc, thread, failed, txn, table, faults>>
  BY <1>1 DEF Shutdown, PutStop, Joined, vars, writer, db
<1>3. Elements(queue) \subseteq Elements(queue')
  <2>1. queue \in Seq(Nat) /\ Stop \in Nat /\ queue' \in {queue, Append(queue, Stop)}
    BY <1>1, Places DEF IInv, Shutdown, PutStop, Joined, vars, Stop
  <2>2. QED BY <2>1, ElementsOf, ZenonT(30)
<1>4. UNCHANGED <<Elements(batch), Elements(txn), Elements(table), InFlight, Handed, Settled,
                  BatchKept, Clean>>
  BY <1>2 DEF InFlight, Handed, Settled, BatchKept, BatchInTxn, Clean, Handled
<1>5. Lost' \subseteq Lost
  BY <1>2, <1>3, <1>4 DEF Lost
<1>6. LossBounded'
  BY <1>1, <1>2, <1>5, LossStep DEF LossInv
<1>7. NothingVanishes'
  BY <1>1, <1>2, <1>3, <1>4 DEF LossInv, NothingVanishes
<1>8. QED BY <1>1, <1>4, <1>6, <1>7 DEF LossInv

LEMMA LossInvariance == Init /\ [][Next]_vars => []LossInv
<1>1. Init => LossInv
  <2>1. SUFFICES ASSUME Init PROVE LossInv
    OBVIOUS
  <2>2. 1..accepted = {} /\ Lost = {}
    BY <2>1 DEF Init, Lost
  <2>3. LossBounded
    <3>1. Cardinality(Lost) = 0 /\ faults \in Nat
      BY <2>1, <2>2, FS_EmptySet DEF Init
    <3>2. Room(faults) \in Nat
      BY <3>1, Rooms
    <3>3. QED BY <3>1, <3>2 DEF LossBounded
  <2>4. QED BY <2>1, <2>2, <2>3
            DEF Init, LossInv, Handed, BatchKept, BatchInTxn, Clean, Handled, NothingVanishes
<1>2. IInv /\ IInv' /\ LossInv /\ [Next]_vars => LossInv'
  BY RecordLoses, GetLoses, ManyCosts, CommitCosts, OtherCommitCosts, ExecutedCosts, FlushedCosts,
     CancelFlushedCosts, TimeoutCosts, ShutdownCosts
     DEF Next, WriterStep, ThreadStep, ShutdownStep, Terminated
<1>3. QED BY <1>1, <1>2, Invariance, PTL

\* As long as no database operation failed, whatever the pumps, the time limit and
\* the other users of the connection do, no accepted event leaves the writer unstored.
THEOREM NothingLost == Spec => []NothingVanishes
<1>1. LossInv => NothingVanishes
  BY DEF LossInv
<1>2. QED BY <1>1, LossInvariance, PTL DEF Spec

LEMMA FewAreLost == IInv /\ LossInv => KillLosesAtMost
<1>1. SUFFICES ASSUME IInv, LossInv PROVE KillLosesAtMost
  OBVIOUS
<1>2. /\ batch \in Seq(Nat) /\ queue \in Seq(Nat) /\ accepted \in Nat /\ faults \in Nat
      /\ Len(batch) <= BatchSize /\ Len(queue) <= QueueMax
      /\ Len(batch) \in Nat /\ Len(queue) \in Nat
  BY <1>1, Places, LenProperties DEF IInv, TypeOK
<1>3. IsFiniteSet(1..accepted)
  <2>1. 1 \in Int /\ accepted \in Int
    BY <1>2
  <2>2. QED BY <2>1, FS_Interval
<1>4. IsFiniteSet(Lost) /\ Cardinality(Lost) \in Nat
  BY <1>3, FS_Subset, FS_CardinalityType DEF Lost
<1>5. /\ IsFiniteSet(Elements(batch)) /\ Cardinality(Elements(batch)) \in Nat
      /\ Cardinality(Elements(batch)) <= Len(batch)
      /\ IsFiniteSet(Elements(queue)) /\ Cardinality(Elements(queue)) \in Nat
      /\ Cardinality(Elements(queue)) <= Len(queue)
  BY <1>2, ElementsSize
<1>6. PICK waiting : waiting = Elements(queue) \cup Elements(batch)
  OBVIOUS
<1>7. /\ IsFiniteSet(waiting) /\ Cardinality(waiting) \in Nat
      /\ Cardinality(waiting) <= Len(queue) + Len(batch)
  <2>1. /\ IsFiniteSet(waiting)
        /\ Cardinality(waiting) = Cardinality(Elements(queue)) + Cardinality(Elements(batch))
                                     - Cardinality(Elements(queue) \cap Elements(batch))
    BY <1>5, <1>6, FS_Union
  <2>2. Cardinality(Elements(queue) \cap Elements(batch)) \in Nat
    BY <1>5, FS_Intersection, FS_CardinalityType
  <2>3. QED BY <1>2, <1>5, <2>1, <2>2, FS_CardinalityType
<1>8. /\ IsFiniteSet(Lost \cup waiting) /\ Cardinality(Lost \cup waiting) \in Nat
      /\ Cardinality(Lost \cup waiting) <= Cardinality(Lost) + Cardinality(waiting)
  <2>1. /\ IsFiniteSet(Lost \cup waiting)
        /\ Cardinality(Lost \cup waiting) = Cardinality(Lost) + Cardinality(waiting)
                                              - Cardinality(Lost \cap waiting)
    BY <1>4, <1>7, FS_Union
  <2>2. Cardinality(Lost \cap waiting) \in Nat
    BY <1>4, FS_Intersection, FS_CardinalityType
  <2>3. QED BY <1>4, <1>7, <2>1, <2>2, FS_CardinalityType
<1>9. PICK missing : missing = (1..accepted) \ Elements(table)
  OBVIOUS
<1>10. Cardinality(missing) \in Nat /\ Cardinality(missing) <= Cardinality(Lost \cup waiting)
  <2>1. missing \subseteq Lost \cup waiting
    BY <1>6, <1>9 DEF Lost
  <2>2. QED BY <1>8, <2>1, FS_Subset, FS_CardinalityType
<1>11. /\ Cardinality(Lost) <= Room(faults) /\ Room(faults) \in Nat
       /\ BatchSize \in Nat /\ QueueMax \in Nat
  BY <1>1, <1>2, Rooms, BufferAssumption DEF LossInv, LossBounded
<1>12. BatchSize * (1 + faults) = BatchSize + Room(faults)
  <2>1. Room(faults + 1) = Room(faults) + BatchSize /\ 1 + faults = faults + 1
    BY <1>2, Rooms
  <2>2. BatchSize * (1 + faults) = Room(faults + 1)
    BY <2>1 DEF Room
  <2>3. QED BY <1>11, <2>1, <2>2
<1>13. Cardinality(missing) <= QueueMax + (BatchSize + Room(faults))
  BY <1>2, <1>4, <1>7, <1>8, <1>10, <1>11
<1>14. QED BY <1>9, <1>12, <1>13 DEF KillLosesAtMost

\* At every moment a kill loses at most the queue, one batch, and a batch per
\* database operation that failed.
THEOREM LossesBounded == Spec => []KillLosesAtMost
BY FewAreLost, Invariance, LossInvariance, PTL DEF Spec

-----------------------------------------------------------------------------
(* How often the table holds an event.                                      *)

\* Where e stands in s.
PlacesOf(e, s) == {i \in DOMAIN s : s[i] = e}

LEMMA Counting ==
    \A s \in Seq(Nat), e \in Nat :
        /\ IsFiniteSet(PlacesOf(e, s)) /\ Occurrences(e, s) = Cardinality(PlacesOf(e, s))
        /\ Occurrences(e, s) \in Nat
        /\ Occurrences(e, s) = 0 <=> e \notin Elements(s)
<1>1. SUFFICES ASSUME NEW s \in Seq(Nat), NEW e \in Nat
               PROVE  /\ IsFiniteSet(PlacesOf(e, s))
                      /\ Occurrences(e, s) = Cardinality(PlacesOf(e, s))
                      /\ Occurrences(e, s) \in Nat
                      /\ Occurrences(e, s) = 0 <=> e \notin Elements(s)
  OBVIOUS
<1>2. IsFiniteSet(DOMAIN s)
  <2>1. DOMAIN s = 1..Len(s) /\ 1 \in Int /\ Len(s) \in Int
    BY LenProperties
  <2>2. QED BY <2>1, FS_Interval
<1>3. IsFiniteSet(PlacesOf(e, s))
  BY <1>2, FS_Subset DEF PlacesOf
<1>4. Occurrences(e, s) = Cardinality(PlacesOf(e, s))
  BY DEF Occurrences, PlacesOf
<1>5. Cardinality(PlacesOf(e, s)) \in Nat /\ (Cardinality(PlacesOf(e, s)) = 0 <=> PlacesOf(e, s) = {})
  BY <1>3, FS_CardinalityType, FS_EmptySet
<1>6. PlacesOf(e, s) = {} <=> e \notin Elements(s)
  BY DEF PlacesOf, Elements
<1>7. QED BY <1>3, <1>4, <1>5, <1>6

\* An event of an ordered sequence stands there once.
LEMMA OrderedOnce ==
    \A s \in Seq(Nat), e \in Nat : Ordered(s) /\ e # Stop => Occurrences(e, s) <= 1
<1>1. SUFFICES ASSUME NEW s \in Seq(Nat), NEW e \in Nat, Ordered(s), e # Stop
               PROVE  Occurrences(e, s) <= 1
  OBVIOUS
<1>2. DOMAIN s = 1..Len(s) /\ Len(s) \in Nat
  BY LenProperties
<1>3. \A i, j \in PlacesOf(e, s) : i = j
  <2>1. \A i, j \in PlacesOf(e, s) : ~(i < j)
    BY <1>1 DEF PlacesOf, Ordered
  <2>2. QED BY <1>2, <2>1 DEF PlacesOf
<1>4. PlacesOf(e, s) = {} \/ \E i : PlacesOf(e, s) = {i}
  BY <1>3
<1>5. Cardinality(PlacesOf(e, s)) \in {0, 1}
  BY <1>4, FS_EmptySet, FS_Singleton
<1>6. QED BY <1>5, Counting

\* The places of a concatenation are those of its parts.
LEMMA CountingConcat ==
    \A s, t \in Seq(Nat), e \in Nat : Occurrences(e, s \o t) = Occurrences(e, s) + Occurrences(e, t)
<1>1. SUFFICES ASSUME NEW s \in Seq(Nat), NEW t \in Seq(Nat), NEW e \in Nat
               PROVE  Occurrences(e, s \o t) = Occurrences(e, s) + Occurrences(e, t)
  OBVIOUS
<1>2. /\ DOMAIN s = 1..Len(s) /\ DOMAIN t = 1..Len(t) /\ Len(s) \in Nat /\ Len(t) \in Nat
      /\ DOMAIN (s \o t) = 1..(Len(s) + Len(t)) /\ s \o t \in Seq(Nat)
      /\ \A i \in 1..(Len(s) + Len(t)) :
            (s \o t)[i] = IF i <= Len(s) THEN s[i] ELSE t[i - Len(s)]
  BY <1>1, ConcatProperties, LenProperties
<1> DEFINE front == PlacesOf(e, s)
           back == {i \in DOMAIN (s \o t) : i > Len(s) /\ (s \o t)[i] = e}
<1>3. PlacesOf(e, s \o t) = front \cup back /\ front \cap back = {}
  <2>1. \A i \in DOMAIN s : i \in DOMAIN (s \o t) /\ (s \o t)[i] = s[i] /\ ~(i > Len(s))
    BY <1>2
  <2>2. \A i \in DOMAIN (s \o t) : i \in DOMAIN s \/ i > Len(s)
    BY <1>2
  <2>3. QED BY <2>1, <2>2 DEF PlacesOf
<1>4. [i \in PlacesOf(e, t) |-> i + Len(s)] \in Bijection(PlacesOf(e, t), back)
  <2> DEFINE f == [i \in PlacesOf(e, t) |-> i + Len(s)]
  <2>1. \A i \in DOMAIN t : /\ i + Len(s) \in 1..(Len(s) + Len(t)) /\ i + Len(s) > Len(s)
                            /\ ~(i + Len(s) <= Len(s)) /\ (i + Len(s)) - Len(s) = i
    BY <1>2
  <2>2. \A i \in PlacesOf(e, t) : f[i] \in back
    BY <1>2, <2>1 DEF PlacesOf
  <2>3. \A i, j \in PlacesOf(e, t) : f[i] = f[j] => i = j
    BY <2>1 DEF PlacesOf
  <2>4. \A k \in back : \E i \in PlacesOf(e, t) : f[i] = k
    <3>1. ASSUME NEW k \in back PROVE \E i \in PlacesOf(e, t) : f[i] = k
      <4>1. k \in 1..(Len(s) + Len(t)) /\ k > Len(s) /\ (s \o t)[k] = e
        BY <1>2, <3>1
      <4>2. k - Len(s) \in DOMAIN t /\ t[k - Len(s)] = e /\ (k - Len(s)) + Len(s) = k
        BY <1>2, <4>1
      <4>3. k - Len(s) \in PlacesOf(e, t) /\ f[k - Len(s)] = k
        BY <4>2 DEF PlacesOf
      <4>4. QED BY <4>3
    <3>2. QED BY <3>1
  <2>5. f \in [PlacesOf(e, t) -> back]
    BY <2>2
  <2>6. QED BY <2>3, <2>4, <2>5 DEF Bijection, Injection, Surjection, IsInjective
<1>5. IsFiniteSet(PlacesOf(e, s)) /\ IsFiniteSet(PlacesOf(e, t))
  BY <1>1, Counting
<1>6. IsFiniteSet(back) /\ Cardinality(back) = Cardinality(PlacesOf(e, t))
  BY <1>4, <1>5, FS_Bijection DEF ExistsBijection
<1>7. Cardinality(front \cup back) = Cardinality(front) + Cardinality(back) - Cardinality(front \cap back)
  BY <1>5, <1>6, FS_Union
<1>8. Cardinality(front \cap back) = 0
  BY <1>3, FS_EmptySet
<1>9. /\ Occurrences(e, s \o t) = Cardinality(front \cup back)
      /\ Occurrences(e, s) = Cardinality(front) /\ Occurrences(e, s) \in Nat
      /\ Occurrences(e, t) = Cardinality(back) /\ Occurrences(e, t) \in Nat
  BY <1>1, <1>2, <1>3, <1>6, Counting
<1> HIDE DEF front, back
<1>10. QED BY <1>7, <1>8, <1>9

\* How often e will still be inserted by a writer that was cancelled.
Owed(e) == IF thread = <<"many", "many">> THEN Occurrences(e, batch) + Occurrences(e, batch)
           ELSE IF thread \in {<<"many">>, <<"commit", "many">>} THEN Occurrences(e, batch)
           ELSE 0

\* An event outside the batch stands once in the database, one of the batch twice.
Copies ==
    /\ Ordered(batch)
    /\ Cancelled => \A e \in Events :
          Occurrences(e, table) + Occurrences(e, txn) + Owed(e) <= 1 + Occurrences(e, batch)

LEMMA Counts ==
    ASSUME TypeOK, NEW e \in Events
    PROVE  /\ e \in Nat /\ e # Stop
           /\ Occurrences(e, table) \in Nat /\ Occurrences(e, txn) \in Nat
           /\ Occurrences(e, batch) \in Nat
<1>1. e \in Nat /\ e # Stop
  BY DEF Events, Stop
<1>2. QED BY <1>1, Places, Counting

\* Before the cancellation every event stands once, in one place.
LEMMA OnceBefore ==
    ASSUME IInv, ~Cancelled, NEW e \in Events
    PROVE  Occurrences(e, table) + Occurrences(e, txn) + Occurrences(e, Unexecuted) <= 1
<1>1. /\ e \in Nat /\ e # Stop /\ TypeOK
  BY Counts DEF IInv
<1>2. /\ table \in Seq(Nat) /\ txn \in Seq(Nat) /\ Unexecuted \in Seq(Nat)
      /\ queue \in Seq(Nat) /\ accepted \in Nat
  BY <1>1, Places
<1>3. InOrder(table, txn, Unexecuted, queue, accepted)
  BY DEF IInv
<1>4. InOrder(table, txn \o Unexecuted, <<>>, queue, accepted)
  BY <1>2, <1>3, MoveKeepsOrder
<1>5. PICK u \in Seq(Nat) : u = txn \o Unexecuted
  BY <1>2, Pieces
<1>6. Ordered(table \o u)
  BY <1>2, <1>4, <1>5, ConcatOrdered DEF InOrder
<1>7. PICK all \in Seq(Nat) : all = table \o u
  BY <1>2, <1>5, Pieces
<1>8. Occurrences(e, all) <= 1
  BY <1>1, <1>6, <1>7, OrderedOnce
<1>9. /\ Occurrences(e, all) = Occurrences(e, table) + Occurrences(e, u)
      /\ Occurrences(e, u) = Occurrences(e, txn) + Occurrences(e, Unexecuted)
  <2>1. Occurrences(e, table \o u) = Occurrences(e, table) + Occurrences(e, u)
    BY <1>1, <1>2, <1>5, CountingConcat
  <2>2. Occurrences(e, txn \o Unexecuted) = Occurrences(e, txn) + Occurrences(e, Unexecuted)
    BY <1>1, <1>2, CountingConcat
  <2>3. QED BY <1>5, <1>7, <2>1, <2>2
<1>10. /\ Occurrences(e, table) \in Nat /\ Occurrences(e, txn) \in Nat
       /\ Occurrences(e, Unexecuted) \in Nat
  BY <1>1, <1>2, Counting
<1>11. QED BY <1>8, <1>9, <1>10

LEMMA BatchOrdered == IInv /\ Ordered(batch) /\ [Next]_vars => Ordered(batch')
<1>1. SUFFICES ASSUME IInv, Ordered(batch), [Next]_vars PROVE Ordered(batch')
  OBVIOUS
<1>2. CASE Get
  <2>1. PICK k \in 0..Len(queue) : batch' = SubSeq(queue, 1, k) /\ wpc = "get"
    BY <1>1, <1>2, GetEffect
  <2>2. queue \in Seq(Nat) /\ Ordered(queue)
    BY <1>1, <2>1, Places DEF IInv, Cancelled, InOrder
  <2>3. 1 \in 1..(Len(queue) + 1)
    BY <2>2, LenProperties
  <2>4. QED BY <2>1, <2>2, <2>3, SliceOrdered
<1>3. CASE Flushed
  BY <1>3, Empty DEF Flushed, BatchAfterFlush
<1>4. CASE UNCHANGED batch
  BY <1>1, <1>4
<1>5. QED
  BY <1>1, <1>2, <1>3, <1>4
     DEF Next, WriterStep, ShutdownStep, ThreadStep, Record, Executed, CancelExecuted,
         CancelFlushed, Shutdown, PutStop, Joined, Timeout, ThreadMany, ThreadCommit,
         OtherCommit, Terminated, vars, writer, db

\* The cancellation makes one more executemany due, of a batch that stands at most once.
LEMMA TimeoutCopies == IInv /\ Copies /\ Timeout => Copies'
<1>1. SUFFICES ASSUME IInv, Copies, Timeout, Cancelled', NEW e \in Events
               PROVE  Occurrences(e, table') + Occurrences(e, txn') + Owed(e)'
                        <= 1 + Occurrences(e, batch')
  <2>1. Copies /\ Timeout => Ordered(batch')
    BY DEF Copies, Timeout
  <2>2. QED BY <2>1 DEF Copies, Timeout
<1>2. /\ wpc \in {"get", "many", "commit"} /\ UNCHANGED <<batch, txn, table>>
      /\ ~Cancelled
  BY <1>1 DEF Timeout, Cancelled
<1>3. wpc' = CancelHandler(wpc) /\ thread' = IF wpc' = "cmany" THEN Append(thread, "many") ELSE thread
  BY <1>1, <1>2 DEF Timeout, Cancelled
<1>4. Occurrences(e, table) + Occurrences(e, txn) + Occurrences(e, Unexecuted) <= 1
  BY <1>1, <1>2, OnceBefore
<1>5. /\ Occurrences(e, table) \in Nat /\ Occurrences(e, txn) \in Nat
      /\ Occurrences(e, batch) \in Nat /\ TypeOK /\ Consistent /\ e \in Nat
  BY <1>1, Counts DEF IInv
<1>6. Occurrences(e, <<>>) = 0
  BY <1>5, Counting, ElementsOf, EmptySeq
<1>7. CASE wpc = "get"
  <2>1. thread' = <<>> /\ Owed(e)' = 0 /\ Unexecuted = <<>>
    BY <1>3, <1>5, <1>7, Operations DEF CancelHandler, Consistent, Owed, Unexecuted
  <2>2. QED BY <1>2, <1>4, <1>5, <1>6, <2>1
<1>8. CASE wpc = "many" /\ thread = <<"many">>
  <2>1. Unexecuted = batch
    BY <1>8 DEF Unexecuted
  <2>2. thread' = <<"many", "many">>
    BY <1>3, <1>8, Operations DEF CancelHandler
  <2>3. Owed(e)' = Occurrences(e, batch) + Occurrences(e, batch)
    BY <1>2, <2>2 DEF Owed
  <2>4. QED BY <1>2, <1>4, <1>5, <2>1, <2>3
<1>9. CASE wpc \in {"many", "commit"} /\ thread \in {<<>>, <<"commit">>}
  <2>1. Unexecuted = <<>>
    BY <1>5, <1>9 DEF Unexecuted, Consistent
  <2>2. thread' \in {<<"many">>, <<"commit", "many">>}
    BY <1>3, <1>9, Operations DEF CancelHandler
  <2>3. Owed(e)' = Occurrences(e, batch)
    <3>1. <<"many">> # <<"many", "many">> /\ <<"commit", "many">> # <<"many", "many">>
      OBVIOUS
    <3>2. QED BY <1>2, <2>2, <3>1 DEF Owed
  <2>4. QED BY <1>2, <1>4, <1>5, <1>6, <2>1, <2>3
<1>10. QED BY <1>2, <1>5, <1>7, <1>8, <1>9 DEF Consistent

LEMMA ManyCopies == IInv /\ Handed /\ Copies /\ ThreadMany => Copies'
<1>1. SUFFICES ASSUME IInv, Handed, Copies, ThreadMany, Cancelled, NEW e \in Events
               PROVE  Occurrences(e, table') + Occurrences(e, txn') + Owed(e)'
                        <= 1 + Occurrences(e, batch')
  BY DEF Copies, ThreadMany, Cancelled, writer
<1>2. /\ UNCHANGED <<wpc, batch, table>> /\ thread # <<>> /\ Head(thread) = "many"
      /\ thread' = Tail(thread)
  BY <1>1 DEF ThreadMany, writer
<1>3. /\ Occurrences(e, table) \in Nat /\ Occurrences(e, txn) \in Nat
      /\ Occurrences(e, batch) \in Nat /\ TypeOK /\ e \in Nat
      /\ Occurrences(e, table) + Occurrences(e, txn) + Owed(e) <= 1 + Occurrences(e, batch)
  BY <1>1, Counts DEF IInv, Copies
<1>4. thread \in {<<"many">>, <<"many", "many">>}
  BY <1>1, <1>2, Operations DEF Handed, Cancelled
<1>5. Owed(e) \in Nat /\ Owed(e)' \in Nat /\ Owed(e) = Owed(e)' + Occurrences(e, batch)
  <2>1. <<"many">> # <<"many", "many">> /\ <<>> \notin {<<"many">>, <<"commit", "many">>, <<"many", "many">>}
    OBVIOUS
  <2>2. CASE thread = <<"many">>
    <3>1. Owed(e) = Occurrences(e, batch) /\ Owed(e)' = 0
      BY <1>2, <2>1, <2>2, Operations DEF Owed
    <3>2. QED BY <1>3, <3>1
  <2>3. CASE thread = <<"many", "many">>
    <3>1. thread' = <<"many">>
      BY <1>2, <2>3, Operations
    <3>2. /\ Owed(e) = Occurrences(e, batch) + Occurrences(e, batch)
          /\ Owed(e)' = Occurrences(e, batch)
      BY <1>2, <2>1, <2>3, <3>1 DEF Owed
    <3>3. QED BY <1>3, <3>2
  <2>4. QED BY <1>4, <2>2, <2>3
<1>6. txn \in Seq(Nat) /\ batch \in Seq(Nat) /\ Len(batch) \in Nat /\ <<>> \in Seq(Nat)
  BY <1>3, Places, LenProperties, EmptySeq
<1>7. \/ txn' = txn \o batch
      \/ \E k \in 0..(Len(batch) - 1) : txn' = txn \o SubSeq(batch, 1, k)
      \/ txn' = <<>>
  BY <1>1 DEF ThreadMany
<1>8. /\ Occurrences(e, txn') \in Nat
      /\ Occurrences(e, txn') <= Occurrences(e, txn) + Occurrences(e, batch)
  <2>1. CASE txn' = txn \o batch
    <3>1. Occurrences(e, txn') = Occurrences(e, txn) + Occurrences(e, batch)
      BY <1>3, <1>6, <2>1, CountingConcat
    <3>2. QED BY <1>3, <3>1
  <2>2. CASE txn' = <<>>
    <3>1. Occurrences(e, <<>>) = 0
      BY <1>3, <1>6, Counting, ElementsOf
    <3>2. QED BY <1>3, <2>2, <3>1
  <2>3. ASSUME NEW k \in 0..(Len(batch) - 1), txn' = txn \o SubSeq(batch, 1, k)
        PROVE  /\ Occurrences(e, txn') \in Nat
               /\ Occurrences(e, txn') <= Occurrences(e, txn) + Occurrences(e, batch)
    <3>1. /\ 1 \in 1..(Len(batch) + 1) /\ k \in 0..Len(batch) /\ k + 1 \in 1..(Len(batch) + 1)
          /\ Len(batch) \in 0..Len(batch) /\ k \in (1 - 1)..Len(batch)
          /\ Len(batch) \in k..Len(batch) /\ 1 - 1 = 0
      BY <1>6, <2>3
    <3>2. PICK front \in Seq(Nat), rest \in Seq(Nat) :
             front = SubSeq(batch, 1, k) /\ rest = SubSeq(batch, k + 1, Len(batch))
      BY <1>6, <3>1, Slice
    <3>3. SubSeq(batch, 1, k) \o SubSeq(batch, k + 1, Len(batch)) = SubSeq(batch, 1, Len(batch))
      BY <1>6, <3>1, ConcatAdjacentSubSeq
    <3>4. front \o rest = batch
      BY <1>6, <3>2, <3>3, SubSeqFull
    <3>5. /\ Occurrences(e, batch) = Occurrences(e, front) + Occurrences(e, rest)
          /\ Occurrences(e, txn') = Occurrences(e, txn) + Occurrences(e, front)
          /\ Occurrences(e, front) \in Nat /\ Occurrences(e, rest) \in Nat
      <4>1. front \in Seq(Nat) /\ rest \in Seq(Nat)
        BY <3>2
      <4>2. Occurrences(e, front \o rest) = Occurrences(e, front) + Occurrences(e, rest)
        BY <1>3, <4>1, CountingConcat
      <4>3. Occurrences(e, txn \o front) = Occurrences(e, txn) + Occurrences(e, front)
        BY <1>3, <1>6, <4>1, CountingConcat
      <4>4. Occurrences(e, front) \in Nat /\ Occurrences(e, rest) \in Nat
        BY <1>3, <4>1, Counting
      <4>5. QED BY <2>3, <3>2, <3>4, <4>2, <4>3, <4>4
    <3>6. QED BY <1>3, <3>5, SMTT(30)
  <2>4. QED BY <1>7, <2>1, <2>2, <2>3
<1>9. QED BY <1>2, <1>3, <1>5, <1>8, SMTT(30)

LEMMA CommitCopies == IInv /\ Handed /\ Copies /\ (ThreadCommit \/ OtherCommit) => Copies'
<1>1. SUFFICES ASSUME IInv, Handed, Copies, ThreadCommit \/ OtherCommit, Cancelled, NEW e \in Events
               PROVE  Occurrences(e, table') + Occurrences(e, txn') + Owed(e)'
                        <= 1 + Occurrences(e, batch')
  BY DEF Copies, ThreadCommit, OtherCommit, Cancelled, writer
<1>2. /\ Occurrences(e, table) \in Nat /\ Occurrences(e, txn) \in Nat
      /\ Occurrences(e, batch) \in Nat /\ TypeOK /\ e \in Nat
      /\ Occurrences(e, table) + Occurrences(e, txn) + Owed(e) <= 1 + Occurrences(e, batch)
  BY <1>1, Counts DEF IInv, Copies
<1>3. UNCHANGED batch /\ Owed(e)' = Owed(e) /\ Owed(e) \in Nat
  <2>1. CASE OtherCommit
    BY <1>2, <2>1 DEF OtherCommit, Owed, writer
  <2>2. CASE ThreadCommit
    <3>1. /\ UNCHANGED <<batch, wpc>> /\ thread # <<>> /\ Head(thread) = "commit"
          /\ thread' = Tail(thread)
      BY <2>2 DEF ThreadCommit, writer
    <3>2. thread \in {<<"commit">>, <<"commit", "many">>}
      BY <1>1, <3>1, Operations DEF Handed, Cancelled
    <3>3. /\ <<"commit">> \notin {<<"many">>, <<"commit", "many">>, <<"many", "many">>}
          /\ <<>> \notin {<<"many">>, <<"commit", "many">>, <<"many", "many">>}
          /\ <<"many">> # <<"many", "many">> /\ <<"commit", "many">> # <<"many", "many">>
      OBVIOUS
    <3>4. CASE thread = <<"commit">>
      <4>1. Owed(e) = 0 /\ Owed(e)' = 0
        BY <3>1, <3>3, <3>4, Operations DEF Owed
      <4>2. QED BY <3>1, <4>1
    <3>5. CASE thread = <<"commit", "many">>
      <4>1. thread' = <<"many">>
        BY <3>1, <3>5, Operations
      <4>2. Owed(e) = Occurrences(e, batch) /\ Owed(e)' = Occurrences(e, batch)
        BY <3>1, <3>3, <3>5, <4>1 DEF Owed
      <4>3. QED BY <1>2, <3>1, <4>2
    <3>6. QED BY <3>2, <3>4, <3>5
  <2>3. QED BY <1>1, <2>1, <2>2
<1>4. txn \in Seq(Nat) /\ table \in Seq(Nat) /\ <<>> \in Seq(Nat)
  BY <1>2, Places, EmptySeq
<1>5. Occurrences(e, <<>>) = 0
  BY <1>2, <1>4, Counting, ElementsOf
<1>6. CASE table' = table \o txn /\ txn' = <<>>
  <2>1. Occurrences(e, table') = Occurrences(e, table) + Occurrences(e, txn)
    BY <1>2, <1>4, <1>6, CountingConcat
  <2>2. QED BY <1>2, <1>3, <1>5, <1>6, <2>1
<1>7. CASE table' = table /\ txn' \in {txn, <<>>}
  BY <1>2, <1>3, <1>5, <1>7
<1>8. QED BY <1>1, <1>6, <1>7 DEF ThreadCommit, OtherCommit

LEMMA CopiesKept == IInv /\ Handed /\ Copies /\ [Next]_vars => Copies'
<1>1. SUFFICES ASSUME IInv, Handed, Copies, [Next]_vars PROVE Copies'
  OBVIOUS
<1>2. Ordered(batch')
  BY <1>1, BatchOrdered DEF Copies
<1>3. CASE CancelExecuted
  <2>1. Cancelled /\ thread = <<>> /\ thread' = <<"commit">> /\ UNCHANGED <<batch, txn, table>>
    BY <1>3, Operations DEF CancelExecuted, Cancelled
  <2>2. /\ <<"commit">> \notin {<<"many">>, <<"commit", "many">>, <<"many", "many">>}
        /\ <<>> \notin {<<"many">>, <<"commit", "many">>, <<"many", "many">>}
    OBVIOUS
  <2>3. \A e : Owed(e)' = Owed(e)
    BY <2>1, <2>2 DEF Owed
  <2>4. QED BY <1>1, <1>2, <2>1, <2>3 DEF Copies
<1>4. CASE CancelFlushed
  <2>1. Cancelled /\ UNCHANGED <<batch, thread, txn, table>>
    BY <1>4 DEF CancelFlushed, Cancelled, db
  <2>2. QED BY <1>1, <1>2, <2>1 DEF Copies, Owed
<1>5. CASE Get \/ Executed \/ Flushed
  <2>1. ~Cancelled'
    BY <1>5 DEF Get, Executed, Flushed, Cancelled
  <2>2. QED BY <1>2, <2>1 DEF Copies
<1>6. CASE UNCHANGED <<wpc, batch, thread, txn, table>>
  BY <1>1, <1>6 DEF Copies, Owed, Cancelled
<1>7. QED
  BY <1>1, <1>3, <1>4, <1>5, <1>6, TimeoutCopies, ManyCopies, CommitCopies
     DEF Next, WriterStep, ShutdownStep, ThreadStep, Record, Shutdown, PutStop, Joined,
         Terminated, vars, writer, db

LEMMA CopiesInvariance == Init /\ [][Next]_vars => []Copies
<1>1. Init => Copies
  BY Empty DEF Init, Copies, Cancelled
<1>2. IInv /\ Handed /\ Copies /\ [Next]_vars => Copies'
  BY CopiesKept
<1>3. LossInv => Handed
  BY DEF LossInv
<1>4. QED BY <1>1, <1>2, <1>3, Invariance, LossInvariance, PTL

LEMMA TwiceAtMost == IInv /\ LossInv /\ Copies => DuplicatesOnlyLastBatch
<1>1. SUFFICES ASSUME IInv, LossInv, Copies, NEW e \in Elements(table)
               PROVE  \/ Occurrences(e, table) = 1
                      \/ Cancelled /\ Occurrences(e, table) = 2 /\ e \in Elements(batch)
  BY DEF DuplicatesOnlyLastBatch
<1>2. /\ table \in Seq(Nat) /\ batch \in Seq(Nat) /\ table \in Seq(Events) /\ TypeOK
  BY <1>1, Places DEF IInv, TypeOK
<1>3. e \in Events
  BY <1>1, <1>2, ElementOfSeq, LenProperties DEF Elements
<1>4. /\ Occurrences(e, table) \in Nat /\ Occurrences(e, txn) \in Nat
      /\ Occurrences(e, batch) \in Nat /\ e \in Nat /\ e # Stop
  BY <1>2, <1>3, Counts
<1>5. Occurrences(e, table) # 0
  BY <1>1, <1>2, <1>4, Counting
<1>6. CASE ~Cancelled
  <2>1. Ordered(table)
    BY <1>1, <1>6 DEF IInv, InOrder
  <2>2. Occurrences(e, table) <= 1
    BY <1>2, <1>4, <2>1, OrderedOnce
  <2>3. QED BY <1>4, <1>5, <2>2
<1>7. CASE Cancelled
  <2>1. Occurrences(e, table) + Occurrences(e, txn) + Owed(e) <= 1 + Occurrences(e, batch)
    BY <1>1, <1>3, <1>7 DEF Copies
  <2>2. Owed(e) \in Nat
    BY <1>4 DEF Owed
  <2>3. Occurrences(e, batch) <= 1
    BY <1>1, <1>2, <1>4, OrderedOnce DEF Copies
  <2>4. Occurrences(e, batch) = 0 <=> e \notin Elements(batch)
    BY <1>2, <1>4, Counting
  <2>5. \/ Occurrences(e, table) = 1
        \/ Occurrences(e, table) = 2 /\ Occurrences(e, batch) # 0
    BY <1>4, <1>5, <2>1, <2>2, <2>3
  <2>6. QED BY <1>7, <2>4, <2>5
<1>8. QED BY <1>6, <1>7

\* The table holds no event twice but those of the batch that was being flushed when the
\* time limit cancelled the writer, and none thrice.
THEOREM DuplicatesBounded == Spec => []DuplicatesOnlyLastBatch
BY TwiceAtMost, Invariance, LossInvariance, CopiesInvariance, PTL DEF Spec

-----------------------------------------------------------------------------
(* What shutdown() leaves behind.                                           *)

\* A writer that met the Stop has taken everything: nothing came behind it.
Emptied ==
    /\ stopping => queue = <<>> /\ spc \notin {"idle", "put"}
    /\ wpc = "done" => stopping
    /\ spc = "done" => wpc \in {"done", "cancelled"}

LEMMA GetEmpties == IInv /\ StopLast /\ Emptied /\ Get => Emptied'
<1>1. SUFFICES ASSUME IInv, StopLast, Emptied, Get PROVE Emptied'
  OBVIOUS
<1>2. /\ queue \in Seq(Nat) /\ Len(queue) \in Nat /\ DOMAIN queue = 1..Len(queue)
      /\ batch = <<>> /\ Len(batch) = 0 /\ wpc = "get" /\ queue # <<>> /\ UNCHANGED spc
  BY <1>1, Places, LenProperties, EmptySeq DEF IInv, Consistent, Get
<1>3. PICK k \in 0..Len(queue) :
          /\ Takes(k)
          /\ queue' = SubSeq(queue, IF MeetsStop(k) THEN k + 2 ELSE k + 1, Len(queue))
          /\ stopping' = MeetsStop(k)
          /\ IF FlushNeeded(k) THEN wpc' = "many" ELSE wpc' = "done"
  BY <1>1 DEF Get, StopSeen
<1>4. ASSUME stopping' PROVE queue' = <<>> /\ spc' \notin {"idle", "put"}
  <2>1. k < Len(queue) /\ queue[k + 1] = Stop /\ MeetsStop(k)
    BY <1>3, <1>4 DEF MeetsStop
  <2>2. k + 1 \in DOMAIN queue
    BY <1>2, <2>1
  <2>3. k + 1 = Len(queue) /\ spc \notin {"idle", "put"}
    BY <1>1, <2>1, <2>2 DEF StopLast
  <2>4. Len(queue) + 1 \in 1..(Len(queue) + 1) /\ k + 2 = Len(queue) + 1
    BY <1>2, <2>3
  <2>5. queue' = SubSeq(queue, Len(queue) + 1, Len(queue))
    BY <1>3, <2>1, <2>4
  <2>6. SubSeq(queue, Len(queue) + 1, Len(queue)) = <<>>
    BY <1>2, <2>4, SubSeqEmpty
  <2>7. QED BY <1>2, <2>3, <2>5, <2>6
<1>5. ASSUME wpc' = "done" PROVE stopping'
  <2>1. k = 0
    BY <1>2, <1>3, <1>5 DEF FlushNeeded
  <2>2. 0 < Len(queue)
    BY <1>2, EmptySeq
  <2>3. ~FullAfter(0)
    BY DEF FullAfter
  <2>4. MeetsStop(0)
    BY <1>3, <2>1, <2>2, <2>3 DEF Takes
  <2>5. QED BY <1>3, <2>1, <2>4
<1>6. spc' # "done"
  BY <1>1, <1>2 DEF Emptied
<1>7. QED BY <1>4, <1>5, <1>6 DEF Emptied

LEMMA EmptiedKept == IInv /\ StopLast /\ Emptied /\ [Next]_vars => Emptied'
<1>1. SUFFICES ASSUME IInv, StopLast, Emptied, [Next]_vars PROVE Emptied'
  OBVIOUS
<1>2. CASE Get
  BY <1>1, <1>2, GetEmpties
<1>3. CASE Flushed \/ CancelFlushed \/ Executed \/ CancelExecuted
  BY <1>1, <1>3 DEF Flushed, CancelFlushed, Executed, CancelExecuted, Emptied
<1>4. CASE Record \/ Shutdown \/ PutStop \/ Joined \/ Timeout
  BY <1>1, <1>4 DEF Record, Shutdown, PutStop, Joined, Timeout, CancelHandler, Emptied, writer
<1>5. CASE ThreadMany \/ ThreadCommit \/ OtherCommit \/ Terminated \/ UNCHANGED vars
  BY <1>1, <1>5 DEF ThreadMany, ThreadCommit, OtherCommit, Terminated, Emptied, vars, writer
<1>6. QED
  BY <1>1, <1>2, <1>3, <1>4, <1>5 DEF Next, WriterStep, ShutdownStep, ThreadStep

LEMMA EmptiedInvariance == Init /\ [][Next]_vars => []Emptied
<1>1. Init => Emptied
  BY DEF Init, Emptied
<1>2. LogInv => StopLast
  BY DEF LogInv
<1>3. QED BY <1>1, <1>2, EmptiedKept, Invariance, LogInvariance, PTL

\* A writer that was not cancelled leaves no event behind when shutdown() is over.
LEMMA DrainedAtEnd ==
    ASSUME LossInv, Emptied, spc = "done", faults = 0, ~Cancelled
    PROVE  1..accepted \subseteq Elements(table) \cup Elements(txn)
<1>1. wpc = "done" /\ queue = <<>>
  BY DEF Emptied, Cancelled
<1>2. InFlight = {} /\ Elements(queue) = {}
  BY <1>1 DEF InFlight, Elements
<1>3. QED BY <1>2 DEF LossInv, NothingVanishes

\* The numbers 1..n, each once: a sequence that is ordered has n elements then.
LEMMA OrderedCount ==
    ASSUME NEW s \in Seq(Nat), NEW n \in Nat, Increasing(s), Elements(s) = 1..n
    PROVE  Len(s) = n
<1> DEFINE f == [i \in 1..Len(s) |-> s[i]]
<1>1. DOMAIN s = 1..Len(s) /\ Len(s) \in Nat /\ \A i \in 1..Len(s) : s[i] \in Nat
  BY LenProperties, ElementOfSeq
<1>2. ASSUME NEW i \in 1..Len(s), NEW j \in 1..Len(s), s[i] = s[j] PROVE i = j
  <2>1. ~(i < j) /\ ~(j < i)
    BY <1>1, <1>2, SMTT(30) DEF Increasing
  <2>2. QED BY <1>1, <2>1
<1>3. f \in Bijection(1..Len(s), 1..n)
  <2>1. \A i \in 1..Len(s) : s[i] \in 1..n
    BY <1>1 DEF Elements
  <2>2. \A e \in 1..n : \E i \in 1..Len(s) : s[i] = e
    BY <1>1 DEF Elements
  <2>3. f \in [1..Len(s) -> 1..n]
    BY <2>1
  <2>4. f \in Injection(1..Len(s), 1..n)
    BY <1>2, <2>3 DEF Injection, IsInjective
  <2>5. f \in Surjection(1..Len(s), 1..n)
    BY <2>2, <2>3 DEF Surjection
  <2>6. QED BY <2>4, <2>5 DEF Bijection
<1>4. ExistsBijection(1..Len(s), 1..n)
  BY <1>3 DEF ExistsBijection
<1>5. Cardinality(1..n) = Len(s)
  BY <1>1, <1>4, FS_CountingElements
<1>6. Cardinality(1..n) = n
  <2>1. 1 \in Int /\ n \in Int
    OBVIOUS
  <2>2. Cardinality(1..n) = IF 1 > n THEN 0 ELSE n - 1 + 1
    BY <2>1, FS_Interval
  <2>3. QED BY <2>2
<1>7. QED BY <1>5, <1>6

\* Then the table and the open transaction hold the accepted events, each once and in
\* their order.
LEMMA StoredAtEnd ==
    ASSUME IInv, LossInv, Emptied, spc = "done", faults = 0, ~Cancelled
    PROVE  /\ table \o txn \in Seq(Nat) /\ Len(table \o txn) = accepted
           /\ Increasing(table \o txn) /\ Elements(table \o txn) = 1..accepted
<1>1. /\ table \in Seq(Nat) /\ txn \in Seq(Nat) /\ accepted \in Nat
      /\ table \in Seq(Events) /\ txn \in Seq(Events)
  BY Places DEF IInv, TypeOK
<1>2. PICK s : s = table \o txn
  OBVIOUS
<1>3. s \in Seq(Nat) /\ s \in Seq(Events) /\ DOMAIN s = 1..Len(s)
  BY <1>1, <1>2, ConcatProperties, LenProperties
<1>4. Ordered(s) /\ UpTo(s, accepted)
  BY <1>1, <1>2, ConcatOrdered, ConcatUpTo DEF IInv, InOrder
<1>5. \A i \in DOMAIN s : s[i] \in Events
  BY <1>3, ElementOfSeq
<1>6. \A i \in DOMAIN s : s[i] \in 1..accepted /\ s[i] # Stop
  BY <1>1, <1>4, <1>5, BufferAssumption DEF Events, UpTo, Stop
<1>7. Increasing(s)
  BY <1>4, <1>6 DEF Ordered, Increasing
<1>8. 1..accepted \subseteq Elements(table) \cup Elements(txn)
  BY DrainedAtEnd
<1>9. Elements(s) = Elements(table) \cup Elements(txn)
  BY <1>1, <1>2, ElementsOf
<1>10. Elements(s) \subseteq 1..accepted
  BY <1>6 DEF Elements
<1>11. Elements(s) = 1..accepted
  BY <1>8, <1>9, <1>10
<1>12. Len(s) = accepted
  BY <1>1, <1>3, <1>7, <1>11, OrderedCount
<1>13. QED BY <1>2, <1>3, <1>7, <1>11, <1>12

\* docs/adr/0001, "On normal shutdown we drain", is true of every shutdown() whose time
\* limit does not expire, as long as no database operation fails.
THEOREM DrainsInTime ==
    ASSUME ~CanTimeout
    PROVE  Spec => []NormalShutdownDrains
<1>1. Init /\ [][Next]_vars => []~Cancelled
  BY NeverCancelled
<1>2. LossInv /\ Emptied /\ ~Cancelled => NormalShutdownDrains
  BY DrainedAtEnd DEF NormalShutdownDrains
<1>3. QED BY <1>1, <1>2, LossInvariance, EmptiedInvariance, PTL DEF Spec
-----------------------------------------------------------------------------
(* Nothing is made up: what is stored was accepted before, also by a writer *)
(* that was cancelled and behind database operations that failed.           *)

OnlyAccepted ==
    /\ UpTo(table, accepted) /\ UpTo(txn, accepted)
    /\ UpTo(batch, accepted) /\ UpTo(queue, accepted)

LEMMA GrowsUpTo ==
    ASSUME NEW s \in Seq(Nat), NEW n \in Nat, UpTo(s, n)
    PROVE  UpTo(s, n + 1)
<1>1. \A i \in DOMAIN s : s[i] \in Nat
  BY LenProperties, ElementOfSeq
<1>2. QED BY <1>1 DEF UpTo

\* The sequences that an action makes of them.
LEMMA StoreUpTo ==
    ASSUME TypeOK, OnlyAccepted
    PROVE  /\ UpTo(table \o txn, accepted) /\ UpTo(txn \o batch, accepted) /\ UpTo(<<>>, accepted)
           /\ \A k \in 0..Len(batch) : UpTo(txn \o SubSeq(batch, 1, k), accepted)
<1>1. /\ table \in Seq(Nat) /\ txn \in Seq(Nat) /\ batch \in Seq(Nat) /\ accepted \in Nat
      /\ Len(batch) \in Nat /\ 1 \in 1..(Len(batch) + 1)
  BY Places, LenProperties
<1>2. ASSUME NEW k \in 0..Len(batch) PROVE UpTo(txn \o SubSeq(batch, 1, k), accepted)
  <2>1. SubSeq(batch, 1, k) \in Seq(Nat) /\ UpTo(SubSeq(batch, 1, k), accepted)
    BY <1>1, Slice, SliceBefore DEF OnlyAccepted
  <2>2. QED BY <1>1, <2>1, ConcatUpTo DEF OnlyAccepted
<1>3. QED BY <1>1, <1>2, ConcatUpTo, Empty DEF OnlyAccepted

LEMMA OnlyAcceptedKept == IInv /\ OnlyAccepted /\ [Next]_vars => OnlyAccepted'
<1>1. SUFFICES ASSUME IInv, OnlyAccepted, [Next]_vars PROVE OnlyAccepted'
  OBVIOUS
<1>2. /\ table \in Seq(Nat) /\ txn \in Seq(Nat) /\ batch \in Seq(Nat) /\ queue \in Seq(Nat)
      /\ accepted \in Nat /\ Len(queue) \in Nat /\ Len(batch) \in Nat /\ TypeOK
  BY <1>1, Places, LenProperties DEF IInv
<1>3. CASE Record
  <2>1. UNCHANGED <<table, txn, batch>>
    BY <1>3 DEF Record, writer, db
  <2>2. CASE HasRoom
    <3>1. accepted' = accepted + 1 /\ queue' = Append(queue, accepted + 1)
      BY <1>3, <2>2 DEF Record
    <3>2. UpTo(Append(queue, accepted + 1), accepted + 1)
      BY <1>1, <1>2, AppendKeeps DEF OnlyAccepted
    <3>3. QED BY <1>1, <1>2, <2>1, <3>1, <3>2, GrowsUpTo DEF OnlyAccepted
  <2>3. CASE ~HasRoom
    BY <1>1, <1>3, <2>1, <2>3 DEF Record, OnlyAccepted
  <2>4. QED BY <2>2, <2>3
<1>4. CASE Get
  <2>1. PICK k \in 0..Len(queue), p \in 1..(Len(queue) + 1) :
          /\ batch' = SubSeq(queue, 1, k) /\ queue' = SubSeq(queue, p, Len(queue))
          /\ UNCHANGED <<accepted, txn, table>>
    BY <1>1, <1>4, GetEffect
  <2>2. 1 \in 1..(Len(queue) + 1) /\ Len(queue) \in 0..Len(queue)
    BY <1>2
  <2>3. UpTo(SubSeq(queue, 1, k), accepted) /\ UpTo(SubSeq(queue, p, Len(queue)), accepted)
    BY <1>1, <1>2, <2>2, SliceBefore DEF OnlyAccepted
  <2>4. QED BY <1>1, <2>1, <2>3 DEF OnlyAccepted
<1>5. CASE ThreadMany
  <2>1. UNCHANGED <<accepted, queue, batch, table>>
    BY <1>5 DEF ThreadMany, writer
  <2>2. \/ txn' = txn \o batch \/ txn' = <<>>
        \/ \E k \in 0..(Len(batch) - 1) : txn' = txn \o SubSeq(batch, 1, k)
    BY <1>5 DEF ThreadMany
  <2>3. UpTo(txn', accepted)
    <3>1. CASE txn' = txn \o batch \/ txn' = <<>>
      BY <1>1, <1>2, <3>1, StoreUpTo
    <3>2. ASSUME NEW k \in 0..(Len(batch) - 1), txn' = txn \o SubSeq(batch, 1, k)
          PROVE  UpTo(txn', accepted)
      <4>1. k \in 0..Len(batch)
        BY <1>2
      <4>2. UpTo(txn \o SubSeq(batch, 1, k), accepted)
        BY <1>1, <1>2, <4>1, StoreUpTo
      <4>3. QED BY <3>2, <4>2
    <3>3. QED BY <2>2, <3>1, <3>2
  <2>4. QED BY <1>1, <2>1, <2>3 DEF OnlyAccepted
<1>6. CASE ThreadCommit \/ OtherCommit
  <2>1. UNCHANGED <<accepted, queue, batch>>
    BY <1>6 DEF ThreadCommit, OtherCommit, writer
  <2>2. table' \in {table \o txn, table} /\ txn' \in {txn, <<>>}
    BY <1>6 DEF ThreadCommit, OtherCommit
  <2>3. UpTo(table', accepted) /\ UpTo(txn', accepted)
    BY <1>1, <1>2, <2>2, StoreUpTo DEF OnlyAccepted
  <2>4. QED BY <1>1, <2>1, <2>3 DEF OnlyAccepted
<1>7. CASE PutStop
  <2>1. UNCHANGED <<accepted, table, txn, batch>> /\ queue' = Append(queue, 0)
    BY <1>7 DEF PutStop, writer, db, Stop
  <2>2. UpTo(Append(queue, 0), accepted)
    BY <1>1, <1>2, AppendKeeps DEF OnlyAccepted
  <2>3. QED BY <1>1, <2>1, <2>2 DEF OnlyAccepted
<1>8. CASE Flushed
  <2>1. UNCHANGED <<accepted, table, txn, queue>> /\ batch' = <<>>
    BY <1>8 DEF Flushed, BatchAfterFlush, db
  <2>2. QED BY <1>1, <1>2, <2>1, StoreUpTo DEF OnlyAccepted
<1>9. CASE Executed \/ CancelExecuted \/ CancelFlushed \/ Shutdown \/ Timeout \/ Joined
           \/ Terminated \/ UNCHANGED vars
  <2>1. UNCHANGED <<accepted, table, txn, batch, queue>>
    BY <1>9 DEF Executed, CancelExecuted, CancelFlushed, Shutdown, Timeout, Joined, Terminated,
                vars, writer, db
  <2>2. QED BY <1>1, <2>1 DEF OnlyAccepted
<1>10. QED
  BY <1>1, <1>3, <1>4, <1>5, <1>6, <1>7, <1>8, <1>9 DEF Next, WriterStep, ShutdownStep, ThreadStep

LEMMA OnlyAcceptedInvariance == Init /\ [][Next]_vars => []OnlyAccepted
<1>1. Init => OnlyAccepted
  BY Empty DEF Init, OnlyAccepted
<1>2. QED BY <1>1, OnlyAcceptedKept, Invariance, PTL

LEMMA StoredEvents ==
    ASSUME IInv, OnlyAccepted
    PROVE  /\ \A k \in DOMAIN (table \o txn) : (table \o txn)[k] \in 1..accepted
           /\ \A k \in DOMAIN table : table[k] \in 1..accepted
<1>1. /\ table \in Seq(Events) /\ txn \in Seq(Events) /\ table \in Seq(Nat) /\ txn \in Seq(Nat)
      /\ table \o txn \in Seq(Events) /\ accepted \in Nat
  BY Places, ConcatProperties DEF IInv, TypeOK
<1>2. UpTo(table, accepted) /\ UpTo(table \o txn, accepted)
  BY StoreUpTo DEF IInv, OnlyAccepted
<1>3. /\ \A k \in DOMAIN table : table[k] \in Events
      /\ \A k \in DOMAIN (table \o txn) : (table \o txn)[k] \in Events
  BY <1>1, LenProperties, ElementOfSeq
<1>4. QED BY <1>1, <1>2, <1>3, BufferAssumption DEF UpTo, Events
=============================================================================
