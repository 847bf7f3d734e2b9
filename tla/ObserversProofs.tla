--------------------------- MODULE ObserversProofs ---------------------------
(***************************************************************************)
(* What holds of the readers of the events table for every number of       *)
(* proxies, rows, requests and polls, and every length of a day, a time to  *)
(* live and a time limit.                                                   *)
(***************************************************************************)
EXTENDS Observers, TLAPS, SequenceTheorems, FiniteSetTheorems

-----------------------------------------------------------------------------
(* The table.  Recorded, with which the model bounds the number of rows, is *)
(* of no account: nothing below depends on that bound.                      *)

Row == [ts : Nat, at : Nat]

Writing == \E w \in Writers, n \in Nat : writing = <<w, n>> /\ 1 <= n /\ n <= Len(pending[w])

TableInv ==
    /\ now \in Nat
    /\ table \in Seq(Row)
    /\ pending \in [Writers -> Seq(Nat)]
    /\ writing = <<>> \/ Writing
    /\ \A i \in 1..Len(table) : table[i].at <= now

TableStep == TableNext \/ Tick \/ \E w \in Writers : Rollback(w)

LEMMA SequenceFacts ==
    \A S : \A s \in Seq(S) :
        /\ Len(s) \in Nat /\ DOMAIN s = 1..Len(s)
        /\ \A i \in 1..Len(s) : s[i] \in S
        /\ s # <<>> <=> Len(s) # 0
BY LenProperties, ElementOfSeq, EmptySeq

LEMMA ConcatFacts ==
    \A S : \A s, t \in Seq(S) :
        /\ s \o t \in Seq(S) /\ Len(s \o t) = Len(s) + Len(t)
        /\ \A i \in 1..Len(s) : (s \o t)[i] = s[i]
        /\ \A i \in 1..Len(t) : (s \o t)[Len(s) + i] = t[i]
<1>1. SUFFICES ASSUME NEW S, NEW s \in Seq(S), NEW t \in Seq(S)
               PROVE  /\ s \o t \in Seq(S) /\ Len(s \o t) = Len(s) + Len(t)
                      /\ \A i \in 1..Len(s) : (s \o t)[i] = s[i]
                      /\ \A i \in 1..Len(t) : (s \o t)[Len(s) + i] = t[i]
  OBVIOUS
<1>2. /\ Len(s) \in Nat /\ Len(t) \in Nat
      /\ s \o t \in Seq(S) /\ Len(s \o t) = Len(s) + Len(t)
      /\ \A i \in 1..(Len(s) + Len(t)) :
            (s \o t)[i] = IF i <= Len(s) THEN s[i] ELSE t[i - Len(s)]
  BY LenProperties, ConcatProperties
<1>3. QED BY <1>2

\* The rows of the open transaction: one for each of the first events of its proxy.
LEMMA BatchRows ==
    ASSUME TableInv, NEW w \in Writers, NEW n \in Nat, writing = <<w, n>>
    PROVE  /\ n \in 1..Len(pending[w]) /\ pending[w] \in Seq(Nat) /\ writing # <<>>
           /\ Batch \in Seq(Row) /\ Len(Batch) = n
           /\ \A i \in 1..n : Batch[i].ts = pending[w][i] /\ Batch[i].at = now
<1>1. /\ writing # <<>> /\ writing[1] = w /\ writing[2] = n
  OBVIOUS
<1>2. n \in 1..Len(pending[w]) /\ pending[w] \in Seq(Nat)
  BY <1>1 DEF TableInv, Writing
<1>3. Batch = [i \in 1..n |-> [ts |-> pending[w][i], at |-> now]]
  BY <1>1 DEF Batch
<1>4. \A i \in 1..n : pending[w][i] \in Nat /\ now \in Nat
  <2>1. PICK s \in Seq(Nat) : s = pending[w]
    BY <1>2
  <2>2. QED BY <1>2, <2>1, SequenceFacts DEF TableInv
<1>5. Batch \in [1..n -> Row]
  BY <1>3, <1>4 DEF Row
<1>6. Batch \in Seq(Row)
  BY <1>5, SeqDef
<1>7. Len(Batch) = n
  BY <1>5, <1>6, SequenceFacts
<1>8. \A i \in 1..n : Batch[i].ts = pending[w][i] /\ Batch[i].at = now
  BY <1>3
<1>9. QED BY <1>1, <1>2, <1>6, <1>7, <1>8

LEMMA TableInit_holds == TableInit => TableInv
BY EmptySeq DEF TableInit, TableInv

\* A commit puts the batch behind the rows there are.
LEMMA Committed ==
    ASSUME TableInv, NEW w \in Writers, Commit(w)
    PROVE  \E n \in Nat :
               /\ writing = <<w, n>> /\ n >= 1 /\ table' = table \o Batch /\ Len(table') = Len(table) + n
               /\ table' \in Seq(Row)
               /\ \A i \in 1..Len(table) : table'[i] = table[i]
               /\ \A i \in 1..n : /\ table'[Len(table) + i].ts = pending[w][i]
                               /\ table'[Len(table) + i].at = now
<1>1. PICK n \in Nat : writing = <<w, n>>
  BY DEF Commit, TableInv, Writing
<1>2. /\ Batch \in Seq(Row) /\ Len(Batch) = n /\ n >= 1
      /\ \A i \in 1..n : Batch[i].ts = pending[w][i] /\ Batch[i].at = now
  BY <1>1, BatchRows
<1>3. table \in Seq(Row) /\ table' = table \o Batch
  BY DEF TableInv, Commit
<1>4. PICK s \in Seq(Row), b \in Seq(Row) : s = table /\ b = Batch
  BY <1>2, <1>3
<1>5. /\ s \o b \in Seq(Row) /\ Len(s \o b) = Len(s) + Len(b)
      /\ \A i \in 1..Len(s) : (s \o b)[i] = s[i]
      /\ \A i \in 1..Len(b) : (s \o b)[Len(s) + i] = b[i]
  BY ConcatFacts
<1>6. table' = s \o b /\ Len(b) = n /\ \A i \in 1..n : b[i].ts = pending[w][i] /\ b[i].at = now
  BY <1>2, <1>3, <1>4
<1>7. /\ \A i \in 1..Len(table) : table'[i] = table[i]
      /\ \A i \in 1..n : /\ table'[Len(table) + i].ts = pending[w][i]
                               /\ table'[Len(table) + i].at = now
  BY <1>4, <1>5, <1>6
<1>8. table' \in Seq(Row) /\ Len(table') = Len(table) + n
  BY <1>4, <1>5, <1>6
<1>9. QED BY <1>1, <1>2, <1>3, <1>7, <1>8

LEMMA RestKept ==
    \A s \in Seq(Nat) : \A n \in Nat : n \in 1..Len(s) => SubSeq(s, n + 1, Len(s)) \in Seq(Nat)
<1>1. SUFFICES ASSUME NEW s \in Seq(Nat), NEW n \in Nat, n \in 1..Len(s)
               PROVE  SubSeq(s, n + 1, Len(s)) \in Seq(Nat)
  OBVIOUS
<1>2. Len(s) \in Nat /\ \A i \in (n + 1)..Len(s) : s[i] \in Nat
  BY SequenceFacts
<1>3. QED BY <1>2, SubSeqProperties

LEMMA TableSteps == TableInv /\ TableStep => TableInv'
<1>1. SUFFICES ASSUME TableInv, TableStep PROVE TableInv'
  OBVIOUS
<1>2. /\ now \in Nat /\ table \in Seq(Row) /\ pending \in [Writers -> Seq(Nat)]
      /\ \A i \in 1..Len(table) : table[i].at <= now
      /\ Len(table) \in Nat /\ \A i \in 1..Len(table) : table[i].at \in Nat
  <2>1. now \in Nat /\ table \in Seq(Row) /\ pending \in [Writers -> Seq(Nat)]
        /\ \A i \in 1..Len(table) : table[i].at <= now
    BY <1>1 DEF TableInv
  <2>2. PICK t \in Seq(Row) : t = table
    BY <2>1
  <2>3. Len(t) \in Nat /\ \A i \in 1..Len(t) : t[i] \in Row
    BY SequenceFacts
  <2>4. QED BY <2>1, <2>2, <2>3 DEF Row
<1>3. ASSUME NEW w \in Writers, Record(w) PROVE TableInv'
  <2>1. /\ pending' = [pending EXCEPT ![w] = Append(@, now)] /\ UNCHANGED <<now, table, writing>>
    BY <1>3 DEF Record
  <2>2. \A v \in Writers : /\ pending'[v] \in Seq(Nat) /\ Len(pending[v]) \in Nat
                           /\ Len(pending'[v]) >= Len(pending[v])
    <3>1. SUFFICES ASSUME NEW v \in Writers
                   PROVE  /\ pending'[v] \in Seq(Nat) /\ Len(pending[v]) \in Nat
                          /\ Len(pending'[v]) >= Len(pending[v])
      OBVIOUS
    <3>2. PICK s \in Seq(Nat) : s = pending[v]
      BY <1>2
    <3>3. Append(s, now) \in Seq(Nat) /\ Len(Append(s, now)) = Len(s) + 1 /\ Len(s) \in Nat
      BY <1>2, AppendProperties, LenProperties
    <3>4. CASE v = w
      <4>1. pending'[v] = Append(s, now)
        BY <1>2, <2>1, <3>2, <3>4
      <4>2. QED BY <3>2, <3>3, <4>1
    <3>5. CASE v # w
      <4>1. pending'[v] = s
        BY <1>2, <2>1, <3>2, <3>5
      <4>2. QED BY <3>2, <3>3, <4>1
    <3>6. QED BY <3>4, <3>5
  <2>3. pending' \in [Writers -> Seq(Nat)]
    BY <1>2, <2>1, <2>2
  <2>4. writing' = <<>> \/ Writing'
    <3>1. CASE writing = <<>>
      BY <2>1, <3>1
    <3>2. ASSUME NEW v \in Writers, NEW n \in Nat, writing = <<v, n>>, 1 <= n, n <= Len(pending[v])
          PROVE  Writing'
      <4>1. n <= Len(pending'[v])
        <5>1. Len(pending'[v]) \in Nat
          BY <2>2, SequenceFacts
        <5>2. QED BY <2>2, <3>2, <5>1
      <4>2. QED BY <2>1, <3>2, <4>1 DEF Writing
    <3>3. QED BY <1>1, <3>1, <3>2 DEF TableInv, Writing
  <2>5. QED BY <1>2, <2>1, <2>3, <2>4 DEF TableInv
<1>4. ASSUME NEW w \in Writers, Insert(w) PROVE TableInv'
  <2>1. /\ pending[w] # <<>> /\ writing' = <<w, Len(pending[w])>> /\ UNCHANGED <<now, table, pending>>
    BY <1>4 DEF Insert
  <2>2. Len(pending[w]) \in Nat /\ 1 <= Len(pending[w])
    <3>1. PICK s \in Seq(Nat) : s = pending[w]
      BY <1>2
    <3>2. QED BY <2>1, <3>1, EmptySeq
  <2>3. Writing'
    BY <2>1, <2>2 DEF Writing
  <2>4. QED BY <1>2, <2>1, <2>3 DEF TableInv
<1>5. ASSUME NEW w \in Writers, Commit(w) \/ Rollback(w) PROVE TableInv'
  <2>1. PICK n \in Nat : writing = <<w, n>>
    BY <1>1, <1>5 DEF Commit, Rollback, TableInv, Writing
  <2>2. /\ writing' = <<>> /\ now' = now
        /\ pending' = [pending EXCEPT ![w] = SubSeq(@, n + 1, Len(@))]
    BY <1>5, <2>1 DEF Commit, Rollback
  <2>3. pending' \in [Writers -> Seq(Nat)]
    <3>1. PICK s \in Seq(Nat) : s = pending[w]
      BY <1>2
    <3>2. n \in 1..Len(s)
      BY <1>1, <2>1, <3>1, BatchRows
    <3>3. SubSeq(s, n + 1, Len(s)) \in Seq(Nat)
      BY <3>2, RestKept
    <3>4. QED BY <1>2, <2>2, <3>1, <3>3
  <2>4. table' \in Seq(Row) /\ \A i \in 1..Len(table') : table'[i].at <= now
    <3>1. CASE Rollback(w)
      BY <1>2, <3>1 DEF Rollback
    <3>2. CASE Commit(w)
      <4>1. PICK m \in Nat : /\ Len(table') = Len(table) + m /\ table' \in Seq(Row)
                             /\ \A i \in 1..Len(table) : table'[i] = table[i]
                             /\ \A i \in 1..m : table'[Len(table) + i].at = now
        <5>1. PICK m \in Nat :
                 /\ Len(table') = Len(table) + m /\ table' \in Seq(Row)
                 /\ \A i \in 1..Len(table) : table'[i] = table[i]
                 /\ \A i \in 1..m : table'[Len(table) + i].ts = pending[w][i] /\ table'[Len(table) + i].at = now
          BY <1>1, <3>2, Committed
        <5>2. \A i \in 1..m : table'[Len(table) + i].at = now
          BY <5>1
        <5>3. QED BY <5>1, <5>2
      <4>2. ASSUME NEW i \in 1..Len(table') PROVE table'[i].at <= now
        <5>1. CASE i <= Len(table)
          BY <1>2, <4>1, <4>2, <5>1
        <5>2. CASE i > Len(table)
          <6>1. i - Len(table) \in 1..m /\ Len(table) + (i - Len(table)) = i
            BY <1>2, <4>1, <4>2, <5>2
          <6>2. table'[i].at = now
            BY <4>1, <6>1
          <6>3. QED BY <1>2, <6>2
        <5>3. QED BY <1>2, <4>1, <4>2, <5>1, <5>2
      <4>3. QED BY <4>1, <4>2
    <3>3. QED BY <1>5, <3>1, <3>2
  <2>5. QED BY <1>2, <2>2, <2>3, <2>4 DEF TableInv
<1>6. CASE Tick
  <2>1. now' = now + 1 /\ UNCHANGED <<table, pending, writing>>
    BY <1>6 DEF Tick
  <2>2. \A i \in 1..Len(table') : table'[i].at <= now'
    BY <1>2, <2>1
  <2>3. writing' = <<>> \/ Writing'
    BY <1>1, <2>1 DEF TableInv, Writing
  <2>4. QED BY <1>2, <2>1, <2>2, <2>3 DEF TableInv
<1>7. QED BY <1>1, <1>3, <1>4, <1>5, <1>6 DEF TableStep, TableNext

\* No row is changed or deleted, and new ones are stored now.
LEMMA TableGrows ==
    ASSUME TableInv, TableStep
    PROVE  /\ now' \in Nat /\ now <= now' /\ Len(table) \in Nat /\ Len(table') \in Nat
           /\ Len(table) <= Len(table')
           /\ \A i \in 1..Len(table) : table'[i] = table[i]
           /\ \A i \in (Len(table) + 1)..Len(table') : table'[i].at = now
<1>1. now \in Nat /\ table \in Seq(Row) /\ Len(table) \in Nat
  BY LenProperties DEF TableInv
<1>2. CASE table' = table /\ (now' = now \/ now' = now + 1)
  BY <1>1, <1>2
<1>3. ASSUME NEW w \in Writers, Commit(w)
      PROVE  /\ now' = now /\ Len(table') \in Nat /\ Len(table) <= Len(table')
             /\ \A i \in 1..Len(table) : table'[i] = table[i]
             /\ \A i \in (Len(table) + 1)..Len(table') : table'[i].at = now
  <2>1. PICK n \in Nat : /\ Len(table') = Len(table) + n
                         /\ \A i \in 1..Len(table) : table'[i] = table[i]
                         /\ \A i \in 1..n : table'[Len(table) + i].at = now
    BY <1>3, Committed
  <2>2. ASSUME NEW i \in (Len(table) + 1)..Len(table') PROVE table'[i].at = now
    <3>1. i - Len(table) \in 1..n /\ Len(table) + (i - Len(table)) = i
      BY <1>1, <2>1, <2>2
    <3>2. QED BY <2>1, <3>1
  <2>3. now' = now
    BY <1>3 DEF Commit
  <2>4. QED BY <1>1, <2>1, <2>2, <2>3
<1>4. QED BY <1>1, <1>2, <1>3 DEF TableStep, TableNext, Record, Insert, Rollback, Tick

\* What a query of Own sees: the table, and its own open batch behind it.
SeenInv ==
    /\ Seen \in Seq(Row)
    /\ Len(table) <= Len(Seen)
    /\ \A i \in 1..Len(table) : Seen[i] = table[i]
    /\ (\A n \in Nat : writing # <<Own, n>>) => Seen = table
    /\ \A n \in Nat : writing = <<Own, n>> =>
          /\ n \in 1..Len(pending[Own]) /\ Len(Seen) = Len(table) + n
          /\ \A i \in 1..n : Seen[Len(table) + i].ts = pending[Own][i]

LEMMA SeenHolds == TableInv => SeenInv
<1>1. SUFFICES ASSUME TableInv PROVE SeenInv
  OBVIOUS
<1>2. table \in Seq(Row) /\ Len(table) \in Nat
  BY <1>1, LenProperties DEF TableInv
<1>3. CASE \A n \in Nat : writing # <<Own, n>>
  <2>1. Seen = table
    BY <1>1, <1>3 DEF Seen, TableInv, Writing
  <2>2. QED BY <1>2, <1>3, <2>1 DEF SeenInv
<1>4. ASSUME NEW n \in Nat, writing = <<Own, n>> PROVE SeenInv
  <2>1. /\ n \in 1..Len(pending[Own]) /\ Batch \in Seq(Row) /\ Len(Batch) = n
        /\ \A i \in 1..n : Batch[i].ts = pending[Own][i]
    BY <1>1, <1>4, BatchRows, AuditTableAssumption
  <2>2. Seen = table \o Batch
    <3>1. writing # <<>> /\ writing[1] = Own
      BY <1>4
    <3>2. QED BY <3>1 DEF Seen
  <2>3. PICK s \in Seq(Row), b \in Seq(Row) : s = table /\ b = Batch
    BY <1>2, <2>1
  <2>4. /\ s \o b \in Seq(Row) /\ Len(s \o b) = Len(s) + Len(b)
        /\ \A i \in 1..Len(s) : (s \o b)[i] = s[i]
        /\ \A i \in 1..Len(b) : (s \o b)[Len(s) + i] = b[i]
    BY ConcatFacts
  <2>5. /\ Seen \in Seq(Row) /\ Len(Seen) = Len(table) + n
        /\ \A i \in 1..Len(table) : Seen[i] = table[i]
    BY <2>1, <2>2, <2>3, <2>4
  <2>6. \A i \in 1..n : Seen[Len(table) + i].ts = pending[Own][i]
    BY <2>1, <2>2, <2>3, <2>4
  <2>7. \A m \in Nat : writing = <<Own, m>> => m = n
    BY <1>4
  <2>8. Len(table) <= Len(Seen)
    BY <1>2, <2>5
  <2>9. QED BY <1>4, <2>1, <2>5, <2>6, <2>7, <2>8 DEF SeenInv
<1>5. QED BY <1>3, <1>4

LEMMA SeenHoldsNext == TableInv' => SeenInv'
BY SeenHolds, PTL

\* While Own lives, the rows it saw keep their ids and their timestamps: what was
\* its open batch is committed where it stands.
LEMMA SeenGrows ==
    ASSUME TableInv, TableNext \/ Tick \/ \E w \in Writers : w # Own /\ Rollback(w)
    PROVE  /\ Len(Seen) \in Nat /\ Len(Seen') \in Nat /\ Len(Seen) <= Len(Seen')
           /\ \A i \in 1..Len(Seen) : Seen'[i].ts = Seen[i].ts
<1>1. TableInv' /\ SeenInv /\ SeenInv' /\ TableStep
  BY TableSteps, SeenHolds, SeenHoldsNext DEF TableStep
<1>2. /\ Len(table) \in Nat /\ Len(table') \in Nat /\ Len(Seen) \in Nat /\ Len(Seen') \in Nat
      /\ table \in Seq(Row) /\ pending \in [Writers -> Seq(Nat)]
  BY <1>1, LenProperties DEF SeenInv, TableInv
<1>3. /\ Len(table) <= Len(table') /\ \A i \in 1..Len(table) : table'[i] = table[i]
  BY <1>1, TableGrows
<1>4. CASE \A n \in Nat : writing # <<Own, n>>
  <2>1. Seen = table /\ Len(table') <= Len(Seen') /\ \A i \in 1..Len(table') : Seen'[i] = table'[i]
    BY <1>1, <1>4 DEF SeenInv
  <2>2. QED BY <1>2, <1>3, <2>1
<1>5. ASSUME NEW n \in Nat, writing = <<Own, n>>
      PROVE  Len(Seen) <= Len(Seen') /\ \A i \in 1..Len(Seen) : Seen'[i].ts = Seen[i].ts
  <2>1. /\ Len(Seen) = Len(table) + n /\ n \in 1..Len(pending[Own])
        /\ \A i \in 1..Len(table) : Seen[i] = table[i]
        /\ \A i \in 1..n : Seen[Len(table) + i].ts = pending[Own][i]
    BY <1>1, <1>5 DEF SeenInv
  <2>2. SUFFICES /\ Len(table) + n <= Len(Seen')
                 /\ \A i \in 1..Len(table) : Seen'[i] = table[i]
                 /\ \A i \in 1..n : Seen'[Len(table) + i].ts = pending[Own][i]
    <3>1. ASSUME NEW i \in 1..Len(Seen), i > Len(table) PROVE i - Len(table) \in 1..n
      BY <1>2, <2>1, <3>1
    <3>2. ASSUME NEW i \in 1..Len(Seen),
                 \A k \in 1..Len(table) : Seen'[k] = table[k],
                 \A k \in 1..n : Seen'[Len(table) + k].ts = pending[Own][k]
          PROVE  Seen'[i].ts = Seen[i].ts
      <4>1. CASE i <= Len(table)
        BY <1>2, <2>1, <3>2, <4>1
      <4>2. CASE i > Len(table)
        <5>1. PICK k \in 1..n : i = Len(table) + k
          <6>1. i = Len(table) + (i - Len(table))
            BY <1>2, <3>2
          <6>2. QED BY <3>1, <4>2, <6>1
        <5>2. QED BY <2>1, <3>2, <5>1
      <4>3. QED BY <1>2, <3>2, <4>1, <4>2
    <3>3. QED BY <2>1, <3>2
  <2>3. ASSUME writing' = writing, table' = table,
               \A i \in 1..n : pending'[Own][i] = pending[Own][i]
        PROVE  /\ Len(table) + n <= Len(Seen')
               /\ \A i \in 1..Len(table) : Seen'[i] = table[i]
               /\ \A i \in 1..n : Seen'[Len(table) + i].ts = pending[Own][i]
    BY <1>1, <1>2, <1>5, <2>3, SMTT(30) DEF SeenInv
  <2>4. ASSUME NEW w \in Writers, Record(w)
        PROVE  \A i \in 1..n : pending'[Own][i] = pending[Own][i]
    <3>1. PICK s \in Seq(Nat) : s = pending[Own]
      BY <1>2, AuditTableAssumption
    <3>2. \A i \in 1..Len(s) : Append(s, now)[i] = s[i]
      BY AppendProperties, <1>1 DEF TableInv
    <3>3. pending'[Own] = s \/ pending'[Own] = Append(s, now)
      BY <1>2, <2>4, <3>1, AuditTableAssumption DEF Record
    <3>4. \A i \in 1..n : i \in 1..Len(s)
      BY <2>1, <3>1
    <3>5. CASE pending'[Own] = s
      BY <3>1, <3>5
    <3>6. CASE pending'[Own] = Append(s, now)
      BY <3>1, <3>2, <3>4, <3>6
    <3>7. QED BY <3>3, <3>5, <3>6
  <2>5. ASSUME NEW w \in Writers, Commit(w)
        PROVE  /\ Len(table) + n <= Len(Seen')
               /\ \A i \in 1..Len(table) : Seen'[i] = table[i]
               /\ \A i \in 1..n : Seen'[Len(table) + i].ts = pending[Own][i]
    <3>1. w = Own /\ writing' = <<>>
      BY <1>5, <2>5 DEF Commit
    <3>2. Seen' = table'
      BY <3>1 DEF Seen
    <3>3. PICK m \in Nat : /\ writing = <<w, m>> /\ Len(table') = Len(table) + m
                           /\ \A i \in 1..m : table'[Len(table) + i].ts = pending[w][i]
      BY <2>5, Committed
    <3>4. m = n
      BY <1>5, <3>3
    <3>5. QED BY <1>2, <1>3, <3>1, <3>2, <3>3, <3>4
  <2>6. /\ \A w \in Writers : ~Insert(w)
        /\ \A w \in Writers : ~(w # Own /\ Rollback(w))
    BY <1>5 DEF Insert, Rollback
  <2>7. CASE Tick
    BY <2>3, <2>7 DEF Tick
  <2>8. CASE \E w \in Writers : Record(w)
    <3>1. writing' = writing /\ table' = table
      BY <2>8 DEF Record
    <3>2. QED BY <2>3, <2>4, <2>8, <3>1
  <2>9. Tick \/ (\E w \in Writers : Record(w)) \/ (\E w \in Writers : Commit(w))
    BY <2>6 DEF TableNext
  <2>10. QED BY <2>5, <2>7, <2>8, <2>9
<1>6. QED BY <1>2, <1>4, <1>5

-----------------------------------------------------------------------------
(* Rows stored before a time.                                               *)

LEMMA CountsRows ==
    \A s \in Seq(Row) : \A t, u \in Int : t <= u =>
        /\ Cardinality({i \in DOMAIN s : s[i].at < t}) \in Nat
        /\ Cardinality({i \in DOMAIN s : s[i].at < u}) \in Nat
        /\ Cardinality({i \in DOMAIN s : s[i].at < t}) <= Cardinality({i \in DOMAIN s : s[i].at < u})
        /\ Cardinality({i \in DOMAIN s : s[i].at < u}) <= Len(s)
<1>1. SUFFICES ASSUME NEW s \in Seq(Row), NEW t \in Int, NEW u \in Int, t <= u
               PROVE  /\ Cardinality({i \in DOMAIN s : s[i].at < t}) \in Nat
                      /\ Cardinality({i \in DOMAIN s : s[i].at < u}) \in Nat
                      /\ Cardinality({i \in DOMAIN s : s[i].at < t}) <= Cardinality({i \in DOMAIN s : s[i].at < u})
                      /\ Cardinality({i \in DOMAIN s : s[i].at < u}) <= Len(s)
  OBVIOUS
<1> DEFINE T == {i \in DOMAIN s : s[i].at < t}
           U == {i \in DOMAIN s : s[i].at < u}
<1>2. Len(s) \in Nat /\ DOMAIN s = 1..Len(s) /\ \A i \in 1..Len(s) : s[i].at \in Nat
  <2>1. Len(s) \in Nat /\ DOMAIN s = 1..Len(s) /\ \A i \in 1..Len(s) : s[i] \in Row
    BY SequenceFacts
  <2>2. QED BY <2>1 DEF Row
<1>3. T \in SUBSET U /\ U \in SUBSET (1..Len(s))
  BY <1>1, <1>2
<1> HIDE DEF T, U
<1>4. IsFiniteSet(1..Len(s)) /\ Cardinality(1..Len(s)) = Len(s)
  BY <1>2, FS_Interval
<1>5. IsFiniteSet(U) /\ Cardinality(U) <= Len(s)
  BY <1>3, <1>4, FS_Subset
<1>6. IsFiniteSet(T) /\ Cardinality(T) <= Cardinality(U)
  BY <1>3, <1>5, FS_Subset
<1>7. Cardinality(T) \in Nat /\ Cardinality(U) \in Nat
  BY <1>5, <1>6, FS_CardinalityType
<1>8. QED BY <1>5, <1>6, <1>7 DEF T, U

LEMMA StoredMonotone ==
    ASSUME TableInv
    PROVE  \A t, u \in Int : t <= u =>
              /\ StoredBefore(t) \in Nat /\ StoredBefore(u) \in Nat
              /\ StoredBefore(t) <= StoredBefore(u) /\ StoredBefore(u) <= Len(table)
<1>1. PICK s \in Seq(Row) : s = table
  BY DEF TableInv
<1>2. QED BY <1>1, CountsRows DEF StoredBefore

\* Later rows do not count among those that were stored before a time that is over.
LEMMA StoredKept ==
    ASSUME TableInv, TableStep, NEW t \in Int, t <= now
    PROVE  StoredBefore(t)' = StoredBefore(t)
<1>1. /\ Len(table) \in Nat /\ Len(table') \in Nat /\ Len(table) <= Len(table')
      /\ \A i \in 1..Len(table) : table'[i] = table[i]
      /\ \A i \in (Len(table) + 1)..Len(table') : table'[i].at = now
      /\ now \in Nat
  BY TableGrows DEF TableInv
<1>2. DOMAIN table = 1..Len(table) /\ DOMAIN table' = 1..Len(table')
  BY TableSteps, LenProperties DEF TableInv
<1>3. {i \in DOMAIN table' : table'[i].at < t} = {i \in DOMAIN table : table[i].at < t}
  <2>1. ASSUME NEW i \in 1..Len(table'), table'[i].at < t PROVE i <= Len(table)
    <3>1. CASE i > Len(table)
      <4>1. table'[i].at = now
        BY <1>1, <2>1, <3>1
      <4>2. QED BY <1>1, <2>1, <4>1
    <3>2. QED BY <1>1, <2>1, <3>1
  <2>2. QED BY <1>1, <1>2, <2>1
<1>4. QED BY <1>3 DEF StoredBefore

\* StoredBefore as a function of the time.
Stored == [t \in Int |-> StoredBefore(t)]

LEMMA StoredFacts ==
    ASSUME TableInv
    PROVE  /\ \A t \in Int : Stored[t] \in Nat /\ Stored[t] <= Len(table)
           /\ \A t, u \in Int : t <= u => Stored[t] <= Stored[u]
<1>1. \A t \in Int : Stored[t] = StoredBefore(t)
  BY DEF Stored
<1>2. \A t, u \in Int : t <= u =>
          /\ StoredBefore(t) \in Nat /\ StoredBefore(u) \in Nat
          /\ StoredBefore(t) <= StoredBefore(u) /\ StoredBefore(u) <= Len(table)
  BY StoredMonotone
<1>3. \A t \in Int : t <= t
  OBVIOUS
<1>4. QED BY <1>1, <1>2, <1>3

LEMMA StoredStays ==
    ASSUME TableInv, TableStep
    PROVE  \A t \in Int : t <= now => Stored'[t] = Stored[t]
<1>1. SUFFICES ASSUME NEW t \in Int, t <= now PROVE Stored'[t] = Stored[t]
  OBVIOUS
<1>2. StoredBefore(t)' = StoredBefore(t)
  BY <1>1, StoredKept
<1>3. Stored[t] = StoredBefore(t)
  BY DEF Stored
<1>4. Stored'[t] = StoredBefore(t)'
  BY DEF Stored, StoredBefore
<1>5. QED BY <1>2, <1>3, <1>4

-----------------------------------------------------------------------------
(* The health endpoint.                                                     *)

Request == [state : {"read", "busy", "answered", "refused"}, came : Nat, count : Nat]

\* What an answer may be: of a request that came by now, no staler than the cache's
\* time to live.
Proper(q) ==
    /\ q.came <= now
    /\ q.state = "answered" => q.count >= Stored[q.came - TTL + 1]

RequestsInv ==
    /\ request \in Seq(Request)
    /\ \A r \in 1..Len(request) : Proper(request[r])

\* The count that is cached, and the count of the scan that is on, have every row
\* that was stored before the time they are taken for.
CacheInv ==
    cache = <<>> \/ \E n, t \in Nat : cache = <<n, t>> /\ t <= now /\ n >= Stored[t]

ScanInv ==
    \/ scan = <<>>
    \/ \E r \in 1..Len(request), t \in Nat, n \in Int :
          /\ scan = <<r, t, n>> /\ request[r].came <= t /\ t <= now
          /\ n # -1 => n \in Nat /\ n >= Stored[t]

HealthInv == RequestsInv /\ CacheInv /\ ScanInv

LEMMA HealthInit_holds == \A on : HealthInit(on) => HealthInv
<1>1. SUFFICES ASSUME NEW on, HealthInit(on) PROVE HealthInv
  OBVIOUS
<1>2. request = <<>> /\ cache = <<>> /\ scan = <<>>
  BY <1>1 DEF HealthInit
<1>3. <<>> \in Seq(Request) /\ Len(<<>>) = 0
  BY EmptySeq
<1>4. RequestsInv
  BY <1>2, <1>3 DEF RequestsInv
<1>5. QED BY <1>2, <1>4 DEF HealthInv, CacheInv, ScanInv

\* Time passes, and rows are stored.
LEMMA HealthUnderTable ==
    ASSUME TableInv, HealthInv, TableStep, UNCHANGED healthVars
    PROVE  HealthInv'
<1>1. /\ now \in Nat /\ now' \in Nat /\ now <= now' /\ UNCHANGED <<request, cache, scan>>
      /\ \A t \in Int : t <= now => Stored'[t] = Stored[t]
  BY TableGrows, StoredStays DEF TableInv, healthVars
<1>2. RequestsInv'
  <2>1. request' \in Seq(Request) /\ request \in Seq(Request)
    BY <1>1 DEF HealthInv, RequestsInv
  <2>2. ASSUME NEW r \in 1..Len(request) PROVE Proper(request[r])'
    <3>1. Proper(request[r])
      BY DEF HealthInv, RequestsInv
    <3>2. request[r] \in Request
      BY <2>1, SequenceFacts
    <3>3. request[r].came \in Nat /\ request[r].came - TTL + 1 \in Int /\ request[r].came - TTL + 1 <= request[r].came
      BY <3>2, HealthAssumption DEF Request
    <3>4. request[r].came <= now /\ request[r].came <= now'
      BY <1>1, <3>1, <3>3 DEF Proper
    <3>5. Stored'[request[r].came - TTL + 1] = Stored[request[r].came - TTL + 1]
      BY <1>1, <3>3, <3>4
    <3>6. QED BY <1>1, <3>1, <3>4, <3>5 DEF Proper
  <2>3. QED BY <1>1, <2>1, <2>2 DEF RequestsInv
<1>3. CacheInv'
  <2>1. ASSUME NEW n \in Nat, NEW t \in Nat, cache = <<n, t>>, t <= now, n >= Stored[t]
        PROVE  CacheInv'
    <3>1. t <= now' /\ n >= Stored'[t]
      BY <1>1, <2>1
    <3>2. QED BY <1>1, <2>1, <3>1 DEF CacheInv
  <2>2. QED BY <1>1, <2>1 DEF HealthInv, CacheInv
<1>4. ScanInv'
  <2>1. ASSUME NEW r \in 1..Len(request), NEW t \in Nat, NEW n \in Int, scan = <<r, t, n>>,
               request[r].came <= t, t <= now, n # -1 => n \in Nat /\ n >= Stored[t]
        PROVE  ScanInv'
    <3>1. t <= now' /\ (n # -1 => n \in Nat /\ n >= Stored'[t])
      BY <1>1, <2>1
    <3>2. QED BY <1>1, <2>1, <3>1 DEF ScanInv
  <2>2. QED BY <1>1, <2>1 DEF HealthInv, ScanInv
<1>5. QED BY <1>2, <1>3, <1>4 DEF HealthInv

\* One request gets its answer, or moves on.
LEMMA Answers ==
    ASSUME TableInv, HealthInv, UNCHANGED tableVars,
           NEW r \in 1..Len(request), NEW q \in Request,
           q.came = request[r].came, Proper(q), request' = [request EXCEPT ![r] = q]
    PROVE  RequestsInv' /\ Len(request') = Len(request) /\ \A i \in 1..Len(request) : request'[i].came = request[i].came
<1>1. Stored' = Stored /\ now' = now
  BY DEF tableVars, Stored, StoredBefore
<1>2. PICK s \in Seq(Request) : s = request
  BY DEF HealthInv, RequestsInv
<1>3. /\ [s EXCEPT ![r] = q] \in Seq(Request) /\ Len([s EXCEPT ![r] = q]) = Len(s)
      /\ \A j \in 1..Len(s) : [s EXCEPT ![r] = q][j] = IF j = r THEN q ELSE s[j]
  BY <1>2, ExceptSeq
<1>4. \A j \in 1..Len(s) : request'[j] = IF j = r THEN q ELSE s[j]
  BY <1>2, <1>3
<1>5. \A j \in 1..Len(s) : Proper(s[j])
  BY <1>2 DEF HealthInv, RequestsInv
<1>6. ASSUME NEW j \in 1..Len(s) PROVE Proper(request[j])'
  <2>1. Proper(request'[j])
    BY <1>4, <1>5
  <2>2. QED BY <1>1, <2>1 DEF Proper
<1>7. Len(request') = Len(s) /\ request' \in Seq(Request)
  BY <1>2, <1>3
<1>8. RequestsInv'
  BY <1>6, <1>7 DEF RequestsInv
<1>9. \A i \in 1..Len(request) : request'[i].came = request[i].came
  BY <1>2, <1>4
<1>10. QED BY <1>2, <1>7, <1>8, <1>9

\* A scan goes on under another request's answer.
LEMMA ScanStays ==
    ASSUME TableInv, ScanInv, UNCHANGED tableVars, scan' = scan, Len(request') = Len(request),
           \A i \in 1..Len(request) : request'[i].came = request[i].came
    PROVE  ScanInv'
<1>1. Stored' = Stored /\ now' = now
  BY DEF tableVars, Stored, StoredBefore
<1>2. ASSUME NEW r \in 1..Len(request), NEW t \in Nat, NEW n \in Int, scan = <<r, t, n>>,
             request[r].came <= t, t <= now, n # -1 => n \in Nat /\ n >= Stored[t]
      PROVE  ScanInv'
  <2>1. /\ scan' = <<r, t, n>> /\ request'[r].came <= t /\ t <= now' /\ r \in 1..Len(request')
        /\ n # -1 => n \in Nat /\ n >= Stored'[t]
    BY <1>1, <1>2
  <2>2. QED BY <2>1 DEF ScanInv
<1>3. QED BY <1>2 DEF ScanInv

LEMMA CacheStays ==
    ASSUME CacheInv, UNCHANGED tableVars, cache' = cache
    PROVE  CacheInv'
<1>1. Stored' = Stored /\ now' = now
  BY DEF tableVars, Stored, StoredBefore
<1>2. QED BY <1>1 DEF CacheInv

LEMMA HealthTypes ==
    ASSUME TableInv, HealthInv
    PROVE  /\ Len(request) \in Nat /\ DOMAIN request = 1..Len(request) /\ now \in Nat
           /\ \A r \in 1..Len(request) : request[r] \in Request /\ Proper(request[r])
<1>1. PICK s \in Seq(Request) : s = request
  BY DEF HealthInv, RequestsInv
<1>2. Len(s) \in Nat /\ DOMAIN s = 1..Len(s) /\ \A i \in 1..Len(s) : s[i] \in Request
  BY SequenceFacts
<1>3. QED BY <1>1, <1>2 DEF HealthInv, RequestsInv, TableInv

LEMMA AcceptKeeps == TableInv /\ HealthInv /\ UNCHANGED tableVars /\ Accept => HealthInv'
<1>1. SUFFICES ASSUME TableInv, HealthInv, UNCHANGED tableVars, Accept PROVE HealthInv'
  OBVIOUS
<1>2. /\ Stored' = Stored /\ now' = now /\ UNCHANGED <<cache, scan>>
      /\ request' = Append(request, [state |-> "read", came |-> now, count |-> 0])
  BY <1>1 DEF tableVars, Stored, StoredBefore, Accept
<1> DEFINE q == [state |-> "read", came |-> now, count |-> 0]
<1>3. PICK s \in Seq(Request) : s = request
  BY <1>1 DEF HealthInv, RequestsInv
<1>4. now \in Nat /\ \A i \in 1..Len(s) : s[i] \in Request /\ Proper(s[i])
  BY <1>1, <1>3, HealthTypes
<1>5. q \in Request /\ q.came = now /\ q.state = "read"
  BY <1>4 DEF Request
<1> HIDE DEF q
<1>6. /\ request' \in Seq(Request) /\ Len(request') = Len(s) + 1 /\ Len(s) \in Nat
      /\ request'[Len(s) + 1] = q /\ \A i \in 1..Len(s) : request'[i] = s[i]
  <2>1. request' = Append(s, q)
    BY <1>2, <1>3 DEF q
  <2>2. QED BY <2>1, <1>5, AppendProperties, LenProperties
<1>7. Proper(q)
  BY <1>4, <1>5 DEF Proper
<1>8. ASSUME NEW i \in 1..Len(request') PROVE Proper(request[i])'
  <2>1. Proper(request'[i])
    <3>1. CASE i = Len(s) + 1
      BY <1>6, <1>7, <3>1
    <3>2. CASE i # Len(s) + 1
      <4>1. i \in 1..Len(s)
        BY <1>6, <1>8, <3>2
      <4>2. QED BY <1>4, <1>6, <4>1
    <3>3. QED BY <3>1, <3>2
  <2>2. QED BY <1>2, <2>1 DEF Proper
<1>9. RequestsInv'
  BY <1>6, <1>8 DEF RequestsInv
<1>10. ScanInv'
  <2>1. ASSUME NEW r \in 1..Len(request), NEW t \in Nat, NEW n \in Int, scan = <<r, t, n>>,
               request[r].came <= t, t <= now, n # -1 => n \in Nat /\ n >= Stored[t]
        PROVE  ScanInv'
    <3>1. r \in 1..Len(request') /\ request'[r].came = request[r].came
      BY <1>3, <1>6, <2>1
    <3>2. /\ scan' = <<r, t, n>> /\ request'[r].came <= t /\ t <= now'
          /\ n # -1 => n \in Nat /\ n >= Stored'[t]
      BY <1>2, <2>1, <3>1
    <3>3. QED BY <3>1, <3>2 DEF ScanInv
  <2>2. QED BY <1>1, <1>2, <2>1 DEF HealthInv, ScanInv
<1>11. QED BY <1>1, <1>2, <1>9, <1>10, CacheStays DEF HealthInv

\* A request is refused, or given up: the scan ends with it, the cache stays.
LEMMA RefusedKeeps ==
    \A r \in DOMAIN request :
        TableInv /\ HealthInv /\ UNCHANGED tableVars /\ (Refuse(r) \/ GiveUp(r)) => HealthInv'
<1>1. SUFFICES ASSUME NEW r \in DOMAIN request, TableInv, HealthInv, UNCHANGED tableVars,
                      Refuse(r) \/ GiveUp(r)
               PROVE  HealthInv'
  OBVIOUS
<1>2. /\ request' = [request EXCEPT ![r].state = "refused"] /\ cache' = cache
      /\ scan' = scan \/ scan' = <<>>
  BY <1>1 DEF Refuse, GiveUp
<1>3. r \in 1..Len(request) /\ request[r] \in Request /\ Proper(request[r])
  BY <1>1, HealthTypes
<1> DEFINE q == [request[r] EXCEPT !.state = "refused"]
<1>4. q \in Request /\ q.came = request[r].came /\ q.state = "refused"
  BY <1>3 DEF Request
<1>5. request' = [request EXCEPT ![r] = q]
  BY <1>2
<1> HIDE DEF q
<1>6. Proper(q)
  BY <1>3, <1>4 DEF Proper
<1>7. /\ RequestsInv' /\ Len(request') = Len(request)
      /\ \A i \in 1..Len(request) : request'[i].came = request[i].came
  BY <1>1, <1>3, <1>4, <1>5, <1>6, Answers
<1>8. ScanInv'
  <2>1. CASE scan' = <<>>
    BY <2>1 DEF ScanInv
  <2>2. CASE scan' = scan
    BY <1>1, <1>7, <2>2, ScanStays DEF HealthInv
  <2>3. QED BY <1>2, <2>1, <2>2
<1>9. QED BY <1>1, <1>2, <1>7, <1>8, CacheStays DEF HealthInv

\* The cache is young enough for a request that came by now.
LEMMA CachedKeeps ==
    \A r \in DOMAIN request :
        TableInv /\ HealthInv /\ UNCHANGED tableVars /\ Cached(r) => HealthInv'
<1>1. SUFFICES ASSUME NEW r \in DOMAIN request, TableInv, HealthInv, UNCHANGED tableVars, Cached(r)
               PROVE  HealthInv'
  OBVIOUS
<1>2. /\ request' = [request EXCEPT ![r] = [@ EXCEPT !.state = "answered", !.count = cache[1]]]
      /\ UNCHANGED <<cache, scan>> /\ cache # <<>> /\ now - cache[2] < TTL
  BY <1>1 DEF Cached, Fresh
<1>3. r \in 1..Len(request) /\ request[r] \in Request /\ Proper(request[r]) /\ now \in Nat
  BY <1>1, HealthTypes
<1>4. PICK n \in Nat, t \in Nat : cache = <<n, t>> /\ t <= now /\ n >= Stored[t]
  BY <1>1, <1>2 DEF HealthInv, CacheInv
<1> DEFINE q == [request[r] EXCEPT !.state = "answered", !.count = n]
<1>5. q \in Request /\ q.came = request[r].came /\ q.count = n
  BY <1>3 DEF Request
<1>6. request' = [request EXCEPT ![r] = q] /\ now - t < TTL
  BY <1>2, <1>4
<1> HIDE DEF q
<1>7. Proper(q)
  <2>1. q.came \in Nat /\ q.came <= now
    BY <1>3, <1>5 DEF Proper, Request
  <2>2. q.came - TTL + 1 \in Int /\ q.came - TTL + 1 <= t
    BY <1>3, <1>4, <1>6, <2>1, HealthAssumption, SMTT(30)
  <2>3. Stored[q.came - TTL + 1] <= Stored[t] /\ Stored[t] \in Nat /\ Stored[q.came - TTL + 1] \in Nat
    BY <1>1, <2>2, <1>4, StoredFacts
  <2>4. QED BY <1>4, <1>5, <2>1, <2>3 DEF Proper
<1>8. /\ RequestsInv' /\ Len(request') = Len(request)
      /\ \A i \in 1..Len(request) : request'[i].came = request[i].came
  BY <1>1, <1>3, <1>5, <1>6, <1>7, Answers
<1>9. QED BY <1>1, <1>2, <1>8, ScanStays, CacheStays DEF HealthInv

LEMMA StartScanKeeps ==
    \A r \in DOMAIN request :
        TableInv /\ HealthInv /\ UNCHANGED tableVars /\ StartScan(r) => HealthInv'
<1>1. SUFFICES ASSUME NEW r \in DOMAIN request, TableInv, HealthInv, UNCHANGED tableVars, StartScan(r)
               PROVE  HealthInv'
  OBVIOUS
<1>2. /\ request' = [request EXCEPT ![r].state = "busy"] /\ cache' = cache /\ scan' = <<r, now, -1>>
  BY <1>1 DEF StartScan
<1>3. r \in 1..Len(request) /\ request[r] \in Request /\ Proper(request[r]) /\ now \in Nat
  BY <1>1, HealthTypes
<1> DEFINE q == [request[r] EXCEPT !.state = "busy"]
<1>4. q \in Request /\ q.came = request[r].came /\ q.state = "busy"
  BY <1>3 DEF Request
<1>5. request' = [request EXCEPT ![r] = q]
  BY <1>2
<1> HIDE DEF q
<1>6. Proper(q)
  BY <1>3, <1>4 DEF Proper
<1>7. /\ RequestsInv' /\ Len(request') = Len(request)
      /\ \A i \in 1..Len(request) : request'[i].came = request[i].came
  BY <1>1, <1>3, <1>4, <1>5, <1>6, Answers
<1>8. ScanInv'
  <2>1. request'[r].came <= now /\ now' = now /\ r \in 1..Len(request')
    BY <1>1, <1>3, <1>7 DEF Proper, tableVars
  <2>2. \E n \in Int : scan' = <<r, now, n>> /\ (n # -1 => n \in Nat /\ n >= Stored'[now])
    BY <1>2
  <2>3. QED BY <1>3, <2>1, <2>2 DEF ScanInv
<1>9. QED BY <1>1, <1>2, <1>7, <1>8, CacheStays DEF HealthInv

\* The count has every row of the table, also those that came since the scan began.
LEMMA CountKeeps == TableInv /\ HealthInv /\ UNCHANGED tableVars /\ Count => HealthInv'
<1>1. SUFFICES ASSUME TableInv, HealthInv, UNCHANGED tableVars, Count PROVE HealthInv'
  OBVIOUS
<1>2. /\ scan # <<>> /\ scan' = [scan EXCEPT ![3] = Len(Seen)] /\ UNCHANGED <<request, cache>>
      /\ Stored' = Stored /\ now' = now
  BY <1>1 DEF Count, tableVars, Stored, StoredBefore
<1>3. PICK r \in 1..Len(request), t \in Nat, n \in Int :
          scan = <<r, t, n>> /\ request[r].came <= t /\ t <= now
  BY <1>1, <1>2 DEF HealthInv, ScanInv
<1>4. Len(Seen) \in Nat /\ Len(Seen) >= Stored[t]
  <2>1. Len(Seen) \in Nat /\ Len(table) <= Len(Seen) /\ Len(table) \in Nat
    BY <1>1, SeenHolds, LenProperties DEF SeenInv, TableInv
  <2>2. Stored[t] \in Nat /\ Stored[t] <= Len(table)
    BY <1>1, <1>3, StoredFacts
  <2>3. QED BY <2>1, <2>2
<1>5. scan' = <<r, t, Len(Seen)>>
  BY <1>2, <1>3
<1>6. ScanInv'
  <2>1. /\ request'[r].came <= t /\ t <= now' /\ r \in 1..Len(request')
        /\ Len(Seen) \in Nat /\ Len(Seen) >= Stored'[t]
    BY <1>2, <1>3, <1>4
  <2>2. PICK m \in Int : m = Len(Seen)
    BY <1>4
  <2>3. QED BY <1>3, <1>5, <2>1, <2>2 DEF ScanInv
<1>7. RequestsInv'
  BY <1>1, <1>2 DEF HealthInv, RequestsInv, Proper
<1>8. QED BY <1>1, <1>2, <1>6, <1>7, CacheStays DEF HealthInv

LEMMA SnapshotKeeps == TableInv /\ HealthInv /\ UNCHANGED tableVars /\ Snapshot => HealthInv'
<1>1. SUFFICES ASSUME TableInv, HealthInv, UNCHANGED tableVars, Snapshot PROVE HealthInv'
  OBVIOUS
<1>2. /\ scan # <<>> /\ scan[3] # -1 /\ cache' = <<scan[3], scan[2]>> /\ scan' = <<>>
      /\ request' = [request EXCEPT ![scan[1]] = [@ EXCEPT !.state = "answered", !.count = scan[3]]]
      /\ Stored' = Stored /\ now' = now
  BY <1>1 DEF Snapshot, CacheTime, tableVars, Stored, StoredBefore
<1>3. PICK r \in 1..Len(request), t \in Nat, n \in Int :
          /\ scan = <<r, t, n>> /\ request[r].came <= t /\ t <= now
          /\ n # -1 => n \in Nat /\ n >= Stored[t]
  BY <1>1, <1>2 DEF HealthInv, ScanInv
<1>4. n \in Nat /\ n >= Stored[t] /\ cache' = <<n, t>>
  BY <1>2, <1>3
<1>5. request[r] \in Request /\ Proper(request[r]) /\ now \in Nat
  BY <1>1, HealthTypes
<1> DEFINE q == [request[r] EXCEPT !.state = "answered", !.count = n]
<1>6. q \in Request /\ q.came = request[r].came /\ q.count = n
  BY <1>4, <1>5 DEF Request
<1>7. request' = [request EXCEPT ![r] = q]
  BY <1>2, <1>3
<1> HIDE DEF q
<1>8. Proper(q)
  <2>1. q.came \in Nat /\ q.came <= now /\ q.came <= t
    BY <1>3, <1>5, <1>6 DEF Proper, Request
  <2>2. q.came - TTL + 1 \in Int /\ q.came - TTL + 1 <= t
    BY <2>1, HealthAssumption
  <2>3. Stored[q.came - TTL + 1] <= Stored[t] /\ Stored[t] \in Nat /\ Stored[q.came - TTL + 1] \in Nat
    BY <1>1, <2>2, StoredFacts
  <2>4. QED BY <1>4, <1>6, <2>1, <2>3 DEF Proper
<1>9. RequestsInv'
  BY <1>1, <1>6, <1>7, <1>8, Answers
<1>10. CacheInv'
  <2>1. t <= now' /\ n >= Stored'[t]
    BY <1>2, <1>3, <1>4
  <2>2. QED BY <1>4, <2>1 DEF CacheInv
<1>11. QED BY <1>2, <1>9, <1>10 DEF HealthInv, ScanInv

\* The scans: they began in order, the lock's holder began the last of them, and
\* the cache is at least as young as every other that was not cut short.
ScanRecord == [at : Nat, cut : BOOLEAN]

ScansInv ==
    /\ scans \in Seq(ScanRecord)
    /\ \A i \in 1..Len(scans) : scans[i].at <= now
    /\ \A i, j \in 1..Len(scans) : i <= j => scans[i].at <= scans[j].at
    /\ scan # <<>> => Len(scans) # 0 /\ scans[Len(scans)].at = scan[2]
    /\ \A i \in 1..Len(scans) :
          ~scans[i].cut /\ (scan = <<>> \/ i # Len(scans)) => cache # <<>> /\ scans[i].at <= cache[2]
    /\ \A i, j \in 1..Len(scans) : i < j /\ ~scans[i].cut => scans[j].at - scans[i].at >= TTL

LEMMA ScansInit_holds == \A on : HealthInit(on) => ScansInv
<1>1. SUFFICES ASSUME NEW on, HealthInit(on) PROVE ScansInv
  OBVIOUS
<1>2. scans = <<>> /\ scan = <<>> /\ <<>> \in Seq(ScanRecord) /\ Len(<<>>) = 0
  BY <1>1, EmptySeq DEF HealthInit
<1>3. QED BY <1>2 DEF ScansInv

LEMMA ScansTypes ==
    ASSUME TableInv, ScansInv
    PROVE  /\ Len(scans) \in Nat /\ DOMAIN scans = 1..Len(scans) /\ now \in Nat
           /\ \A i \in 1..Len(scans) : scans[i] \in ScanRecord /\ scans[i].at \in Nat /\ scans[i].cut \in BOOLEAN
<1>1. PICK s \in Seq(ScanRecord) : s = scans
  BY DEF ScansInv
<1>2. Len(s) \in Nat /\ DOMAIN s = 1..Len(s) /\ \A i \in 1..Len(s) : s[i] \in ScanRecord
  BY SequenceFacts
<1>3. QED BY <1>1, <1>2 DEF TableInv, ScanRecord

\* What leaves the scans and the cache alone.
LEMMA ScansStay ==
    ASSUME TableInv, ScansInv, now' \in Nat, now <= now', UNCHANGED <<scans, cache>>,
           scan' = scan \/ (scan # <<>> /\ scan' # <<>> /\ scan'[2] = scan[2])
    PROVE  ScansInv'
<1>1. \A i \in 1..Len(scans) : scans[i].at <= now'
  BY ScansTypes DEF ScansInv
<1>2. QED BY <1>1 DEF ScansInv

\* A new scan begins when the cache is too old, and so is every scan before.
LEMMA ScanStarts ==
    \A r \in DOMAIN request :
        TableInv /\ HealthInv /\ ScansInv /\ UNCHANGED tableVars /\ StartScan(r) => ScansInv'
<1>1. SUFFICES ASSUME NEW r \in DOMAIN request, TableInv, HealthInv, ScansInv,
                      UNCHANGED tableVars, StartScan(r)
               PROVE  ScansInv'
  OBVIOUS
<1> DEFINE q == [at |-> now, cut |-> FALSE]
<1>2. /\ scan = <<>> /\ scan' = <<r, now, -1>> /\ scans' = Append(scans, q) /\ cache' = cache
      /\ now' = now /\ (cache # <<>> => ~(now - cache[2] < TTL))
  BY <1>1 DEF StartScan, LockFree, Fresh, tableVars
<1>3. PICK s \in Seq(ScanRecord) : s = scans
  BY <1>1 DEF ScansInv
<1>4. /\ now \in Nat /\ Len(s) \in Nat
      /\ \A i \in 1..Len(s) : s[i].at \in Nat /\ s[i].at <= now
  BY <1>1, <1>3, ScansTypes DEF ScansInv
<1>5. q \in ScanRecord /\ q.at = now /\ ~q.cut
  BY <1>4 DEF ScanRecord
<1> HIDE DEF q
<1>6. /\ scans' \in Seq(ScanRecord) /\ Len(scans') = Len(s) + 1
      /\ scans'[Len(s) + 1] = q /\ \A i \in 1..Len(s) : scans'[i] = s[i]
  BY <1>2, <1>3, <1>5, AppendProperties
<1>7. ASSUME NEW i \in 1..Len(s), ~s[i].cut PROVE now - s[i].at >= TTL /\ cache # <<>> /\ s[i].at <= cache[2]
  <2>1. cache # <<>> /\ s[i].at <= cache[2]
    BY <1>1, <1>2, <1>3, <1>7 DEF ScansInv
  <2>2. PICK n \in Nat, t \in Nat : cache = <<n, t>>
    BY <1>1, <2>1 DEF HealthInv, CacheInv
  <2>3. ~(now - t < TTL) /\ s[i].at <= t
    BY <1>2, <2>1, <2>2
  <2>4. now - s[i].at >= TTL
    BY <1>4, <2>3, HealthAssumption
  <2>5. QED BY <2>1, <2>4
<1>8. ASSUME NEW i \in 1..Len(scans'), i # Len(s) + 1 PROVE i \in 1..Len(s)
  BY <1>4, <1>6, <1>8
<1>9. \A i \in 1..Len(scans') : scans'[i].at <= now' /\ scans'[i].at \in Nat
  BY <1>2, <1>4, <1>5, <1>6, <1>8
<1>10. \A i, j \in 1..Len(scans') : i <= j => scans'[i].at <= scans'[j].at
  <2>1. SUFFICES ASSUME NEW i \in 1..Len(scans'), NEW j \in 1..Len(scans'), i <= j
                 PROVE  scans'[i].at <= scans'[j].at
    OBVIOUS
  <2>2. CASE j = Len(s) + 1
    <3>1. scans'[j].at = now
      BY <1>5, <1>6, <2>2
    <3>2. QED BY <1>2, <1>9, <3>1
  <2>3. CASE j # Len(s) + 1
    <3>1. i \in 1..Len(s) /\ j \in 1..Len(s)
      BY <1>4, <1>6, <2>1, <2>3
    <3>2. s[i].at <= s[j].at
      BY <1>1, <1>3, <2>1, <3>1 DEF ScansInv
    <3>3. QED BY <1>6, <3>1, <3>2
  <2>4. QED BY <2>2, <2>3
<1>11. \A i, j \in 1..Len(scans') : i < j /\ ~scans'[i].cut => scans'[j].at - scans'[i].at >= TTL
  <2>1. SUFFICES ASSUME NEW i \in 1..Len(scans'), NEW j \in 1..Len(scans'), i < j, ~scans'[i].cut
                 PROVE  scans'[j].at - scans'[i].at >= TTL
    OBVIOUS
  <2>2. i \in 1..Len(s) /\ scans'[i] = s[i]
    BY <1>4, <1>6, <2>1
  <2>3. CASE j = Len(s) + 1
    <3>1. scans'[j].at = now
      BY <1>5, <1>6, <2>3
    <3>2. now - s[i].at >= TTL
      BY <1>7, <2>1, <2>2
    <3>3. QED BY <2>2, <3>1, <3>2
  <2>4. CASE j # Len(s) + 1
    <3>1. j \in 1..Len(s) /\ scans'[j] = s[j]
      BY <1>6, <1>8, <2>4
    <3>2. s[j].at - s[i].at >= TTL
      BY <1>1, <1>3, <2>1, <2>2, <3>1 DEF ScansInv
    <3>3. QED BY <2>2, <3>1, <3>2
  <2>5. QED BY <2>3, <2>4
<1>12. \A i \in 1..Len(scans') :
          ~scans'[i].cut /\ i # Len(scans') => cache # <<>> /\ scans'[i].at <= cache[2]
  BY <1>6, <1>7, <1>8
<1>13. scan' # <<>> /\ scans'[Len(scans')].at = scan'[2] /\ Len(scans') # 0
  BY <1>2, <1>4, <1>5, <1>6
<1>14. QED BY <1>2, <1>6, <1>9, <1>10, <1>11, <1>12, <1>13 DEF ScansInv

LEMMA ScanEnds == TableInv /\ HealthInv /\ ScansInv /\ UNCHANGED tableVars /\ Snapshot => ScansInv'
<1>1. SUFFICES ASSUME TableInv, HealthInv, ScansInv, UNCHANGED tableVars, Snapshot PROVE ScansInv'
  OBVIOUS
<1>2. scan # <<>> /\ cache' = <<scan[3], scan[2]>> /\ scan' = <<>> /\ UNCHANGED <<scans, now>>
  BY <1>1 DEF Snapshot, CacheTime, tableVars
<1>3. Len(scans) \in Nat /\ Len(scans) # 0 /\ scans[Len(scans)].at = scan[2]
  BY <1>1, <1>2, ScansTypes DEF ScansInv
<1>4. \A i \in 1..Len(scans) : scans[i].at <= scan[2]
  <2>1. ASSUME NEW i \in 1..Len(scans) PROVE scans[i].at <= scan[2]
    <3>1. i <= Len(scans) /\ Len(scans) \in 1..Len(scans)
      BY <1>3, <2>1
    <3>2. QED BY <1>1, <1>3, <2>1, <3>1 DEF ScansInv
  <2>2. QED BY <2>1
<1>5. cache' # <<>> /\ cache'[2] = scan[2]
  BY <1>2
<1>6. QED BY <1>1, <1>2, <1>4, <1>5 DEF ScansInv

\* The scan that is given up no longer counts.
LEMMA ScanIsCut ==
    \A r \in DOMAIN request :
        TableInv /\ ScansInv /\ UNCHANGED tableVars /\ GiveUp(r) => ScansInv'
<1>1. SUFFICES ASSUME NEW r \in DOMAIN request, TableInv, ScansInv, UNCHANGED tableVars, GiveUp(r)
               PROVE  ScansInv'
  OBVIOUS
<1>2. cache' = cache /\ now' = now /\ now \in Nat
  BY <1>1 DEF GiveUp, tableVars, TableInv
<1>3. CASE UNCHANGED <<scan, scans>>
  <2>1. now' \in Nat /\ now <= now' /\ UNCHANGED <<scans, cache>> /\ scan' = scan
    BY <1>2, <1>3
  <2>2. QED BY <1>1, <2>1, ScansStay
<1>4. CASE scan # <<>> /\ scan' = <<>> /\ scans' = [scans EXCEPT ![Len(scans)].cut = TRUE]
  <2>1. PICK s \in Seq(ScanRecord) : s = scans
    BY <1>1 DEF ScansInv
  <2>2. Len(s) \in Nat /\ Len(s) # 0 /\ Len(s) \in 1..Len(s)
    BY <1>1, <1>4, <2>1, LenProperties DEF ScansInv
  <2> DEFINE q == [s[Len(s)] EXCEPT !.cut = TRUE]
  <2>3. s[Len(s)] \in ScanRecord
    BY <2>2, SequenceFacts
  <2>4. q \in ScanRecord /\ q.at = s[Len(s)].at /\ q.cut
    BY <2>3 DEF ScanRecord
  <2>5. scans' = [s EXCEPT ![Len(s)] = q]
    BY <1>4, <2>1
  <2> HIDE DEF q
  <2>6. /\ scans' \in Seq(ScanRecord) /\ Len(scans') = Len(s)
        /\ \A j \in 1..Len(s) : scans'[j] = IF j = Len(s) THEN q ELSE s[j]
    BY <2>2, <2>4, <2>5, ExceptSeq
  <2>7. \A j \in 1..Len(s) : /\ scans'[j].at = s[j].at
                             /\ ~scans'[j].cut => ~s[j].cut /\ j # Len(s)
    BY <2>4, <2>6
  <2>8. /\ \A i \in 1..Len(s) : scans'[i].at <= now'
        /\ \A i, j \in 1..Len(s) : i <= j => scans'[i].at <= scans'[j].at
    BY <1>1, <1>2, <2>1, <2>7 DEF ScansInv
  <2>9. \A i \in 1..Len(s) : ~scans'[i].cut => cache' # <<>> /\ scans'[i].at <= cache'[2]
    BY <1>1, <1>2, <2>1, <2>7 DEF ScansInv
  <2>10. \A i, j \in 1..Len(s) : i < j /\ ~scans'[i].cut => scans'[j].at - scans'[i].at >= TTL
    BY <1>1, <2>1, <2>7 DEF ScansInv
  <2>11. QED BY <1>4, <2>6, <2>8, <2>9, <2>10 DEF ScansInv
<1>5. QED BY <1>1, <1>3, <1>4 DEF GiveUp

LEMMA OtherActionsKeepScans ==
    TableInv /\ HealthInv /\ ScansInv /\ UNCHANGED tableVars
        /\ (Accept \/ Count \/ \E r \in DOMAIN request : Refuse(r) \/ Cached(r))
    => ScansInv'
<1>1. SUFFICES ASSUME TableInv, HealthInv, ScansInv, UNCHANGED tableVars,
                      Accept \/ Count \/ \E r \in DOMAIN request : Refuse(r) \/ Cached(r)
               PROVE  ScansInv'
  OBVIOUS
<1>2. now' \in Nat /\ now <= now'
  BY <1>1 DEF tableVars, TableInv
<1>3. UNCHANGED <<scans, cache>> /\ (scan' = scan \/ (scan # <<>> /\ scan' = [scan EXCEPT ![3] = Len(Seen)]))
  BY <1>1 DEF Accept, Count, Refuse, Cached
<1>4. scan' = scan \/ (scan # <<>> /\ scan' # <<>> /\ scan'[2] = scan[2])
  <2>1. CASE scan # <<>> /\ scan' = [scan EXCEPT ![3] = Len(Seen)]
    <3>1. PICK r \in 1..Len(request), t \in Nat, n \in Int : scan = <<r, t, n>>
      BY <1>1, <2>1 DEF HealthInv, ScanInv
    <3>2. scan' = <<r, t, Len(Seen)>>
      BY <2>1, <3>1
    <3>3. QED BY <2>1, <3>1, <3>2
  <2>2. QED BY <1>3, <2>1
<1>5. QED BY <1>1, <1>2, <1>3, <1>4, ScansStay

ProbeInv == TableInv /\ HealthInv /\ ScansInv

LEMMA ProbeSteps == ProbeInv /\ [Next]_vars => ProbeInv'
<1>1. SUFFICES ASSUME ProbeInv, [Next]_vars PROVE ProbeInv'
  OBVIOUS
<1>2. TableInv /\ HealthInv /\ ScansInv
  BY <1>1 DEF ProbeInv
<1>3. CASE UNCHANGED tableVars /\ UNCHANGED healthVars
  <2>1. Stored' = Stored /\ now' = now /\ UNCHANGED <<request, cache, scan, scans>>
    BY <1>3 DEF tableVars, healthVars, Stored, StoredBefore
  <2>2. TableInv'
    BY <1>2, <1>3 DEF TableInv, Writing, tableVars
  <2>3. HealthInv'
    BY <1>2, <2>1 DEF HealthInv, RequestsInv, Proper, CacheInv, ScanInv
  <2>4. ScansInv'
    BY <1>2, <2>1 DEF ScansInv
  <2>5. QED BY <2>2, <2>3, <2>4 DEF ProbeInv
<1>4. CASE TableStep /\ UNCHANGED healthVars
  <2>1. now' \in Nat /\ now <= now'
    BY <1>2, <1>4, TableGrows
  <2>2. UNCHANGED <<scans, cache>> /\ scan' = scan
    BY <1>4 DEF healthVars
  <2>3. ScansInv'
    BY <1>2, <2>1, <2>2, ScansStay
  <2>4. QED BY <1>2, <1>4, <2>3, TableSteps, HealthUnderTable DEF ProbeInv
<1>5. CASE HealthNext
  <2>1. UNCHANGED tableVars
    BY <1>5 DEF HealthNext
  <2>2. TableInv'
    BY <1>2, <2>1 DEF TableInv, Writing, tableVars
  <2>3. CASE Accept
    BY <1>2, <2>1, <2>2, <2>3, AcceptKeeps, OtherActionsKeepScans DEF ProbeInv
  <2>4. CASE Count
    BY <1>2, <2>1, <2>2, <2>4, CountKeeps, OtherActionsKeepScans DEF ProbeInv
  <2>5. CASE Snapshot
    BY <1>2, <2>1, <2>2, <2>5, SnapshotKeeps, ScanEnds DEF ProbeInv
  <2>6. ASSUME NEW r \in DOMAIN request, Refuse(r) PROVE ProbeInv'
    BY <1>2, <2>1, <2>2, <2>6, RefusedKeeps, OtherActionsKeepScans DEF ProbeInv
  <2>7. ASSUME NEW r \in DOMAIN request, Cached(r) PROVE ProbeInv'
    BY <1>2, <2>1, <2>2, <2>7, CachedKeeps, OtherActionsKeepScans DEF ProbeInv
  <2>8. ASSUME NEW r \in DOMAIN request, StartScan(r) PROVE ProbeInv'
    BY <1>2, <2>1, <2>2, <2>8, StartScanKeeps, ScanStarts DEF ProbeInv
  <2>9. ASSUME NEW r \in DOMAIN request, GiveUp(r) PROVE ProbeInv'
    BY <1>2, <2>1, <2>2, <2>9, RefusedKeeps, ScanIsCut DEF ProbeInv
  <2>10. CASE QueryFails
    <3>1. scan # <<>> /\ GiveUp(scan[1])
      BY <2>10 DEF QueryFails
    <3>2. PICK r \in 1..Len(request), t \in Nat, n \in Int : scan = <<r, t, n>>
      BY <1>2, <3>1 DEF HealthInv, ScanInv
    <3>3. r \in DOMAIN request /\ GiveUp(r)
      BY <1>2, <3>1, <3>2, HealthTypes
    <3>4. QED BY <2>9, <3>3
  <2>11. QED BY <1>5, <2>3, <2>4, <2>5, <2>6, <2>7, <2>8, <2>9, <2>10 DEF HealthNext, Expire
<1>6. QED
  BY <1>1, <1>3, <1>4, <1>5
     DEF Next, Follow, Probe, Report, Proxies, Killed, Clock, FollowNext, TelemetryNext, TableStep, vars

LEMMA ProbeInvariance == Spec => []ProbeInv
<1>1. Init => ProbeInv
  BY TableInit_holds, HealthInit_holds, ScansInit_holds DEF Init, ProbeInv
<1>2. QED BY <1>1, ProbeSteps, PTL DEF Spec

\* An answer of /health, from the cache or from a scan that writers overtook, counts
\* every event that was stored the time to live before the request came.
THEOREM HealthIsFresh == Spec => []AnswersFresh
<1>1. ProbeInv => AnswersFresh
  <2>1. SUFFICES ASSUME ProbeInv, NEW r \in DOMAIN request, request[r].state = "answered"
                 PROVE  request[r].count >= StoredBefore(request[r].came - TTL + 1)
    BY DEF AnswersFresh
  <2>2. request[r] \in Request /\ Proper(request[r])
    BY <2>1, HealthTypes DEF ProbeInv
  <2>3. request[r].came - TTL + 1 \in Int
    BY <2>2, HealthAssumption DEF Request
  <2>4. Stored[request[r].came - TTL + 1] = StoredBefore(request[r].came - TTL + 1)
    BY <2>3 DEF Stored
  <2>5. QED BY <2>1, <2>2, <2>4 DEF Proper
<1>2. QED BY <1>1, ProbeInvariance, PTL

\* However many requests come, two scans that are not cut short begin at least the
\* time to live apart.
THEOREM ScansKeepDistance == Spec => []ScansSpaced
<1>1. ProbeInv => ScansSpaced
  BY ScansTypes DEF ProbeInv, ScansInv, ScansSpaced
<1>2. QED BY <1>1, ProbeInvariance, PTL

-----------------------------------------------------------------------------
(* The telemetry side-car: what it sent, and what it wrote down.            *)

Payload == [total : SUBSET Nat, got : BOOLEAN, unwritten : BOOLEAN]
Line    == [payload : Nat, status : {"ok", "error", "disabled-by-config"}]

SidecarTypes ==
    /\ sent \in Seq(Payload) /\ log \in Seq(Line) /\ total \in SUBSET Nat
    /\ end \in Nat /\ end <= now /\ due \in Nat /\ queries \in 0..4
    /\ loop = "post" => Len(sent) # 0
    \* Own is killed in behaviours of the follower only.
    /\ phase # "off" => loop = "off" /\ sent = <<>>

\* A payload counts rows from before the window of the next one.
Counted(i) ==
    /\ i \in 1..Len(Seen)
    /\ loop = "sleep" => Seen[i].ts < due - Day
    /\ loop = "stats" => Seen[i].ts < end - Day
    /\ loop = "post"  => Seen[i].ts < end

InHand(i) == i \in 1..Len(Seen) /\ end - Day <= Seen[i].ts /\ Seen[i].ts < end

TotalsInv ==
    /\ \A k \in 1..Len(sent) : \A i \in sent[k].total : Counted(i)
    /\ loop = "stats" /\ queries # 0 => \A i \in total : InHand(i)
    /\ \A k, m \in 1..Len(sent) : k # m => sent[k].total \cap sent[m].total = {}

\* Every payload has its line, but for the one that is on its way.
Written(k) == (\E i \in 1..Len(log) : log[i].payload = k) \/ sent[k].unwritten

LinesInv ==
    /\ \A k \in 1..Len(sent) : Written(k) \/ (k = Len(sent) /\ loop \in {"post", "ended"})
    /\ \A i \in 1..Len(log) : log[i].status = "ok" =>
          log[i].payload \in 1..Len(sent) /\ sent[log[i].payload].got

SidecarInv == TableInv /\ SidecarTypes /\ TotalsInv /\ LinesInv

LEMMA SidecarFacts ==
    ASSUME SidecarInv
    PROVE  /\ Len(sent) \in Nat /\ DOMAIN sent = 1..Len(sent)
           /\ \A k \in 1..Len(sent) : sent[k] \in Payload
           /\ Len(log) \in Nat /\ DOMAIN log = 1..Len(log)
           /\ \A i \in 1..Len(log) : log[i] \in Line
           /\ Len(Seen) \in Nat /\ DOMAIN Seen = 1..Len(Seen)
           /\ \A i \in 1..Len(Seen) : Seen[i].ts \in Nat
           /\ now \in Nat /\ end \in Nat /\ due \in Nat /\ Day \in Nat \ {0}
<1>1. PICK s \in Seq(Payload), l \in Seq(Line), r \in Seq(Row) : s = sent /\ l = log /\ r = Seen
  BY SeenHolds DEF SidecarInv, SidecarTypes, SeenInv
<1>2. /\ Len(s) \in Nat /\ DOMAIN s = 1..Len(s) /\ \A i \in 1..Len(s) : s[i] \in Payload
      /\ Len(l) \in Nat /\ DOMAIN l = 1..Len(l) /\ \A i \in 1..Len(l) : l[i] \in Line
      /\ Len(r) \in Nat /\ DOMAIN r = 1..Len(r) /\ \A i \in 1..Len(r) : r[i] \in Row
  BY SequenceFacts
<1>3. \A i \in 1..Len(r) : r[i].ts \in Nat
  BY <1>2 DEF Row
<1>4. now \in Nat /\ end \in Nat /\ due \in Nat /\ Day \in Nat \ {0}
  BY TelemetryAssumption DEF SidecarInv, SidecarTypes, TableInv
<1>5. QED BY <1>1, <1>2, <1>3, <1>4

LEMMA SidecarInit_holds == Init => SidecarInv
<1>1. SUFFICES ASSUME Init PROVE SidecarInv
  OBVIOUS
<1>2. /\ sent = <<>> /\ log = <<>> /\ total = {} /\ end = 0 /\ queries = 0 /\ due = WarmUp
      /\ loop \in {"off", "sleep"} /\ (phase # "off" => loop = "off") /\ TableInit
  BY <1>1 DEF Init, FollowInit, TelemetryInit
<1>3. TableInv /\ now \in Nat /\ 0 <= now
  BY <1>2, TableInit_holds DEF TableInv
<1>4. /\ <<>> \in Seq(Payload) /\ <<>> \in Seq(Line) /\ Len(<<>>) = 0
  BY EmptySeq
<1>5. WarmUp \in Nat
  BY TelemetryAssumption
<1>6. SidecarTypes
  BY <1>2, <1>3, <1>4, <1>5 DEF SidecarTypes
<1>7. TotalsInv
  BY <1>2, <1>4 DEF TotalsInv
<1>8. LinesInv
  BY <1>2, <1>4 DEF LinesInv
<1>9. QED BY <1>3, <1>6, <1>7, <1>8 DEF SidecarInv

\* Rows that are stored keep their places and timestamps while the process lives.
LEMMA SidecarUnderTable ==
    ASSUME SidecarInv, UNCHANGED telemetryVars, phase' = phase,
           TableNext \/ Tick \/ \E w \in Writers : (phase = "off" => w # Own) /\ Rollback(w)
    PROVE  SidecarInv'
<1>1. TableInv /\ TableStep /\ TableInv'
  BY TableSteps DEF SidecarInv, TableStep
<1>2. /\ now <= now' /\ now' \in Nat /\ now \in Nat /\ end \in Nat
      /\ UNCHANGED <<loop, due, end, queries, total, sent, log>>
  BY <1>1, TableGrows, SidecarFacts DEF telemetryVars, TableInv
<1>3. SidecarTypes'
  <2>1. end' <= now'
    BY <1>2 DEF SidecarInv, SidecarTypes
  <2>2. QED BY <1>2, <2>1 DEF SidecarInv, SidecarTypes
<1>4. LinesInv'
  BY <1>2 DEF SidecarInv, LinesInv, Written
<1>5. TotalsInv'
  <2>1. CASE phase # "off"
    <3>1. loop = "off" /\ Len(sent) = 0
      BY <2>1, EmptySeq DEF SidecarInv, SidecarTypes
    <3>2. QED BY <1>2, <3>1 DEF TotalsInv
  <2>2. CASE phase = "off"
    <3>1. /\ Len(Seen) \in Nat /\ Len(Seen') \in Nat /\ Len(Seen) <= Len(Seen')
          /\ \A i \in 1..Len(Seen) : Seen'[i].ts = Seen[i].ts
      BY <1>1, <2>2, SeenGrows
    <3>2. \A i : Counted(i) => Counted(i)'
      BY <1>2, <3>1 DEF Counted
    <3>3. \A i : InHand(i) => InHand(i)'
      BY <1>2, <3>1 DEF InHand
    <3>4. /\ \A k \in 1..Len(sent) : \A i \in sent[k].total : Counted(i)
          /\ loop = "stats" /\ queries # 0 => \A i \in total : InHand(i)
          /\ \A k, m \in 1..Len(sent) : k # m => sent[k].total \cap sent[m].total = {}
      BY DEF SidecarInv, TotalsInv
    <3>5. QED BY <1>2, <3>2, <3>3, <3>4 DEF TotalsInv
  <2>3. QED BY <2>1, <2>2
<1>6. QED BY <1>1, <1>3, <1>4, <1>5 DEF SidecarInv

\* What the side-car does leaves the table as it is.
LEMMA SeenSame ==
    ASSUME TableInv, UNCHANGED tableVars
    PROVE  TableInv' /\ Seen' = Seen /\ now' = now
BY DEF TableInv, Writing, tableVars, Seen, Batch

LEMMA WakeKeeps == SidecarInv /\ UNCHANGED <<tableVars, phase>> /\ Wake => SidecarInv'
<1>1. SUFFICES ASSUME SidecarInv, UNCHANGED <<tableVars, phase>>, Wake PROVE SidecarInv'
  OBVIOUS
<1>2. /\ TableInv' /\ Seen' = Seen /\ now' = now /\ phase' = phase
      /\ loop = "sleep" /\ now >= due /\ loop' = "stats" /\ end' = now /\ queries' = 0
      /\ UNCHANGED <<due, total, sent, log>>
  BY <1>1, SeenSame DEF Wake, SidecarInv
<1>3. SidecarTypes'
  BY <1>1, <1>2, SidecarFacts DEF SidecarInv, SidecarTypes
<1>4. TotalsInv'
  <2>1. \A i : Counted(i) => Counted(i)'
    <3>1. SUFFICES ASSUME NEW i, Counted(i) PROVE Counted(i)'
      OBVIOUS
    <3>2. i \in 1..Len(Seen) /\ Seen[i].ts < due - Day
      BY <1>2, <3>1 DEF Counted
    <3>3. Seen[i].ts < now - Day
      BY <1>1, <1>2, <3>2, SidecarFacts
    <3>4. QED BY <1>2, <3>2, <3>3 DEF Counted
  <2>2. /\ \A k \in 1..Len(sent) : \A i \in sent[k].total : Counted(i)
        /\ \A k, m \in 1..Len(sent) : k # m => sent[k].total \cap sent[m].total = {}
    BY <1>1 DEF SidecarInv, TotalsInv
  <2>3. QED BY <1>2, <2>1, <2>2 DEF TotalsInv
<1>5. LinesInv'
  BY <1>1, <1>2 DEF SidecarInv, LinesInv, Written
<1>6. QED BY <1>2, <1>3, <1>4, <1>5 DEF SidecarInv

LEMMA QueryKeeps == SidecarInv /\ UNCHANGED <<tableVars, phase>> /\ Query => SidecarInv'
<1>1. SUFFICES ASSUME SidecarInv, UNCHANGED <<tableVars, phase>>, Query PROVE SidecarInv'
  OBVIOUS
<1>2. /\ TableInv' /\ Seen' = Seen /\ now' = now /\ phase' = phase
      /\ loop = "stats" /\ queries < 4 /\ queries' = queries + 1
      /\ total' = (IF queries = 0 THEN Window(end - Day, end) ELSE total)
      /\ UNCHANGED <<loop, due, end, sent, log>>
  BY <1>1, SeenSame DEF Query, SidecarInv
<1>3. /\ \A i \in Window(end - Day, end) : InHand(i)
      /\ Window(end - Day, end) \in SUBSET Nat
  BY <1>1, SidecarFacts DEF Window, InHand
<1>4. SidecarTypes'
  <2>1. total' \in SUBSET Nat
    BY <1>1, <1>2, <1>3 DEF SidecarInv, SidecarTypes
  <2>2. queries' \in 0..4
    BY <1>1, <1>2 DEF SidecarInv, SidecarTypes
  <2>3. QED BY <1>1, <1>2, <2>1, <2>2 DEF SidecarInv, SidecarTypes
<1>5. TotalsInv'
  <2>1. \A i : (Counted(i) => Counted(i)') /\ (InHand(i) => InHand(i)')
    BY <1>2 DEF Counted, InHand
  <2>2. /\ \A k \in 1..Len(sent) : \A i \in sent[k].total : Counted(i)
        /\ queries # 0 => \A i \in total : InHand(i)
        /\ \A k, m \in 1..Len(sent) : k # m => sent[k].total \cap sent[m].total = {}
    BY <1>1, <1>2 DEF SidecarInv, TotalsInv
  <2>3. \A i \in total' : InHand(i)
    BY <1>2, <1>3, <2>2
  <2>4. QED BY <1>2, <2>1, <2>2, <2>3 DEF TotalsInv
<1>6. LinesInv'
  BY <1>1, <1>2 DEF SidecarInv, LinesInv, Written
<1>7. QED BY <1>2, <1>4, <1>5, <1>6 DEF SidecarInv

\* A new payload counts what is in the window, and earlier ones what is before it.
LEMMA PostKeeps == SidecarInv /\ UNCHANGED <<tableVars, phase>> /\ Post => SidecarInv'
<1>1. SUFFICES ASSUME SidecarInv, UNCHANGED <<tableVars, phase>>, Post PROVE SidecarInv'
  OBVIOUS
<1> DEFINE p == [total |-> total, got |-> FALSE, unwritten |-> FALSE]
<1>2. /\ TableInv' /\ Seen' = Seen /\ now' = now /\ phase' = phase
      /\ loop = "stats" /\ queries = 4 /\ loop' = "post" /\ sent' = Append(sent, p)
      /\ UNCHANGED <<due, end, queries, total, log>>
  BY <1>1, SeenSame DEF Post, SidecarInv
<1>3. p \in Payload /\ p.total = total
  BY <1>1 DEF SidecarInv, SidecarTypes, Payload
<1> HIDE DEF p
<1>4. PICK s \in Seq(Payload) : s = sent
  BY <1>1 DEF SidecarInv, SidecarTypes
<1>5. /\ sent' \in Seq(Payload) /\ Len(sent') = Len(s) + 1 /\ sent'[Len(s) + 1] = p
      /\ Len(s) \in Nat /\ \A k \in 1..Len(s) : sent'[k] = s[k]
  BY <1>2, <1>3, <1>4, AppendProperties, LenProperties
<1>6. SidecarTypes'
  BY <1>1, <1>2, <1>5 DEF SidecarInv, SidecarTypes
<1>7. \A k \in 1..Len(sent') : k # Len(s) + 1 => k \in 1..Len(s)
  BY <1>5
<1>8. /\ \A k \in 1..Len(s) : \A i \in s[k].total : Counted(i)
      /\ \A i \in total : InHand(i)
      /\ \A k, m \in 1..Len(s) : k # m => s[k].total \cap s[m].total = {}
  BY <1>1, <1>2, <1>4 DEF SidecarInv, TotalsInv
<1>9. \A k \in 1..Len(s) : s[k].total \cap total = {}
  <2>1. SUFFICES ASSUME NEW k \in 1..Len(s), NEW i \in s[k].total, i \in total PROVE FALSE
    OBVIOUS
  <2>2. i \in 1..Len(Seen) /\ Seen[i].ts < end - Day /\ end - Day <= Seen[i].ts
    BY <1>2, <1>8, <2>1 DEF Counted, InHand
  <2>3. QED BY <1>1, <2>2, SidecarFacts
<1>10. TotalsInv'
  <2>1. ASSUME NEW k \in 1..Len(sent'), NEW i \in sent'[k].total PROVE Counted(i)'
    <3>1. i \in 1..Len(Seen) /\ Seen[i].ts < end
      <4>1. CASE k = Len(s) + 1
        BY <1>3, <1>5, <1>8, <2>1, <4>1 DEF InHand
      <4>2. CASE k # Len(s) + 1
        <5>1. Counted(i)
          BY <1>5, <1>7, <1>8, <2>1, <4>2
        <5>2. i \in 1..Len(Seen) /\ Seen[i].ts < end - Day
          BY <1>2, <5>1 DEF Counted
        <5>3. QED BY <1>1, <5>2, SidecarFacts
      <4>3. QED BY <4>1, <4>2
    <3>2. QED BY <1>2, <3>1 DEF Counted
  <2>2. ASSUME NEW k \in 1..Len(sent'), NEW m \in 1..Len(sent'), k # m
        PROVE  sent'[k].total \cap sent'[m].total = {}
    <3>1. CASE k = Len(s) + 1
      <4>1. m \in 1..Len(s) /\ sent'[m] = s[m] /\ sent'[k].total = total
        BY <1>3, <1>5, <1>7, <2>2, <3>1
      <4>2. QED BY <1>9, <4>1
    <3>2. CASE m = Len(s) + 1
      <4>1. k \in 1..Len(s) /\ sent'[k] = s[k] /\ sent'[m].total = total
        BY <1>3, <1>5, <1>7, <2>2, <3>2
      <4>2. QED BY <1>9, <4>1
    <3>3. CASE k # Len(s) + 1 /\ m # Len(s) + 1
      BY <1>5, <1>7, <1>8, <2>2, <3>3
    <3>4. QED BY <3>1, <3>2, <3>3
  <2>3. QED BY <1>2, <2>1, <2>2 DEF TotalsInv
<1>11. LinesInv'
  <2>1. ASSUME NEW k \in 1..Len(s) PROVE Written(k)'
    <3>1. Written(k)
      BY <1>1, <1>2, <1>4, <2>1 DEF SidecarInv, LinesInv
    <3>2. QED BY <1>2, <1>4, <1>5, <2>1, <3>1 DEF Written
  <2>2. ASSUME NEW i \in 1..Len(log), log[i].status = "ok"
        PROVE  log[i].payload \in 1..Len(sent') /\ sent'[log[i].payload].got
    <3>1. log[i].payload \in 1..Len(s) /\ s[log[i].payload].got
      BY <1>1, <1>4, <2>2 DEF SidecarInv, LinesInv
    <3>2. log[i].payload \in 1..Len(sent')
      BY <1>5, <3>1
    <3>3. QED BY <1>5, <3>1, <3>2
  <2>3. \A k \in 1..Len(sent') : Written(k)' \/ k = Len(sent')
    BY <1>5, <1>7, <2>1
  <2>4. QED BY <1>2, <2>2, <2>3 DEF LinesInv
<1>12. QED BY <1>2, <1>6, <1>10, <1>11 DEF SidecarInv

\* What the totals of earlier payloads are when the loop goes on, sleeps or ends.
LEMMA TotalsKept ==
    ASSUME SidecarInv, UNCHANGED <<tableVars, phase, end, queries, total>>,
           log' \in Seq(Line), sent' \in Seq(Payload), Len(sent') = Len(sent),
           \A k \in 1..Len(sent) : sent'[k].total = sent[k].total,
           loop \in {"sleep", "stats", "post"},
           \/ UNCHANGED <<loop, due>>
           \/ loop' = "sleep" /\ loop # "sleep" /\ due' = now + Day
           \/ loop' = "ended" /\ due' = due
    PROVE  TableInv' /\ SidecarTypes' /\ TotalsInv'
<1>1. TableInv' /\ Seen' = Seen /\ now' = now /\ UNCHANGED <<phase, end, queries, total>>
  BY SeenSame DEF SidecarInv
<1>2. SidecarTypes'
  <2>1. due' \in Nat
    BY SidecarFacts
  <2>2. phase = "off" /\ (loop' = "post" => Len(sent') # 0)
    BY DEF SidecarInv, SidecarTypes
  <2>3. QED BY <1>1, <2>1, <2>2 DEF SidecarInv, SidecarTypes
<1>3. \A i : Counted(i) => Counted(i)'
  <2>1. SUFFICES ASSUME NEW i, Counted(i) PROVE Counted(i)'
    OBVIOUS
  <2>2. i \in 1..Len(Seen) /\ Seen[i].ts \in Nat
    BY <2>1, SidecarFacts DEF Counted
  <2>3. CASE UNCHANGED <<loop, due>>
    BY <1>1, <2>1, <2>3 DEF Counted
  <2>4. CASE loop' = "ended"
    BY <1>1, <2>2, <2>4 DEF Counted
  <2>5. CASE loop' = "sleep" /\ loop # "sleep" /\ due' = now + Day
    <3>1. Seen[i].ts < end
      BY <2>1, <2>2, <2>5, SidecarFacts DEF Counted
    <3>2. end <= now
      BY DEF SidecarInv, SidecarTypes
    <3>3. Seen[i].ts < due' - Day
      BY <2>2, <2>5, <3>1, <3>2, SidecarFacts
    <3>4. QED BY <1>1, <2>2, <2>5, <3>3 DEF Counted
  <2>6. QED BY <2>3, <2>4, <2>5
<1>4. loop' = "stats" /\ queries' # 0 => \A i \in total' : InHand(i)'
  <2>1. \A i : InHand(i) => InHand(i)'
    BY <1>1 DEF InHand
  <2>2. loop = "stats" /\ queries # 0 => \A i \in total : InHand(i)
    BY DEF SidecarInv, TotalsInv
  <2>3. QED BY <1>1, <2>1, <2>2
<1>5. /\ \A k \in 1..Len(sent) : \A i \in sent[k].total : Counted(i)
      /\ \A k, m \in 1..Len(sent) : k # m => sent[k].total \cap sent[m].total = {}
  BY DEF SidecarInv, TotalsInv
<1>6. TotalsInv'
  BY <1>3, <1>4, <1>5 DEF TotalsInv
<1>7. QED BY <1>1, <1>2, <1>6

\* The flags of the payload in flight.
LEMMA LastFlagged ==
    ASSUME SidecarInv, loop = "post", NEW q \in Payload, q.total = sent[Len(sent)].total,
           sent' = [sent EXCEPT ![Len(sent)] = q]
    PROVE  /\ sent' \in Seq(Payload) /\ Len(sent') = Len(sent) /\ Len(sent) \in 1..Len(sent)
           /\ \A k \in 1..Len(sent) : sent'[k] = IF k = Len(sent) THEN q ELSE sent[k]
           /\ \A k \in 1..Len(sent) : sent'[k].total = sent[k].total
<1>1. PICK s \in Seq(Payload) : s = sent
  BY DEF SidecarInv, SidecarTypes
<1>2. Len(s) \in 1..Len(s)
  BY <1>1, LenProperties DEF SidecarInv, SidecarTypes
<1>3. /\ [s EXCEPT ![Len(s)] = q] \in Seq(Payload) /\ Len([s EXCEPT ![Len(s)] = q]) = Len(s)
      /\ \A k \in 1..Len(s) : [s EXCEPT ![Len(s)] = q][k] = IF k = Len(s) THEN q ELSE s[k]
  BY <1>2, ExceptSeq
<1>4. \A k \in 1..Len(s) : sent'[k] = IF k = Len(s) THEN q ELSE s[k]
  BY <1>1, <1>3
<1>5. \A k \in 1..Len(s) : sent'[k].total = s[k].total
  BY <1>1, <1>4
<1>6. QED BY <1>1, <1>2, <1>3, <1>4, <1>5

LEMMA DeliverKeeps == SidecarInv /\ UNCHANGED <<tableVars, phase>> /\ Deliver => SidecarInv'
<1>1. SUFFICES ASSUME SidecarInv, UNCHANGED <<tableVars, phase>>, Deliver PROVE SidecarInv'
  OBVIOUS
<1> DEFINE q == [sent[Len(sent)] EXCEPT !.got = TRUE]
<1>2. /\ loop = "post" /\ sent' = [sent EXCEPT ![Len(sent)] = q]
      /\ UNCHANGED <<loop, due, end, queries, total, log>>
  BY <1>1 DEF Deliver
<1>3. Len(sent) \in 1..Len(sent) /\ sent[Len(sent)] \in Payload
  BY <1>1, <1>2, SidecarFacts DEF SidecarInv, SidecarTypes
<1>4. q \in Payload /\ q.total = sent[Len(sent)].total /\ q.unwritten = sent[Len(sent)].unwritten /\ q.got
  BY <1>3 DEF Payload
<1> HIDE DEF q
<1>5. /\ sent' \in Seq(Payload) /\ Len(sent') = Len(sent)
      /\ \A k \in 1..Len(sent) : sent'[k] = IF k = Len(sent) THEN q ELSE sent[k]
      /\ \A k \in 1..Len(sent) : sent'[k].total = sent[k].total
  BY <1>1, <1>2, <1>4, LastFlagged
<1>6. \A k \in 1..Len(sent) : /\ sent'[k].unwritten = sent[k].unwritten
                              /\ sent[k].got => sent'[k].got
  BY <1>4, <1>5
<1>7. LinesInv'
  <2>1. \A k \in 1..Len(sent) : Written(k) => Written(k)'
    BY <1>2, <1>6 DEF Written
  <2>2. QED BY <1>1, <1>2, <1>5, <1>6, <2>1 DEF SidecarInv, LinesInv
<1>8. log' \in Seq(Line) /\ UNCHANGED <<tableVars, phase, end, queries, total>>
  BY <1>1, <1>2 DEF SidecarInv, SidecarTypes
<1>9. QED BY <1>1, <1>2, <1>5, <1>7, <1>8, TotalsKept DEF SidecarInv

\* The line of the payload is written, or the disk fails it.
LEMMA AnsweredKeeps == SidecarInv /\ UNCHANGED <<tableVars, phase>> /\ Answered => SidecarInv'
<1>1. SUFFICES ASSUME SidecarInv, UNCHANGED <<tableVars, phase>>, Answered PROVE SidecarInv'
  OBVIOUS
<1>2. PICK status \in {"ok", "error"}, disk \in BOOLEAN :
          /\ status = "ok" => Last(sent).got
          /\ log' = IF Logs(status) /\ disk
                    THEN Append(log, [payload |-> Len(sent), status |-> status]) ELSE log
          /\ sent' = [sent EXCEPT ![Len(sent)].unwritten = ~disk]
  BY <1>1 DEF Answered
<1>3. /\ loop = "post" /\ loop' = "sleep" /\ due' = now + Day /\ UNCHANGED <<end, queries, total>>
  BY <1>1 DEF Answered, Again, NextDelay
<1> DEFINE q == [sent[Len(sent)] EXCEPT !.unwritten = ~disk]
           e == [payload |-> Len(sent), status |-> status]
<1>4. Len(sent) \in 1..Len(sent) /\ sent[Len(sent)] \in Payload /\ Len(sent) \in Nat
  BY <1>1, <1>3, SidecarFacts DEF SidecarInv, SidecarTypes
<1>5. /\ q \in Payload /\ q.total = sent[Len(sent)].total /\ q.got = sent[Len(sent)].got
      /\ q.unwritten = ~disk
  BY <1>4 DEF Payload
<1>6. e \in Line /\ e.payload = Len(sent) /\ e.status = status
  BY <1>4 DEF Line
<1>7. sent' = [sent EXCEPT ![Len(sent)] = q] /\ log' = IF disk THEN Append(log, e) ELSE log
  BY <1>2 DEF Logs
<1> HIDE DEF q, e
<1>8. /\ sent' \in Seq(Payload) /\ Len(sent') = Len(sent)
      /\ \A k \in 1..Len(sent) : sent'[k] = IF k = Len(sent) THEN q ELSE sent[k]
      /\ \A k \in 1..Len(sent) : sent'[k].total = sent[k].total
  BY <1>1, <1>3, <1>5, <1>7, LastFlagged
<1>9. PICK l \in Seq(Line) : l = log
  BY <1>1 DEF SidecarInv, SidecarTypes
<1>10. /\ log' \in Seq(Line) /\ Len(l) \in Nat
       /\ \A i \in 1..Len(l) : i \in 1..Len(log') /\ log'[i] = l[i]
       /\ disk => Len(log') = Len(l) + 1 /\ log'[Len(l) + 1] = e
       /\ ~disk => log' = l
  <2>1. /\ Append(l, e) \in Seq(Line) /\ Len(Append(l, e)) = Len(l) + 1 /\ Len(l) \in Nat
        /\ Append(l, e)[Len(l) + 1] = e /\ \A i \in 1..Len(l) : Append(l, e)[i] = l[i]
    BY <1>6, AppendProperties, LenProperties
  <2>2. CASE disk
    <3>1. log' = Append(l, e)
      BY <1>7, <1>9, <2>2
    <3>2. \A i \in 1..Len(l) : i \in 1..(Len(l) + 1)
      BY <2>1
    <3>3. QED BY <2>1, <2>2, <3>1, <3>2
  <2>3. CASE ~disk
    BY <1>7, <1>9, <2>1, <2>3
  <2>4. QED BY <2>2, <2>3
<1>11. \A k \in 1..Len(sent) : k # Len(sent) => Written(k)'
  <2>1. ASSUME NEW k \in 1..Len(sent), k # Len(sent) PROVE Written(k)'
    <3>1. Written(k) /\ sent'[k] = sent[k]
      BY <1>1, <1>8, <2>1 DEF SidecarInv, LinesInv
    <3>2. QED BY <1>9, <1>10, <3>1 DEF Written
  <2>2. QED BY <2>1
<1>12. Written(Len(sent))'
  <2>1. CASE disk
    <3>1. log'[Len(l) + 1].payload = Len(sent) /\ Len(l) + 1 \in 1..Len(log')
      BY <1>6, <1>10, <2>1
    <3>2. Len(sent') = Len(sent)
      BY <1>8
    <3>3. QED BY <3>1, <3>2 DEF Written
  <2>2. CASE ~disk
    <3>1. sent'[Len(sent)].unwritten /\ Len(sent') = Len(sent)
      BY <1>4, <1>5, <1>8, <2>2
    <3>2. QED BY <3>1 DEF Written
  <2>3. QED BY <2>1, <2>2
<1>13. \A i \in 1..Len(log') : log'[i].status = "ok" =>
          log'[i].payload \in 1..Len(sent') /\ sent'[log'[i].payload].got
  <2>1. SUFFICES ASSUME NEW i \in 1..Len(log'), log'[i].status = "ok"
                 PROVE  log'[i].payload \in 1..Len(sent) /\ sent'[log'[i].payload].got
    BY <1>8
  <2>2. \A k \in 1..Len(sent) : sent[k].got => sent'[k].got
    BY <1>5, <1>8
  <2>3. CASE i \in 1..Len(l)
    <3>1. log'[i] = log[i] /\ i \in 1..Len(log)
      BY <1>9, <1>10, <2>3
    <3>2. log[i].payload \in 1..Len(sent) /\ sent[log[i].payload].got
      BY <1>1, <2>1, <3>1 DEF SidecarInv, LinesInv
    <3>3. QED BY <2>2, <3>1, <3>2
  <2>4. CASE i \notin 1..Len(l)
    <3>1. disk
      BY <1>10, <2>1, <2>4
    <3>2. i = Len(l) + 1
      BY <1>10, <2>1, <2>4, <3>1
    <3>3. log'[i].payload = Len(sent) /\ status = "ok"
      BY <1>6, <1>10, <2>1, <3>1, <3>2
    <3>4. sent[Len(sent)].got
      BY <1>2, <3>3 DEF Last
    <3>5. QED BY <1>4, <2>2, <3>3, <3>4
  <2>5. QED BY <2>3, <2>4
<1>14. LinesInv'
  <2>1. \A k \in 1..Len(sent') : Written(k)'
    BY <1>8, <1>11, <1>12
  <2>2. QED BY <1>13, <2>1 DEF LinesInv
<1>15. TableInv' /\ SidecarTypes' /\ TotalsInv'
  <2>1. UNCHANGED <<tableVars, phase, end, queries, total>>
    BY <1>1, <1>3
  <2>2. QED BY <1>1, <1>3, <1>8, <1>10, <2>1, TotalsKept
<1>16. QED BY <1>14, <1>15 DEF SidecarInv

\* A round without a payload, and the end of the loop, at whatever await.
LEMMA NoPayloadKeeps ==
    SidecarInv /\ UNCHANGED <<tableVars, phase>> /\ (LogOnly \/ BuildFails \/ Cancel) => SidecarInv'
<1>1. SUFFICES ASSUME SidecarInv, UNCHANGED <<tableVars, phase>>, LogOnly \/ BuildFails \/ Cancel
               PROVE  SidecarInv'
  OBVIOUS
<1>2. /\ UNCHANGED <<end, queries, total, sent>>
      /\ \/ loop = "stats" /\ loop' = "sleep" /\ due' = now + Day
         \/ loop \in {"sleep", "stats", "post"} /\ loop' = "ended" /\ due' = due
  BY <1>1 DEF LogOnly, BuildFails, Cancel, Again, NextDelay
<1> DEFINE e == [payload |-> 0, status |-> "disabled-by-config"]
<1>3. log' = log \/ (loop = "stats" /\ log' = Append(log, e))
  BY <1>1 DEF LogOnly, BuildFails, Cancel
<1>4. e \in Line /\ e.status # "ok"
  BY DEF Line
<1> HIDE DEF e
<1>5. PICK l \in Seq(Line) : l = log
  BY <1>1 DEF SidecarInv, SidecarTypes
<1>6. /\ log' \in Seq(Line) /\ Len(l) \in Nat
      /\ \A i \in 1..Len(l) : i \in 1..Len(log') /\ log'[i] = l[i]
      /\ \A i \in 1..Len(log') : i \notin 1..Len(l) => log'[i] = e
  <2>1. /\ Append(l, e) \in Seq(Line) /\ Len(Append(l, e)) = Len(l) + 1 /\ Len(l) \in Nat
        /\ Append(l, e)[Len(l) + 1] = e /\ \A i \in 1..Len(l) : Append(l, e)[i] = l[i]
    BY <1>4, AppendProperties, LenProperties
  <2>2. CASE log' = log
    BY <1>5, <2>1, <2>2
  <2>3. CASE log' = Append(log, e)
    <3>1. log' = Append(l, e)
      BY <1>5, <2>3
    <3>2. \A i \in 1..(Len(l) + 1) : i \notin 1..Len(l) => i = Len(l) + 1
      BY <2>1
    <3>3. \A i \in 1..Len(l) : i \in 1..(Len(l) + 1)
      BY <2>1
    <3>4. QED BY <2>1, <3>1, <3>2, <3>3
  <2>4. QED BY <1>3, <2>2, <2>3
<1>7. /\ sent' \in Seq(Payload) /\ Len(sent') = Len(sent)
      /\ \A k \in 1..Len(sent) : sent'[k].total = sent[k].total
  BY <1>1, <1>2 DEF SidecarInv, SidecarTypes
<1>8. TableInv' /\ SidecarTypes' /\ TotalsInv'
  <2>1. UNCHANGED <<tableVars, phase, end, queries, total>>
    BY <1>1, <1>2
  <2>2. QED BY <1>1, <1>2, <1>6, <1>7, <2>1, TotalsKept
<1>9. \A k \in 1..Len(sent) : Written(k) => Written(k)'
  BY <1>2, <1>5, <1>6 DEF Written
<1>10. \A k \in 1..Len(sent') : Written(k)' \/ (k = Len(sent') /\ loop' \in {"post", "ended"})
  <2>1. \A k \in 1..Len(sent) : Written(k) \/ (k = Len(sent) /\ loop \in {"post", "ended"})
    BY <1>1 DEF SidecarInv, LinesInv
  <2>2. QED BY <1>2, <1>9, <2>1
<1>11. \A i \in 1..Len(log') : log'[i].status = "ok" =>
          log'[i].payload \in 1..Len(sent') /\ sent'[log'[i].payload].got
  <2>1. \A i \in 1..Len(l) : l[i].status = "ok" =>
          l[i].payload \in 1..Len(sent) /\ sent[l[i].payload].got
    BY <1>1, <1>5 DEF SidecarInv, LinesInv
  <2>2. QED BY <1>2, <1>4, <1>6, <2>1
<1>12. QED BY <1>8, <1>10, <1>11 DEF SidecarInv, LinesInv

LEMMA SidecarSteps == SidecarInv /\ [Next]_vars => SidecarInv'
<1>1. SUFFICES ASSUME SidecarInv, [Next]_vars PROVE SidecarInv'
  OBVIOUS
<1>2. CASE UNCHANGED <<tableVars, telemetryVars>> /\ (phase' # "off" => phase # "off")
  <2>1. /\ TableInv' /\ Seen' = Seen /\ now' = now
        /\ UNCHANGED <<loop, due, end, queries, total, sent, log>>
    BY <1>1, <1>2, SeenSame DEF SidecarInv, telemetryVars
  <2>2. SidecarTypes'
    BY <1>1, <1>2, <2>1 DEF SidecarInv, SidecarTypes
  <2>3. TotalsInv'
    BY <1>1, <2>1 DEF SidecarInv, TotalsInv, Counted, InHand
  <2>4. LinesInv'
    BY <1>1, <2>1 DEF SidecarInv, LinesInv, Written
  <2>5. QED BY <2>1, <2>2, <2>3, <2>4 DEF SidecarInv
<1>3. CASE Follow
  <2>1. UNCHANGED <<tableVars, telemetryVars>>
    BY <1>3 DEF Follow, FollowNext
  <2>2. phase' # "off" => phase # "off"
    BY <1>3 DEF Follow, FollowNext, Seed, Poll, Yield
  <2>3. QED BY <1>2, <2>1, <2>2
<1>4. CASE Probe \/ UNCHANGED vars
  BY <1>2, <1>4 DEF Probe, HealthNext, vars, followVars
<1>5. CASE Report
  <2>1. UNCHANGED <<tableVars, phase>>
    BY <1>5 DEF Report, TelemetryNext, followVars
  <2>2. Wake \/ Query \/ Post \/ Deliver \/ Answered \/ LogOnly \/ BuildFails \/ Cancel
    BY <1>5 DEF Report, TelemetryNext
  <2>3. QED
    BY <1>1, <2>1, <2>2, WakeKeeps, QueryKeeps, PostKeeps, DeliverKeeps, AnsweredKeeps, NoPayloadKeeps
<1>6. CASE Proxies \/ Killed \/ Clock
  <2>1. UNCHANGED telemetryVars /\ phase' = phase
    BY <1>6 DEF Proxies, Killed, Clock, followVars
  <2>2. TableNext \/ Tick \/ \E w \in Writers : (phase = "off" => w # Own) /\ Rollback(w)
    BY <1>6 DEF Proxies, Killed, Clock
  <2>3. QED BY <1>1, <2>1, <2>2, SidecarUnderTable
<1>7. QED BY <1>1, <1>3, <1>4, <1>5, <1>6 DEF Next

LEMMA SidecarInvariance == Spec => []SidecarInv
BY SidecarInit_holds, SidecarSteps, PTL DEF Spec

\* No event is counted in two payloads of a process, however long a round takes and
\* however late a row was stored.
THEOREM WindowsAreDisjoint == Spec => []CountedOnce
<1>1. SidecarInv => CountedOnce
  BY SidecarFacts DEF SidecarInv, TotalsInv, CountedOnce
<1>2. QED BY <1>1, SidecarInvariance, PTL

\* telemetry.log has a line for every payload that may have left the machine, but for
\* the one a cancelled process had in flight and those the disk refused; and none that
\* says "ok" of a payload the server did not get.
THEOREM LogTellsAll == Spec => []SentIsLogged
<1>1. SidecarInv => SentIsLogged
  <2>1. SUFFICES ASSUME SidecarInv PROVE SentIsLogged
    OBVIOUS
  <2>2. DOMAIN sent = 1..Len(sent) /\ DOMAIN log = 1..Len(log)
    BY <2>1, SidecarFacts
  <2>3. QED BY <2>1, <2>2 DEF SidecarInv, LinesInv, Written, SentIsLogged
<1>2. QED BY <1>1, SidecarInvariance, PTL

-----------------------------------------------------------------------------
(* The follower.  Its ids are not bounded here, as Recorded is not.         *)

AnyFeed == INSTANCE LogFeed WITH Ids <- Nat \ {0}, on <- phase # "off", rows <- Len(table)

FollowTypes ==
    /\ cursor \in Nat /\ cursor <= Len(table) /\ fetched \in Seq(Nat) /\ shown \in Seq(Nat)
    /\ phase \in {"off", "start", "seed", "poll"}

\* What was fetched is a piece of the table, behind what was shown.
Piece ==
    /\ \A i \in 1..Len(fetched) : fetched[i] = fetched[1] + i - 1 /\ fetched[i] \in 1..Len(table)
    /\ Len(fetched) # 0 /\ Len(shown) # 0 => fetched[1] = shown[Len(shown)] + 1
    /\ phase \in {"off", "start"} => Len(fetched) = 0 /\ Len(shown) = 0

\* Before its first poll the cursor is at the end of the rows it began with; then
\* it is at the last row shown.
Cursor ==
    /\ phase = "seed" /\ Len(fetched) # 0 => cursor = fetched[Len(fetched)]
    /\ phase = "seed" /\ Len(fetched) = 0 /\ Len(shown) # 0 => cursor = shown[Len(shown)]
    /\ phase = "poll" /\ Len(shown) # 0 => cursor = shown[Len(shown)]
    /\ phase = "poll" /\ Len(fetched) # 0 => fetched[1] = cursor + 1

FollowInv == TableInv /\ FollowTypes /\ Piece /\ Cursor

LEMMA FollowFacts ==
    ASSUME FollowInv
    PROVE  /\ Len(table) \in Nat /\ Len(fetched) \in Nat /\ Len(shown) \in Nat
           /\ \A i \in 1..Len(fetched) : fetched[i] \in Nat
           /\ \A i \in 1..Len(shown) : shown[i] \in Nat
           /\ (fetched # <<>> <=> Len(fetched) # 0) /\ (shown # <<>> <=> Len(shown) # 0)
<1>1. PICK f \in Seq(Nat), s \in Seq(Nat), t \in Seq(Row) : f = fetched /\ s = shown /\ t = table
  BY DEF FollowInv, FollowTypes, TableInv
<1>2. /\ Len(f) \in Nat /\ Len(s) \in Nat /\ Len(t) \in Nat
      /\ \A i \in 1..Len(f) : f[i] \in Nat
      /\ \A i \in 1..Len(s) : s[i] \in Nat
      /\ (f # <<>> <=> Len(f) # 0) /\ (s # <<>> <=> Len(s) # 0)
  BY SequenceFacts
<1>3. QED BY <1>1, <1>2

LEMMA FollowInit_holds == Init => FollowInv
<1>1. SUFFICES ASSUME Init PROVE FollowInv
  OBVIOUS
<1>2. /\ cursor = 0 /\ fetched = <<>> /\ shown = <<>> /\ phase \in {"off", "start"} /\ table = <<>> /\ TableInv
  BY <1>1, TableInit_holds DEF Init, FollowInit, TableInit
<1>3. <<>> \in Seq(Nat) /\ Len(<<>>) = 0
  BY EmptySeq
<1>4. FollowTypes /\ Piece /\ Cursor
  BY <1>2, <1>3 DEF FollowTypes, Piece, Cursor
<1>5. QED BY <1>2, <1>4 DEF FollowInv

\* A sequence of n ids from a + 1 on.
LEMMA Run ==
    \A a, n \in Nat :
        /\ [i \in 1..n |-> a + i] \in Seq(Nat) /\ Len([i \in 1..n |-> a + i]) = n
        /\ [i \in 1..n |-> i + a] = [i \in 1..n |-> a + i]
<1>1. SUFFICES ASSUME NEW a \in Nat, NEW n \in Nat
               PROVE  /\ [i \in 1..n |-> a + i] \in Seq(Nat) /\ Len([i \in 1..n |-> a + i]) = n
                      /\ [i \in 1..n |-> i + a] = [i \in 1..n |-> a + i]
  OBVIOUS
<1>2. [i \in 1..n |-> a + i] \in [1..n -> Nat]
  OBVIOUS
<1>3. [i \in 1..n |-> a + i] \in Seq(Nat)
  BY <1>2, SeqDef
<1>4. DOMAIN [i \in 1..n |-> a + i] = 1..Len([i \in 1..n |-> a + i]) /\ Len([i \in 1..n |-> a + i]) \in Nat
  BY <1>3, SequenceFacts
<1>5. Len([i \in 1..n |-> a + i]) = n
  BY <1>4
<1>6. [i \in 1..n |-> i + a] = [i \in 1..n |-> a + i]
  OBVIOUS
<1>7. QED BY <1>3, <1>5, <1>6

LEMMA SeedKeeps == FollowInv /\ UNCHANGED tableVars /\ Seed => FollowInv'
<1>1. SUFFICES ASSUME FollowInv, UNCHANGED tableVars, Seed PROVE FollowInv'
  OBVIOUS
<1>2. PICK tail \in Tails :
          /\ fetched' = Newest(tail)
          /\ cursor' = IF Newest(tail) = <<>> THEN 0 ELSE Last(Newest(tail))
  BY <1>1 DEF Seed
<1>3. /\ phase = "start" /\ phase' = "seed" /\ shown' = shown /\ table' = table /\ Len(table) \in Nat
      /\ Len(shown) = 0 /\ TableInv'
  BY <1>1, FollowFacts, SeenSame DEF Seed, FollowInv, Piece, tableVars
<1>4. PICK a \in Nat, n \in Nat : fetched' = [i \in 1..n |-> i + a] /\ a + n <= Len(table)
  <2>1. tail \in Nat
    BY LogFollowAssumption
  <2>2. CASE tail < Len(table)
    <3>1. Newest(tail) = [i \in 1..tail |-> i + (Len(table) - tail)]
      BY <2>2 DEF Newest
    <3>2. Len(table) - tail \in Nat /\ (Len(table) - tail) + tail <= Len(table)
      BY <1>3, <2>1, <2>2
    <3>3. QED BY <1>2, <2>1, <3>1, <3>2
  <2>3. CASE ~(tail < Len(table))
    <3>1. Newest(tail) = [i \in 1..Len(table) |-> i + 0]
      BY <2>3 DEF Newest
    <3>2. 0 + Len(table) <= Len(table)
      BY <1>3
    <3>3. QED BY <1>2, <1>3, <3>1, <3>2
  <2>4. QED BY <2>2, <2>3
<1>5. /\ fetched' \in Seq(Nat) /\ Len(fetched') = n
      /\ \A i \in 1..n : fetched'[i] = a + i
  BY <1>4, Run
<1>6. \A i \in 1..n : fetched'[i] = fetched'[1] + i - 1 /\ fetched'[i] \in 1..Len(table)
  <2>1. SUFFICES ASSUME NEW i \in 1..n
                 PROVE  fetched'[i] = fetched'[1] + i - 1 /\ fetched'[i] \in 1..Len(table)
    OBVIOUS
  <2>2. 1 \in 1..n
    OBVIOUS
  <2>3. fetched'[1] = a + 1 /\ fetched'[i] = a + i
    BY <1>5, <2>2
  <2>4. QED BY <1>3, <1>4, <2>3
<1>7. cursor' = IF n = 0 THEN 0 ELSE fetched'[n]
  <2>1. (fetched' = <<>>) <=> (n = 0)
    BY <1>5, EmptySeq
  <2>2. QED BY <1>2, <1>5, <2>1 DEF Last
<1>8. cursor' \in Nat /\ cursor' <= Len(table)
  <2>1. n # 0 => n \in 1..n
    OBVIOUS
  <2>2. QED BY <1>3, <1>6, <1>7, <2>1
<1>9. FollowTypes'
  BY <1>1, <1>3, <1>5, <1>8 DEF FollowInv, FollowTypes
<1>10. Piece' /\ Cursor'
  BY <1>3, <1>5, <1>6, <1>7 DEF Piece, Cursor
<1>11. QED BY <1>3, <1>9, <1>10 DEF FollowInv

LEMMA PollKeeps == FollowInv /\ UNCHANGED tableVars /\ Poll => FollowInv'
<1>1. SUFFICES ASSUME FollowInv, UNCHANGED tableVars, Poll PROVE FollowInv'
  OBVIOUS
<1>2. /\ phase \in {"seed", "poll"} /\ Len(fetched) = 0 /\ phase' = "poll" /\ fetched' = Behind(PollLimit)
      /\ UNCHANGED <<cursor, shown, table>> /\ TableInv'
  BY <1>1, EmptySeq, SeenSame DEF Poll, FollowInv, tableVars
<1>3. Len(table) \in Nat /\ cursor \in Nat /\ cursor <= Len(table) /\ PollLimit \in Nat
  BY <1>1, FollowFacts, LogFollowAssumption DEF FollowInv, FollowTypes
<1>4. PICK n \in Nat : fetched' = [i \in 1..n |-> cursor + i] /\ cursor + n <= Len(table)
  <2>1. CASE PollLimit < Len(table) - cursor
    <3>1. fetched' = [i \in 1..PollLimit |-> cursor + i]
      BY <1>2, <2>1 DEF Behind
    <3>2. QED BY <1>3, <2>1, <3>1
  <2>2. CASE ~(PollLimit < Len(table) - cursor)
    <3>1. fetched' = [i \in 1..(Len(table) - cursor) |-> cursor + i]
      BY <1>2, <2>2 DEF Behind
    <3>2. Len(table) - cursor \in Nat /\ cursor + (Len(table) - cursor) <= Len(table)
      BY <1>3
    <3>3. QED BY <3>1, <3>2
  <2>3. QED BY <2>1, <2>2
<1>5. /\ fetched' \in Seq(Nat) /\ Len(fetched') = n /\ \A i \in 1..n : fetched'[i] = cursor + i
  BY <1>3, <1>4, Run
<1>6. /\ \A i \in 1..n : fetched'[i] = fetched'[1] + i - 1 /\ fetched'[i] \in 1..Len(table)
      /\ n # 0 => fetched'[1] = cursor + 1
  <2>1. ASSUME NEW i \in 1..n
        PROVE  fetched'[i] = fetched'[1] + i - 1 /\ fetched'[i] \in 1..Len(table)
    <3>1. 1 \in 1..n
      OBVIOUS
    <3>2. fetched'[1] = cursor + 1 /\ fetched'[i] = cursor + i
      BY <1>5, <3>1
    <3>3. QED BY <1>3, <1>4, <3>2
  <2>2. n # 0 => 1 \in 1..n
    OBVIOUS
  <2>3. QED BY <1>5, <2>1, <2>2
<1>7. Len(shown) # 0 => cursor = shown[Len(shown)]
  BY <1>1, <1>2 DEF FollowInv, Cursor
<1>8. FollowTypes'
  BY <1>1, <1>2, <1>5 DEF FollowInv, FollowTypes
<1>9. Piece' /\ Cursor'
  BY <1>2, <1>5, <1>6, <1>7 DEF Piece, Cursor
<1>10. QED BY <1>2, <1>8, <1>9 DEF FollowInv

LEMMA YieldKeeps ==
    ASSUME FollowInv, UNCHANGED tableVars, Yield
    PROVE  /\ FollowInv' /\ phase # "off" /\ fetched[1] \in 1..Len(table)
           /\ shown' = Append(shown, fetched[1])
           /\ shown # <<>> => fetched[1] = shown[Len(shown)] + 1
<1>1. /\ Len(fetched) # 0 /\ UNCHANGED <<phase, table>> /\ TableInv'
      /\ shown' = Append(shown, Head(fetched)) /\ fetched' = Tail(fetched)
      /\ cursor' = IF phase = "poll" THEN Head(fetched) ELSE cursor
  BY EmptySeq, SeenSame DEF Yield, FollowInv, FollowTypes, tableVars, CursorAfter
<1>2. PICK f \in Seq(Nat), s \in Seq(Nat) : f = fetched /\ s = shown
  BY DEF FollowInv, FollowTypes
<1>3. /\ Len(f) \in Nat /\ Len(f) # 0 /\ f # <<>> /\ Len(s) \in Nat /\ 1 \in 1..Len(f) /\ Len(table) \in Nat
      /\ \A i \in 1..Len(f) : f[i] = f[1] + i - 1 /\ f[i] \in 1..Len(table)
  <2>1. Len(f) \in Nat /\ Len(s) \in Nat /\ Len(table) \in Nat /\ Len(f) # 0
    BY <1>1, <1>2, FollowFacts
  <2>2. f # <<>> /\ 1 \in 1..Len(f)
    BY <2>1, EmptySeq
  <2>3. QED BY <1>2, <2>1, <2>2 DEF FollowInv, Piece
<1>4. /\ Head(f) = f[1] /\ f[1] \in 1..Len(table) /\ f[1] \in Nat
      /\ Tail(f) \in Seq(Nat) /\ Len(Tail(f)) = Len(f) - 1
      /\ \A i \in 1..(Len(f) - 1) : Tail(f)[i] = f[i + 1] /\ i + 1 \in 1..Len(f)
  <2>1. /\ Tail(f) \in Seq(Nat) /\ Len(Tail(f)) = Len(f) - 1
        /\ \A i \in 1..Len(Tail(f)) : Tail(f)[i] = f[i + 1]
    BY <1>3, HeadTailProperties
  <2>2. \A i \in 1..(Len(f) - 1) : i + 1 \in 1..Len(f)
    BY <1>3
  <2>3. Head(f) = f[1]
    BY <1>3
  <2>4. f[1] \in 1..Len(table) /\ f[1] \in Nat
    BY <1>3
  <2>5. QED BY <2>1, <2>2, <2>3, <2>4
<1>5. /\ shown' = Append(s, f[1]) /\ shown' \in Seq(Nat) /\ Len(shown') = Len(s) + 1
      /\ shown'[Len(s) + 1] = f[1]
  <2>1. shown' = Append(s, f[1])
    BY <1>1, <1>2, <1>4
  <2>2. QED BY <1>3, <1>4, <2>1, AppendProperties
<1>6. /\ phase \in {"seed", "poll"}
      /\ Len(s) # 0 => f[1] = s[Len(s)] + 1
  BY <1>2, <1>3 DEF FollowInv, FollowTypes, Piece
<1>7. /\ \A i \in 1..Len(fetched') : fetched'[i] = f[1] + i /\ fetched'[i] \in 1..Len(table)
      /\ Len(fetched') = Len(f) - 1 /\ Len(fetched') \in Nat /\ fetched' \in Seq(Nat)
  <2>1. fetched' = Tail(f)
    BY <1>1, <1>2
  <2>2. ASSUME NEW i \in 1..(Len(f) - 1) PROVE Tail(f)[i] = f[1] + i /\ Tail(f)[i] \in 1..Len(table)
    <3>1. f[i + 1] = f[1] + (i + 1) - 1 /\ f[i + 1] \in 1..Len(table)
      BY <1>3, <1>4, <2>2
    <3>2. QED BY <1>4, <2>2, <3>1
  <2>3. QED BY <1>3, <1>4, <2>1, <2>2
<1>8. Len(fetched') # 0 => 1 \in 1..Len(fetched') /\ fetched'[1] = f[1] + 1
  <2>1. Len(fetched') # 0 => 1 \in 1..Len(fetched')
    BY <1>7
  <2>2. QED BY <1>7, <2>1
<1>9. Piece'
  <2>1. \A i \in 1..Len(fetched') : fetched'[i] = fetched'[1] + i - 1
    <3>1. ASSUME NEW i \in 1..Len(fetched') PROVE fetched'[i] = fetched'[1] + i - 1
      <4>1. fetched'[i] = f[1] + i
        BY <1>7, <3>1
      <4>2. Len(fetched') # 0
        <5>1. PICK n \in Nat : n = Len(fetched') /\ i \in 1..n
          BY <1>7, <3>1
        <5>2. QED BY <5>1
      <4>3. QED BY <1>4, <1>8, <4>1, <4>2
    <3>2. QED BY <3>1
  <2>2. Len(fetched') # 0 => fetched'[1] = shown'[Len(shown')] + 1
    BY <1>5, <1>8
  <2>3. phase' \notin {"off", "start"}
    BY <1>1, <1>6
  <2>4. QED BY <1>1, <1>7, <2>1, <2>2, <2>3 DEF Piece
<1>10. CASE phase = "poll"
  <2>1. cursor' = f[1]
    BY <1>1, <1>2, <1>4, <1>10
  <2>2. shown'[Len(shown')] = f[1]
    BY <1>5
  <2>3. Cursor'
    BY <1>1, <1>8, <1>10, <2>1, <2>2 DEF Cursor
  <2>4. FollowTypes'
    BY <1>1, <1>3, <1>4, <1>5, <1>6, <1>7, <2>1, SMTT(30) DEF FollowTypes
  <2>5. QED BY <1>1, <1>2, <1>3, <1>4, <1>5, <1>6, <1>9, <2>3, <2>4, FollowFacts DEF FollowInv
<1>11. CASE phase = "seed"
  <2>1. cursor' = cursor /\ cursor = f[Len(f)] /\ cursor \in Nat /\ cursor <= Len(table)
    BY <1>1, <1>2, <1>3, <1>11 DEF FollowInv, FollowTypes, Cursor
  <2>2. Len(fetched') # 0 => fetched'[Len(fetched')] = cursor
    <3>1. ASSUME Len(fetched') # 0 PROVE fetched'[Len(fetched')] = cursor
      <4>1. Len(fetched') \in 1..Len(fetched') /\ Len(f) \in 1..Len(f)
        BY <1>3, <1>7, <3>1
      <4>2. fetched'[Len(fetched')] = f[1] + Len(fetched') /\ f[Len(f)] = f[1] + Len(f) - 1
        BY <1>3, <1>7, <4>1
      <4>3. QED BY <1>3, <1>4, <1>7, <2>1, <4>2
    <3>2. QED BY <3>1
  <2>3. Len(fetched') = 0 => shown'[Len(shown')] = cursor
    <3>1. ASSUME Len(fetched') = 0 PROVE shown'[Len(shown')] = cursor
      <4>1. Len(f) = 1
        BY <1>3, <1>7, <3>1
      <4>2. QED BY <1>5, <2>1, <4>1
    <3>2. QED BY <3>1
  <2>4. Cursor'
    BY <1>1, <1>11, <2>1, <2>2, <2>3 DEF Cursor
  <2>5. FollowTypes'
    BY <1>1, <1>5, <1>6, <1>7, <2>1 DEF FollowTypes
  <2>6. QED BY <1>1, <1>2, <1>3, <1>4, <1>5, <1>6, <1>9, <2>4, <2>5, FollowFacts DEF FollowInv
<1>12. QED BY <1>6, <1>10, <1>11

LEMMA FollowUnderTable == FollowInv /\ TableStep /\ UNCHANGED followVars => FollowInv'
<1>1. SUFFICES ASSUME FollowInv, TableStep, UNCHANGED followVars PROVE FollowInv'
  OBVIOUS
<1>2. /\ Len(table) \in Nat /\ Len(table') \in Nat /\ Len(table) <= Len(table') /\ TableInv'
      /\ UNCHANGED <<phase, cursor, fetched, shown>>
  BY <1>1, TableGrows, TableSteps DEF FollowInv, followVars
<1>3. FollowTypes'
  BY <1>1, <1>2 DEF FollowInv, FollowTypes
<1>4. Piece'
  BY <1>1, <1>2 DEF FollowInv, Piece
<1>5. Cursor'
  BY <1>1, <1>2 DEF FollowInv, Cursor
<1>6. QED BY <1>2, <1>3, <1>4, <1>5 DEF FollowInv

\* Every step keeps the invariant, and is a step of the feed or none.
LEMMA FollowSteps ==
    FollowInv /\ [Next]_vars =>
        FollowInv' /\ [AnyFeed!Grow \/ AnyFeed!Show]_<<phase # "off", Len(table), shown>>
<1>1. SUFFICES ASSUME FollowInv, [Next]_vars
               PROVE  FollowInv' /\ [AnyFeed!Grow \/ AnyFeed!Show]_<<phase # "off", Len(table), shown>>
  OBVIOUS
<1>2. ASSUME UNCHANGED <<tableVars, followVars>>
      PROVE  FollowInv' /\ UNCHANGED <<phase # "off", Len(table), shown>>
  <2>1. TableInv' /\ UNCHANGED <<table, phase, cursor, fetched, shown>>
    BY <1>1, <1>2, SeenSame DEF FollowInv, tableVars, followVars
  <2>2. QED BY <1>1, <2>1 DEF FollowInv, FollowTypes, Piece, Cursor
<1>3. CASE Follow
  <2>1. UNCHANGED tableVars /\ (Seed \/ Poll \/ Yield)
    BY <1>3 DEF Follow, FollowNext
  <2>2. CASE Seed \/ Poll
    <3>1. FollowInv'
      BY <1>1, <2>1, <2>2, SeedKeeps, PollKeeps
    <3>2. UNCHANGED <<phase # "off", Len(table), shown>>
      BY <2>1, <2>2 DEF Seed, Poll, tableVars
    <3>3. QED BY <3>1, <3>2
  <2>3. CASE Yield
    <3>1. /\ FollowInv' /\ phase # "off" /\ fetched[1] \in 1..Len(table)
          /\ shown' = Append(shown, fetched[1])
          /\ shown # <<>> => fetched[1] = shown[Len(shown)] + 1
      BY <1>1, <2>1, <2>3, YieldKeeps
    <3>2. UNCHANGED <<phase # "off", Len(table)>>
      BY <2>1, <2>3 DEF Yield, tableVars
    <3>3. AnyFeed!Show
      BY <3>1, <3>2 DEF AnyFeed!Show
    <3>4. QED BY <3>1, <3>3
  <2>4. QED BY <2>1, <2>2, <2>3
<1>4. CASE Proxies \/ Killed \/ Clock
  <2>1. TableStep /\ UNCHANGED followVars
    BY <1>4 DEF Proxies, Killed, Clock, TableStep
  <2>2. FollowInv'
    BY <1>1, <2>1, FollowUnderTable
  <2>3. UNCHANGED <<phase # "off", shown>>
    BY <2>1 DEF followVars
  <2>4. CASE table' = table
    BY <2>2, <2>3, <2>4
  <2>5. CASE \E w \in Writers : Commit(w)
    <3>1. PICK n \in Nat : n >= 1 /\ Len(table') = Len(table) + n
      BY <1>1, <2>5, Committed DEF FollowInv
    <3>2. Len(table) \in Nat
      BY <1>1, FollowFacts
    <3>3. Len(table') \in Nat \ {0} /\ Len(table') > Len(table)
      BY <3>1, <3>2
    <3>4. AnyFeed!Grow
      BY <2>3, <3>3 DEF AnyFeed!Grow
    <3>5. QED BY <2>2, <3>4
  <2>6. QED BY <2>1, <2>4, <2>5 DEF TableStep, TableNext, Record, Insert, Rollback, Tick
<1>5. CASE Probe \/ Report \/ UNCHANGED vars
  <2>1. UNCHANGED <<tableVars, followVars>>
    BY <1>5 DEF Probe, HealthNext, Report, TelemetryNext, vars
  <2>2. QED BY <1>2, <2>1
<1>6. QED BY <1>1, <1>3, <1>4, <1>5 DEF Next

\* `bulwark logs --follow` shows each row once, in order and without a gap from the
\* row it began with, and none before it is stored, whatever the size of a poll and
\* however many proxies commit behind its cursor.
THEOREM FollowerImplementsFeed == Spec => AnyFeed!Safety
<1>1. Init => AnyFeed!Init
  <2>1. SUFFICES ASSUME Init PROVE AnyFeed!Init
    OBVIOUS
  <2>2. table = <<>> /\ shown = <<>> /\ Len(<<>>) = 0
    BY <2>1, EmptySeq DEF Init, TableInit, FollowInit
  <2>3. QED BY <2>2 DEF AnyFeed!Init
<1>2. QED BY <1>1, FollowInit_holds, FollowSteps, PTL DEF Spec, AnyFeed!Safety
=============================================================================
