----------------------------- MODULE RelayProofs -----------------------------
(***************************************************************************)
(* What holds of the relay for all lines the peers may send, any number of  *)
(* them, and every order in which the pumps, the signal and run_proxy take  *)
(* their steps: who gets which message, and what the audit rows say of it.  *)
(***************************************************************************)
EXTENDS Relay, FiniteSetTheorems, SequenceTheorems, TLAPS

-----------------------------------------------------------------------------
(* What a pump may plan for a line f that is number n of direction d.       *)

PartSet == UNION {[given -> Answers] : given \in SUBSET Nat}
Texts   == [array : BOOLEAN, parts : PartSet]
Put     == [dir : Dirs, line : Nat, text : Texts]

Planned(d, n, f, j) ==
    \/ f.kind = "blank" /\ j = Job(Dst(d), <<Text(FALSE, Verbatim(f))>>, <<>>)
    \/ f.kind = "oversized" /\ j = Job(Dst(d), <<>>, <<>>)
    \/ f.kind = "line" /\ BlockedByCapability(d, f) /\ j = CapabilityJob(f, n)
    \/ /\ f.kind = "line" /\ ~BlockedByCapability(d, f)
       /\ \E verdicts \in Verdicts(d, f) : j = InspectedJob(d, f, n, verdicts)

\* The rows name the members of the line once, in their order.
RowsLawful(d, n, f, rows) ==
    /\ rows \in Seq(Row0)
    /\ \A k \in 1..Len(rows) : rows[k].member > 0 =>
          rows[k].dir = d /\ rows[k].line = n /\ rows[k].member \in 1..Len(f.members)
    /\ \A k, l \in 1..Len(rows) : k < l /\ rows[k].member > 0 /\ rows[l].member > 0 =>
          rows[k].member < rows[l].member
    /\ \A i \in 1..Len(f.members) : \E k \in 1..Len(rows) : rows[k].member = i

\* The parts are the members somebody waits for, and none that was blocked.
PartsLawful(d, f, parts, rows) ==
    /\ DOMAIN parts \subseteq 1..Len(f.members)
    /\ \A i \in DOMAIN parts : parts[i] = "verbatim" =>
          /\ ~(d = "c2s" /\ NotAllowed(f.members[i]))
          /\ \A k \in 1..Len(rows) : rows[k].member = i =>
                /\ rows[k].verdict # "BLOCK"
                /\ Detector /\ f.members[i].threat => rows[k].verdict = "WARN"

Awaited(d, f) == {i \in 1..Len(f.members) : d = "s2c" \/ MustBeAnswered(f.members[i])}

Lawful(d, n, f, j) ==
    /\ j # NoJob /\ j.to \in {"client", "server", "none"}
    /\ d = "s2c" => j.to = "client"
    /\ RowsLawful(d, n, f, j.rows)
    /\ \/ /\ j.texts = <<>> /\ Awaited(d, f) = {}
       \/ /\ \E t \in Texts : j.texts = <<t>> /\ PartsLawful(d, f, t.parts, j.rows)
                                 /\ Awaited(d, f) \subseteq DOMAIN t.parts
          /\ j.to # "none"

-----------------------------------------------------------------------------
(* What is planned is lawful.                                               *)

LEMMA GivenFacts ==
    ASSUME NEW m \in Nat, NEW as \in [1..m -> Answers \cup {"dropped"}]
    PROVE  /\ Given(as) \in PartSet
           /\ DOMAIN Given(as) = {i \in 1..m : as[i] # "dropped"}
           /\ \A i \in DOMAIN Given(as) : Given(as)[i] = as[i]
<1> DEFINE D == {i \in 1..m : as[i] # "dropped"}
<1>1. Given(as) = [i \in D |-> as[i]]
  BY DEF Given
<1>2. D \in SUBSET Nat /\ \A i \in D : as[i] \in Answers
  <2>1. ASSUME NEW i \in D PROVE as[i] \in Answers
    <3>1. i \in 1..m /\ as[i] # "dropped"
      OBVIOUS
    <3>2. as[i] \in Answers \cup {"dropped"}
      BY <3>1
    <3>3. QED BY <3>1, <3>2
  <2>2. D \in SUBSET Nat
    <3>1. \A i \in D : i \in 1..m
      OBVIOUS
    <3>2. \A i \in 1..m : i \in Nat
      OBVIOUS
    <3> HIDE DEF D
    <3>3. QED BY <3>1, <3>2
  <2> HIDE DEF D
  <2>3. QED BY <2>1, <2>2
<1> HIDE DEF D
<1>3. [i \in D |-> as[i]] \in [D -> Answers]
  BY <1>2
<1>4. Given(as) \in PartSet
  BY <1>1, <1>2, <1>3 DEF PartSet
<1>5. QED BY <1>1, <1>4 DEF D

LEMMA FrameFacts ==
    ASSUME NEW f \in Line
    PROVE  /\ Len(f.members) \in Nat /\ DOMAIN f.members = 1..Len(f.members)
           /\ \A i \in 1..Len(f.members) : f.members[i] \in Message
           /\ f.kind \in {"line", "blank", "oversized"} /\ f.array \in BOOLEAN
           /\ f.kind # "line" => f.members = <<>> /\ Len(f.members) = 0
<1>1. f.members \in Seq(Message) /\ f.array \in BOOLEAN
      /\ f.kind \in {"line", "blank", "oversized"} /\ (f.kind # "line" => f.members = <<>>)
  BY DEF Line
<1>2. PICK ms \in Seq(Message) : ms = f.members
  BY <1>1
<1>3. Len(ms) \in Nat /\ DOMAIN ms = 1..Len(ms) /\ \A i \in 1..Len(ms) : ms[i] \in Message
  BY LenProperties, ElementOfSeq
<1>4. QED BY <1>1, <1>2, <1>3

LEMMA RowFields ==
    \A d, n, i, verdict : LET r == Row(d, n, i, verdict) IN
        r.dir = d /\ r.line = n /\ r.member = i /\ r.verdict = verdict
BY DEF Row

\* A row for each member.
LEMMA MemberRowsFacts ==
    ASSUME NEW d \in Dirs, NEW n \in Nat, NEW m \in Nat,
           NEW verdicts \in [1..m -> {"PASS", "WARN", "BLOCK", "none"}]
    PROVE  /\ MemberRows(d, n, verdicts) \in Seq(Row0) /\ Len(MemberRows(d, n, verdicts)) = m
           /\ \A i \in 1..m : MemberRows(d, n, verdicts)[i] = Row(d, n, i, verdicts[i])
<1> DEFINE rows == [i \in 1..m |-> Row(d, n, i, verdicts[i])]
<1>1. MemberRows(d, n, verdicts) = rows
  BY DEF MemberRows
<1>2. \A i \in 1..m : Row(d, n, i, verdicts[i]) \in Row0
  BY DEF Row, Row0
<1>3. rows \in [1..m -> Row0]
  BY <1>2
<1>4. \A i \in 1..m : rows[i] = Row(d, n, i, verdicts[i])
  OBVIOUS
<1> HIDE DEF rows
<1>5. rows \in Seq(Row0) /\ Len(rows) = m
  BY <1>3, LenProperties
<1>6. QED BY <1>1, <1>4, <1>5

LEMMA MemberRowsLawful ==
    ASSUME NEW d \in Dirs, NEW n \in Nat, NEW f \in Line, NEW rows \in Seq(Row0),
           NEW verdicts \in [1..Len(f.members) -> {"PASS", "WARN", "BLOCK", "none"}],
           rows = MemberRows(d, n, verdicts)
    PROVE  RowsLawful(d, n, f, rows)
<1>1. /\ Len(rows) = Len(f.members) /\ Len(f.members) \in Nat
      /\ \A i \in 1..Len(f.members) : rows[i] = Row(d, n, i, verdicts[i])
  <2>1. PICK m \in Nat : m = Len(f.members)
    BY FrameFacts
  <2>2. verdicts \in [1..m -> {"PASS", "WARN", "BLOCK", "none"}]
    BY <2>1
  <2>3. Len(rows) = m /\ \A i \in 1..m : rows[i] = Row(d, n, i, verdicts[i])
    BY <2>2, MemberRowsFacts
  <2>4. QED BY <2>1, <2>3
<1>2. \A i \in 1..Len(f.members) :
        rows[i].dir = d /\ rows[i].line = n /\ rows[i].member = i
  BY <1>1, RowFields
<1>3. QED BY <1>1, <1>2 DEF RowsLawful

LEMMA OneText ==
    ASSUME NEW array \in BOOLEAN, NEW parts \in PartSet
    PROVE  Text(array, parts) \in Texts /\ Text(array, parts).parts = parts
BY DEF Text, Texts

LEMMA JobParts ==
    \A to, texts, rows : /\ Job(to, texts, rows).to = to /\ Job(to, texts, rows).texts = texts
                         /\ Job(to, texts, rows).rows = rows
BY DEF Job

LEMMA DecisionFacts ==
    ASSUME NEW m \in Message
    PROVE  /\ Aborted(m) \in {"aborted", "dropped"} /\ CapabilityAnswer(m) \in Answers \cup {"dropped"}
           /\ CapabilityAnswer(m) # "verbatim" /\ Aborted(m) # "verbatim"
           /\ IsRequest(m) => Aborted(m) = "aborted"
           /\ MustBeAnswered(m) => CapabilityAnswer(m) # "dropped"
           /\ NotAllowed(m) => Denied(m)
BY DEF Aborted, CapabilityAnswer, Answers, MustBeAnswered, NotAllowed, IsRequest, Parsed, Denied, CapabilityHit, Message

LEMMA EmptyMembers ==
    ASSUME NEW d \in Dirs, NEW n \in Nat, NEW f \in Line, f.kind # "line", NEW j,
           \/ f.kind = "blank" /\ j = Job(Dst(d), <<Text(FALSE, Verbatim(f))>>, <<>>)
           \/ f.kind = "oversized" /\ j = Job(Dst(d), <<>>, <<>>)
    PROVE  Lawful(d, n, f, j)
<1>1. Len(f.members) = 0 /\ DOMAIN f.members = {}
  <2>1. Len(f.members) = 0 /\ DOMAIN f.members = 1..Len(f.members)
    BY FrameFacts
  <2>2. QED BY <2>1
<1>2. j.to = Dst(d) /\ j.rows = <<>>
  BY JobParts
<1>3. Dst(d) \in {"client", "server"} /\ (d = "s2c" => Dst(d) = "client")
  BY DEF Dst
<1>4. j # NoJob
  BY <1>2, <1>3, JobParts DEF NoJob
<1>5. RowsLawful(d, n, f, j.rows)
  BY <1>1, <1>2, EmptySeq DEF RowsLawful
<1>6. Awaited(d, f) = {}
  BY <1>1 DEF Awaited
<1>7. CASE f.kind = "blank"
  <2>1. Verbatim(f) \in [{} -> Answers] /\ DOMAIN Verbatim(f) = {}
    BY <1>1 DEF Verbatim
  <2>2. Verbatim(f) \in PartSet
    BY <2>1 DEF PartSet
  <2>3. PICK t : t = Text(FALSE, Verbatim(f))
    OBVIOUS
  <2>4. t \in Texts /\ t.parts = Verbatim(f)
    BY <2>2, <2>3, OneText
  <2>5. PartsLawful(d, f, t.parts, j.rows)
    BY <2>1, <2>4 DEF PartsLawful
  <2>6. j.texts = <<t>>
    <3>1. j = Job(Dst(d), <<t>>, <<>>)
      BY <1>7, <2>3
    <3>2. QED BY <3>1, JobParts
  <2>7. QED BY <1>2, <1>3, <1>4, <1>5, <1>6, <2>4, <2>5, <2>6 DEF Lawful
<1>8. CASE f.kind = "oversized"
  <2>1. j.texts = <<>>
    BY <1>8, JobParts
  <2>2. QED BY <1>2, <1>3, <1>4, <1>5, <1>6, <2>1 DEF Lawful
<1>9. QED BY <1>7, <1>8

LEMMA CapabilityLawful ==
    ASSUME NEW n \in Nat, NEW f \in Line, BlockedByCapability("c2s", f)
    PROVE  Lawful("c2s", n, f, CapabilityJob(f, n))
<1> DEFINE m == Len(f.members)
           verdicts == [i \in 1..m |-> IF Denied(f.members[i]) THEN "BLOCK" ELSE "none"]
           as == [i \in 1..m |-> CapabilityAnswer(f.members[i])]
           reply == CapabilityReply(f)
           rows == CapabilityRows(f, n)
           j == CapabilityJob(f, n)
<1>1. m \in Nat /\ DOMAIN f.members = 1..m /\ \A i \in 1..m : f.members[i] \in Message
  BY FrameFacts
<1>2. verdicts \in [1..m -> {"PASS", "WARN", "BLOCK", "none"}]
  BY Zenon
<1>3. rows = MemberRows("c2s", n, verdicts)
  BY <1>1 DEF CapabilityRows, MemberRows
<1>4. as \in [1..m -> Answers \cup {"dropped"}]
  BY <1>1, DecisionFacts
<1>5. reply = Given(as)
  BY <1>1 DEF CapabilityReply
<1> HIDE DEF as
<1>6. /\ reply \in PartSet /\ DOMAIN reply = {i \in 1..m : as[i] # "dropped"}
      /\ \A i \in DOMAIN reply : reply[i] = as[i]
  BY <1>1, <1>4, <1>5, GivenFacts, ZenonT(30)
<1>7. \A i \in DOMAIN reply : reply[i] # "verbatim"
  BY <1>1, <1>6, DecisionFacts DEF as
<1>8. Awaited("c2s", f) \subseteq DOMAIN reply
  BY <1>1, <1>6, DecisionFacts DEF Awaited, as
<1>9. rows \in Seq(Row0) /\ Len(rows) = m
  BY <1>1, <1>2, <1>3, MemberRowsFacts DEF Dirs
<1>10. RowsLawful("c2s", n, f, rows)
  BY <1>2, <1>3, <1>9, MemberRowsLawful DEF Dirs
<1>11. m # 0
  BY <1>1 DEF BlockedByCapability, DeniedFrame
<1>12. rows # <<>>
  BY <1>9, <1>11, EmptySeq
<1>13. j = IF IsBatch(f) \/ DOMAIN reply # {} THEN Job("client", <<Text(IsBatch(f), reply)>>, rows)
           ELSE Job("none", <<>>, rows)
  BY DEF CapabilityJob
<1> HIDE DEF j, reply, rows
<1>14. j.rows = rows /\ j # NoJob
  BY <1>12, <1>13, JobParts DEF NoJob
<1>15. CASE IsBatch(f) \/ DOMAIN reply # {}
  <2>1. PICK t : t = Text(IsBatch(f), reply)
    OBVIOUS
  <2>2. IsBatch(f) \in BOOLEAN
    BY DEF IsBatch
  <2>3. t \in Texts /\ t.parts = reply
    BY <1>6, <2>1, <2>2, OneText
  <2>4. j.to = "client" /\ j.texts = <<t>>
    BY <1>13, <1>15, <2>1, JobParts
  <2>5. PartsLawful("c2s", f, t.parts, j.rows)
    BY <1>6, <1>7, <2>3 DEF PartsLawful
  <2>6. QED BY <1>8, <1>10, <1>14, <2>3, <2>4, <2>5 DEF Lawful, j
<1>16. CASE ~(IsBatch(f) \/ DOMAIN reply # {})
  <2>1. j.to = "none" /\ j.texts = <<>> /\ Awaited("c2s", f) = {}
    BY <1>8, <1>13, <1>16, JobParts
  <2>2. QED BY <1>10, <1>14, <2>1 DEF Lawful, j
<1>17. QED BY <1>15, <1>16

LEMMA VerdictFacts ==
    ASSUME NEW d \in Dirs, NEW m \in Message, NEW aborted \in BOOLEAN
    PROVE  /\ Verdict(d, m, aborted) \in {"PASS", "WARN", "BLOCK"}
           /\ m.threat /\ Verdict(d, m, aborted) # "BLOCK" => Verdict(d, m, aborted) = "WARN"
BY DEF Verdict, Message

LEMMA VerdictsFacts ==
    ASSUME NEW d \in Dirs, NEW f \in Line, NEW verdicts \in Verdicts(d, f)
    PROVE  /\ verdicts \in [1..Len(f.members) -> {"PASS", "WARN", "BLOCK", "none"}]
           /\ \A i \in 1..Len(f.members) :
                 Detector /\ f.members[i].threat /\ verdicts[i] # "BLOCK" => verdicts[i] = "WARN"
<1>1. PICK m \in Nat : m = Len(f.members)
  BY FrameFacts
<1>2. DOMAIN f.members = 1..m /\ \A i \in 1..m : f.members[i] \in Message
  BY <1>1, FrameFacts
<1>3. CASE Detector
  <2>1. PICK aborted \in [1..m -> IF CanAbort THEN BOOLEAN ELSE {FALSE}] :
          verdicts = [i \in 1..m |-> Verdict(d, f.members[i], aborted[i])]
    BY <1>2, <1>3 DEF Verdicts
  <2>2. \A i \in 1..m : aborted[i] \in BOOLEAN
    BY <2>1
  <2>3. ASSUME NEW i \in 1..m
        PROVE  /\ Verdict(d, f.members[i], aborted[i]) \in {"PASS", "WARN", "BLOCK"}
               /\ f.members[i].threat /\ Verdict(d, f.members[i], aborted[i]) # "BLOCK" =>
                    Verdict(d, f.members[i], aborted[i]) = "WARN"
    BY <1>2, <2>2, VerdictFacts
  <2>4. QED BY <1>1, <2>1, <2>3
<1>4. CASE ~Detector
  <2>1. verdicts = [i \in 1..m |-> "none"]
    BY <1>2, <1>4 DEF Verdicts
  <2>2. QED BY <1>1, <1>4, <2>1
<1>5. QED BY <1>3, <1>4

LEMMA InspectedLawful ==
    ASSUME NEW d \in Dirs, NEW n \in Nat, NEW f \in Line, ~BlockedByCapability(d, f),
           NEW verdicts \in Verdicts(d, f)
    PROVE  Lawful(d, n, f, InspectedJob(d, f, n, verdicts))
<1> DEFINE j == InspectedJob(d, f, n, verdicts)
           own == MemberRows(d, n, verdicts)
<1>1. PICK m \in Nat : m = Len(f.members)
  BY FrameFacts
<1>2. DOMAIN f.members = 1..m /\ (\A i \in 1..m : f.members[i] \in Message) /\ f.array \in BOOLEAN
  BY <1>1, FrameFacts
<1>3. /\ verdicts \in [1..m -> {"PASS", "WARN", "BLOCK", "none"}] /\ DOMAIN verdicts = 1..m
      /\ \A i \in 1..m :
            Detector /\ f.members[i].threat /\ verdicts[i] # "BLOCK" => verdicts[i] = "WARN"
  BY <1>1, VerdictsFacts
<1>4. own \in Seq(Row0) /\ Len(own) = m /\ \A i \in 1..m : own[i] = Row(d, n, i, verdicts[i])
  BY <1>3, MemberRowsFacts
<1>5. RowsLawful(d, n, f, own)
  BY <1>1, <1>3, <1>4, MemberRowsLawful
<1>6. j = IF \E i \in 1..m : verdicts[i] = "BLOCK"
          THEN Job("client", <<Text(IsBatch(f), Replacement(d, f, verdicts))>>,
                   (IF d = "c2s" THEN <<SyntheticRow(n)>> ELSE <<>>) \o own)
          ELSE Job(Dst(d), <<Text(f.array, Verbatim(f))>>, own)
  BY <1>3 DEF InspectedJob
<1> HIDE DEF j, own
<1>7. CASE \E i \in 1..m : verdicts[i] = "BLOCK"
  <2> DEFINE as == [i \in 1..m |-> ReplacedBy(d, f.members[i], verdicts[i])]
             first == IF d = "c2s" THEN <<SyntheticRow(n)>> ELSE <<>>
             extra == IF d = "c2s" THEN 1 ELSE 0
  <2>1. \A i \in 1..m : ReplacedBy(d, f.members[i], verdicts[i]) \in Answers \cup {"dropped"}
    BY <1>2, DecisionFacts DEF ReplacedBy, Answers
  <2>2. as \in [1..m -> Answers \cup {"dropped"}]
    BY <2>1
  <2>3. Replacement(d, f, verdicts) = Given(as)
    BY <1>2 DEF Replacement
  <2>4. PICK parts : parts = Replacement(d, f, verdicts)
    OBVIOUS
  <2> HIDE DEF as
  <2>5. /\ parts \in PartSet /\ DOMAIN parts = {i \in 1..m : as[i] # "dropped"}
        /\ \A i \in DOMAIN parts : parts[i] = as[i]
    BY <1>1, <2>2, <2>3, <2>4, GivenFacts, ZenonT(30)
  <2>6. \A i \in DOMAIN parts : parts[i] = "verbatim" => d = "s2c" /\ verdicts[i] # "BLOCK"
    BY <1>2, <2>5, DecisionFacts DEF as, ReplacedBy
  <2>7. Awaited(d, f) \subseteq DOMAIN parts
    <3>1. SUFFICES ASSUME NEW i \in 1..m, d = "s2c" \/ MustBeAnswered(f.members[i])
                   PROVE  i \in DOMAIN parts
      BY <1>1 DEF Awaited
    <3>2. CASE d = "s2c" \/ verdicts[i] = "BLOCK"
      BY <2>5, <3>2 DEF as, ReplacedBy
    <3>3. CASE ~(d = "s2c" \/ verdicts[i] = "BLOCK")
      <4>1. d = "c2s" /\ MustBeAnswered(f.members[i])
        BY <3>1, <3>3 DEF Dirs
      <4>2. ~NotAllowed(f.members[i])
        <5>1. NotAllowed(f.members[i]) => Allowlist /\ Denied(f.members[i])
          BY <1>2, DecisionFacts DEF NotAllowed
        <5>2. QED BY <1>2, <4>1, <5>1 DEF BlockedByCapability, DeniedFrame
      <4>3. IsRequest(f.members[i])
        BY <4>1, <4>2 DEF MustBeAnswered
      <4>4. Aborted(f.members[i]) = "aborted"
        BY <4>3 DEF Aborted
      <4>5. as[i] = "aborted"
        BY <3>3, <4>4 DEF as, ReplacedBy
      <4>6. QED BY <2>5, <4>5
    <3>4. QED BY <3>2, <3>3
  <2>8. PICK t : t = Text(IsBatch(f), parts)
    OBVIOUS
  <2>9. t \in Texts /\ t.parts = parts
    <3>1. IsBatch(f) \in BOOLEAN
      BY DEF IsBatch
    <3>2. QED BY <2>5, <2>8, <3>1, OneText
  <2>10. j.to = "client" /\ j.texts = <<t>> /\ j.rows = first \o own
    <3>1. PICK rows : rows = first \o own
      OBVIOUS
    <3>2. j = Job("client", <<t>>, rows)
      BY <1>6, <1>7, <2>4, <2>8, <3>1
    <3>3. j.to = "client" /\ j.texts = <<t>> /\ j.rows = rows
      BY <3>2, JobParts
    <3>4. QED BY <3>1, <3>3
  <2>11. first \in Seq(Row0) /\ Len(first) = extra /\ \A k \in 1..extra : first[k].member = 0
    <3>1. SyntheticRow(n) \in Row0 /\ SyntheticRow(n).member = 0
      BY DEF SyntheticRow, Row, Row0, Dirs
    <3>2. QED BY <3>1, EmptySeq
  <2>12. /\ first \o own \in Seq(Row0) /\ Len(first \o own) = extra + m
         /\ \A k \in 1..(extra + m) :
               (first \o own)[k] = IF k <= extra THEN first[k] ELSE own[k - extra]
    BY <1>4, <2>11, ConcatProperties
  <2> HIDE DEF first
  <2>13. extra \in Nat /\ j.rows \in Seq(Row0) /\ Len(j.rows) = extra + m
    BY <2>10, <2>12
  <2>14. \A k \in 1..(extra + m) :
           \/ k <= extra /\ j.rows[k].member = 0
           \/ k > extra /\ k - extra \in 1..m /\ j.rows[k] = own[k - extra]
    BY <2>10, <2>11, <2>12, <2>13
  <2>15. \A i \in 1..m : i + extra \in 1..(extra + m) /\ j.rows[i + extra] = own[i]
    BY <2>13, <2>14
  <2> HIDE DEF extra
  <2>16. RowsLawful(d, n, f, j.rows)
    <3>1. ASSUME NEW k \in 1..Len(j.rows), j.rows[k].member > 0
          PROVE  k - extra \in 1..m /\ j.rows[k] = own[k - extra]
      BY <2>13, <2>14, <3>1
    <3>2. /\ \A k \in 1..m : own[k].member > 0 =>
                own[k].dir = d /\ own[k].line = n /\ own[k].member \in 1..m
          /\ \A k, l \in 1..m : k < l /\ own[k].member > 0 /\ own[l].member > 0 =>
                own[k].member < own[l].member
          /\ \A i \in 1..m : \E k \in 1..m : own[k].member = i
      BY <1>1, <1>4, <1>5 DEF RowsLawful
    <3>3. ASSUME NEW k \in 1..Len(j.rows), j.rows[k].member > 0
          PROVE  j.rows[k].dir = d /\ j.rows[k].line = n /\ j.rows[k].member \in 1..m
      <4>1. PICK l \in 1..m : j.rows[k] = own[l]
        BY <3>1, <3>3
      <4>2. own[l].member > 0
        BY <3>3, <4>1
      <4>3. QED BY <3>2, <4>1, <4>2
    <3>4. ASSUME NEW k \in 1..Len(j.rows), NEW l \in 1..Len(j.rows),
                 k < l, j.rows[k].member > 0, j.rows[l].member > 0
          PROVE  j.rows[k].member < j.rows[l].member
      <4>1. k - extra \in 1..m /\ l - extra \in 1..m /\ k - extra < l - extra
        BY <2>13, <3>1, <3>4
      <4>2. j.rows[k] = own[k - extra] /\ j.rows[l] = own[l - extra]
        BY <3>1, <3>4
      <4>3. QED BY <3>2, <3>4, <4>1, <4>2
    <3>5. ASSUME NEW i \in 1..m PROVE \E k \in 1..Len(j.rows) : j.rows[k].member = i
      <4>1. PICK k \in 1..m : own[k].member = i
        BY <3>2
      <4>2. k + extra \in 1..Len(j.rows) /\ j.rows[k + extra] = own[k]
        BY <2>13, <2>15
      <4>3. QED BY <4>1, <4>2
    <3>6. QED BY <1>1, <2>13, <3>3, <3>4, <3>5 DEF RowsLawful
  <2>17. PartsLawful(d, f, t.parts, j.rows)
    <3>1. DOMAIN t.parts \subseteq 1..m
      BY <2>5, <2>9
    <3>2. ASSUME NEW i \in DOMAIN t.parts, t.parts[i] = "verbatim", NEW k \in 1..Len(j.rows),
                 j.rows[k].member = i
          PROVE  j.rows[k].verdict # "BLOCK"
                 /\ (Detector /\ f.members[i].threat => j.rows[k].verdict = "WARN")
      <4>1. i \in 1..m /\ j.rows[k].member > 0 /\ verdicts[i] # "BLOCK"
        BY <2>6, <2>9, <3>1, <3>2
      <4>2. PICK l \in 1..m : j.rows[k] = own[l]
        <5>1. k \in 1..(extra + m)
          BY <2>13
        <5>2. j.rows[k].member # 0
          BY <4>1
        <5>3. k - extra \in 1..m /\ j.rows[k] = own[k - extra]
          BY <2>14, <5>1, <5>2
        <5>4. QED BY <5>3
      <4>3. own[l].member = l /\ own[l].verdict = verdicts[l]
        BY <1>4, RowFields
      <4>4. l = i
        BY <3>2, <4>2, <4>3
      <4>5. QED BY <1>3, <4>1, <4>2, <4>3, <4>4
    <3>3. \A i \in DOMAIN t.parts : t.parts[i] = "verbatim" => d = "s2c"
      BY <2>6, <2>9
    <3>4. QED BY <1>1, <3>1, <3>2, <3>3 DEF PartsLawful
  <2>18. j # NoJob
    BY <2>10, JobParts DEF NoJob
  <2>19. QED BY <2>7, <2>9, <2>10, <2>16, <2>17, <2>18 DEF Lawful, j
<1>8. CASE ~\E i \in 1..m : verdicts[i] = "BLOCK"
  <2>1. /\ Verbatim(f) \in [1..m -> Answers] /\ DOMAIN Verbatim(f) = 1..m
    BY <1>2 DEF Verbatim, Answers
  <2>2. Verbatim(f) \in PartSet
    <3>1. 1..m \in SUBSET Nat
      OBVIOUS
    <3>2. QED BY <2>1, <3>1 DEF PartSet
  <2>3. PICK t : t = Text(f.array, Verbatim(f))
    OBVIOUS
  <2>4. t \in Texts /\ t.parts = Verbatim(f)
    BY <1>2, <2>2, <2>3, OneText
  <2>5. j.to = Dst(d) /\ j.texts = <<t>> /\ j.rows = own
    BY <1>6, <1>8, <2>3, JobParts
  <2>6. Dst(d) \in {"client", "server"} /\ (d = "s2c" => Dst(d) = "client") /\ j # NoJob
    BY <2>5, JobParts DEF Dst, NoJob
  <2>7. Awaited(d, f) \subseteq DOMAIN t.parts
    BY <1>1, <2>1, <2>4 DEF Awaited
  <2>8. PartsLawful(d, f, t.parts, j.rows)
    <3>1. ASSUME NEW i \in 1..m, d = "c2s" PROVE ~NotAllowed(f.members[i])
      <4>1. NotAllowed(f.members[i]) => Allowlist /\ Denied(f.members[i])
        BY <1>2, DecisionFacts DEF NotAllowed
      <4>2. QED BY <1>2, <3>1, <4>1 DEF BlockedByCapability, DeniedFrame
    <3>2. ASSUME NEW i \in 1..m, NEW k \in 1..Len(j.rows), j.rows[k].member = i
          PROVE  j.rows[k].verdict # "BLOCK"
                 /\ (Detector /\ f.members[i].threat => j.rows[k].verdict = "WARN")
      <4>1. k \in 1..m /\ own[k].member = k /\ own[k].verdict = verdicts[k]
        BY <1>4, <2>5, RowFields
      <4>2. QED BY <1>3, <1>8, <2>5, <3>2, <4>1
    <3>3. QED BY <1>1, <2>1, <2>4, <3>1, <3>2 DEF PartsLawful
  <2>9. QED BY <1>5, <2>4, <2>5, <2>6, <2>7, <2>8 DEF Lawful, j
<1>9. QED BY <1>7, <1>8

LEMMA PlannedLawful ==
    ASSUME NEW d \in Dirs, NEW n \in Nat, NEW f \in Line, NEW j, Planned(d, n, f, j)
    PROVE  Lawful(d, n, f, j)
<1>1. CASE f.kind # "line"
  BY <1>1, EmptyMembers DEF Planned
<1>2. CASE f.kind = "line" /\ BlockedByCapability(d, f)
  <2>1. d = "c2s"
    BY <1>2 DEF BlockedByCapability
  <2>2. j = CapabilityJob(f, n)
    BY <1>2 DEF Planned
  <2>3. BlockedByCapability("c2s", f)
    BY <1>2, <2>1
  <2>4. Lawful("c2s", n, f, CapabilityJob(f, n))
    BY <2>3, CapabilityLawful
  <2>5. QED BY <2>1, <2>2, <2>4
<1>3. CASE f.kind = "line" /\ ~BlockedByCapability(d, f)
  <2>1. PICK verdicts \in Verdicts(d, f) : j = InspectedJob(d, f, n, verdicts)
    BY <1>3 DEF Planned
  <2>2. QED BY <1>3, <2>1, InspectedLawful
<1>4. QED BY <1>1, <1>2, <1>3

-----------------------------------------------------------------------------
(* The inductive invariant.                                                 *)

PutFor(w, d, n) == w.dir = d /\ w.line = n
RowFor(r, d, n) == r.dir = d /\ r.line = n /\ r.member > 0

NoWrites(d, n) == \A p \in Peers : \A k \in 1..Len(written[p]) : ~PutFor(written[p][k], d, n)
NoRows(d, n)   == \A k \in 1..Len(log) : ~RowFor(log[k], d, n)

\* Of line n, the peers got what job j says, once; the client no more when the
\* other pump has closed its writer.
WritesAs(d, n, j) ==
    /\ \A p \in Peers : \A k \in 1..Len(written[p]) :
          PutFor(written[p][k], d, n) => p = j.to /\ j.texts = <<written[p][k].text>>
    /\ \A p \in Peers : \A k, l \in 1..Len(written[p]) :
          PutFor(written[p][k], d, n) /\ PutFor(written[p][l], d, n) => k = l
    /\ j.texts # <<>> =>
          \/ \E p \in Peers : \E k \in 1..Len(written[p]) : PutFor(written[p][k], d, n)
          \/ d = "c2s" /\ j.to = "client" /\ "client" \in closing

RowsAs(d, n, j) ==
    /\ \A k \in 1..Len(log) : RowFor(log[k], d, n) =>
          \E m \in 1..Len(j.rows) : log[k] = j.rows[m]
    /\ \A m \in 1..Len(j.rows) : j.rows[m].member > 0 =>
          \E k \in 1..Len(log) : log[k] = j.rows[m]

\* What the peers got and the log says of a handled line is of one lawful job.
Settled(d, n) == \E j : Lawful(d, n, read[d][n], j) /\ WritesAs(d, n, j) /\ RowsAs(d, n, j)

Types ==
    /\ DOMAIN read = Dirs
    /\ \A d \in Dirs : read[d] \in Seq(Frames[d]) /\ read[d] \in Seq(Line) /\ Len(read[d]) <= MaxFrames[d]
    /\ pc \in [Dirs -> {"read", "inspect", "write", "drain", "done"}]
    /\ DOMAIN job = Dirs
    /\ \A d \in Dirs : job[d].to \in Peers \cup {"none", "unknown"} /\ job[d].rows \in Seq(Row0)
    /\ written \in [Peers -> Seq(Put)]
    /\ closing \subseteq Peers
    /\ lock \in Dirs \cup {"free"}
    /\ log \in Seq(Row0)
    /\ stop \in BOOLEAN
    /\ main \in {"wait", "aclose", "drain", "reap", "over"}

Lines ==
    \A d \in Dirs : \A n \in Nat :
        /\ n \in Handled(d) => Settled(d, n)
        /\ n \notin Handled(d) => NoRows(d, n)
        /\ n = 0 \/ n > Len(read[d]) => NoWrites(d, n)

\* The line in hand: it is number n, its frame is f, and the pump's job is j.
HandFits(d, n, f, j) ==
    /\ pc[d] = "read" => j = NoJob
    /\ pc[d] \in {"inspect", "write", "drain"} => j # NoJob
    /\ j # NoJob => n > 0
    /\ pc[d] = "inspect" => f.kind = "line" /\ ~BlockedByCapability(d, f)
    /\ pc[d] \in {"inspect", "write"} => NoWrites(d, n)
    /\ pc[d] \in {"write", "drain"} => Lawful(d, n, f, j)
    /\ pc[d] = "drain" => WritesAs(d, n, j)
    /\ j # NoJob => NoWrites(d, n) \/ (Lawful(d, n, f, j) /\ WritesAs(d, n, j))

InHand ==
    \A d \in Dirs : \A n, f, j :
        n = Len(read[d]) /\ f = read[d][n] /\ j = job[d] => HandFits(d, n, f, j)

InOrder ==
    \A j, k \in 1..Len(log) :
        j < k /\ log[j].dir = log[k].dir /\ log[j].member > 0 /\ log[k].member > 0
            => Before(log[j], log[k])

Locks == \A d \in Dirs : pc[d] = "drain" /\ job[d].to = "client" => lock = d

Closings == \A d \in Dirs : Dst(d) \in closing => pc[d] = "done"

\* The rows of what the client got follow the order in which it got it, and only
\* the rows of the last may still be to come.
Pending(w) == pc[w.dir] = "drain" /\ w.line = Len(read[w.dir])

ClientOrder ==
    \A a, b \in 1..Len(written["client"]) :
        a < b => ~Pending(written["client"][a]) /\ RowsBefore(written["client"][a], written["client"][b])

IInv == Types /\ Lines /\ InHand /\ InOrder /\ Locks /\ Closings /\ ClientOrder

-----------------------------------------------------------------------------
(* What a step that adds to the log and to what was written leaves alone.   *)

WritesKept(d, n) ==
    \A p \in Peers :
        /\ \A k \in 1..Len(written[p]) : k \in 1..Len(written'[p]) /\ written'[p][k] = written[p][k]
        /\ \A k \in 1..Len(written'[p]) :
              k \in 1..Len(written[p]) \/ ~PutFor(written'[p][k], d, n)

RowsKept(d, n) ==
    /\ \A k \in 1..Len(log) : k \in 1..Len(log') /\ log'[k] = log[k]
    /\ \A k \in 1..Len(log') : k \in 1..Len(log) \/ ~RowFor(log'[k], d, n)

LEMMA TypeFacts ==
    ASSUME Types
    PROVE  /\ \A d \in Dirs : /\ Len(read[d]) \in Nat
                              /\ \A n \in 1..Len(read[d]) : read[d][n] \in Line
                              /\ DOMAIN read[d] = 1..Len(read[d])
           /\ \A p \in Peers : /\ Len(written[p]) \in Nat
                               /\ \A k \in 1..Len(written[p]) : written[p][k] \in Put
                               /\ DOMAIN written[p] = 1..Len(written[p])
           /\ Len(log) \in Nat /\ DOMAIN log = 1..Len(log)
           /\ \A k \in 1..Len(log) : log[k] \in Row0 /\ log[k].member \in Nat /\ log[k].line \in Nat
<1>1. ASSUME NEW d \in Dirs
      PROVE  /\ Len(read[d]) \in Nat /\ \A n \in 1..Len(read[d]) : read[d][n] \in Line
             /\ DOMAIN read[d] = 1..Len(read[d])
  <2>1. PICK s \in Seq(Line) : s = read[d]
    BY DEF Types
  <2>2. Len(s) \in Nat /\ DOMAIN s = 1..Len(s) /\ \A n \in 1..Len(s) : s[n] \in Line
    BY LenProperties, ElementOfSeq
  <2>3. QED BY <2>1, <2>2
<1>2. ASSUME NEW p \in Peers
      PROVE  /\ Len(written[p]) \in Nat /\ \A k \in 1..Len(written[p]) : written[p][k] \in Put
             /\ DOMAIN written[p] = 1..Len(written[p])
  <2>1. PICK s \in Seq(Put) : s = written[p]
    BY DEF Types
  <2>2. Len(s) \in Nat /\ DOMAIN s = 1..Len(s) /\ \A n \in 1..Len(s) : s[n] \in Put
    BY LenProperties, ElementOfSeq
  <2>3. QED BY <2>1, <2>2
<1>3. /\ Len(log) \in Nat /\ DOMAIN log = 1..Len(log)
      /\ \A k \in 1..Len(log) : log[k] \in Row0 /\ log[k].member \in Nat /\ log[k].line \in Nat
  <2>1. PICK s \in Seq(Row0) : s = log
    BY DEF Types
  <2>2. Len(s) \in Nat /\ DOMAIN s = 1..Len(s) /\ \A n \in 1..Len(s) : s[n] \in Row0
    BY LenProperties, ElementOfSeq
  <2>3. \A r \in Row0 : r.member \in Nat /\ r.line \in Nat
    BY DEF Row0
  <2>4. QED BY <2>1, <2>2, <2>3
<1>4. QED BY <1>1, <1>2, <1>3

LEMMA NoWritesStays ==
    ASSUME NEW d, NEW n, NoWrites(d, n), WritesKept(d, n) PROVE NoWrites(d, n)'
BY DEF NoWrites, WritesKept

LEMMA NoRowsStays ==
    ASSUME NEW d, NEW n, NoRows(d, n), RowsKept(d, n) PROVE NoRows(d, n)'
BY DEF NoRows, RowsKept

LEMMA WritesAsStays ==
    ASSUME NEW d, NEW n, NEW j, WritesAs(d, n, j), WritesKept(d, n), closing \subseteq closing'
    PROVE  WritesAs(d, n, j)'
BY DEF WritesAs, WritesKept

LEMMA RowsAsStays ==
    ASSUME NEW d, NEW n, NEW j, RowsAs(d, n, j), RowsKept(d, n)
    PROVE  RowsAs(d, n, j)'
BY DEF RowsAs, RowsKept

LEMMA SettledStays ==
    ASSUME NEW d, NEW n, Settled(d, n), WritesKept(d, n), RowsKept(d, n), closing \subseteq closing',
           read'[d][n] = read[d][n]
    PROVE  Settled(d, n)'
<1>1. PICK j : Lawful(d, n, read[d][n], j) /\ WritesAs(d, n, j) /\ RowsAs(d, n, j)
  BY DEF Settled
<1>2. WritesAs(d, n, j)' /\ RowsAs(d, n, j)'
  BY <1>1, WritesAsStays, RowsAsStays
<1>3. QED BY <1>1, <1>2 DEF Settled

-----------------------------------------------------------------------------
(* Steps that neither read nor write nor record.                            *)

LEMMA SameWrites == UNCHANGED written => \A d, n : WritesKept(d, n)
BY DEF WritesKept

LEMMA SameRows == UNCHANGED log => \A d, n : RowsKept(d, n)
BY DEF RowsKept

LEMMA DirNames ==
    /\ Dirs = {"c2s", "s2c"} /\ Peers = {"client", "server"}
    /\ Dst("c2s") = "server" /\ Dst("s2c") = "client"
    /\ \A d \in Dirs : Dst(d) \in Peers
    /\ \A d, e \in Dirs : Dst(d) = Dst(e) => d = e
BY DEF Dirs, Peers, Dst

LEMMA InitHolds == Init => IInv
<1>1. SUFFICES ASSUME Init PROVE IInv
  OBVIOUS
<1>2. /\ DOMAIN read = Dirs /\ (\A d \in Dirs : read[d] = <<>> /\ Len(read[d]) = 0)
      /\ pc \in [Dirs -> {"read", "inspect", "write", "drain", "done"}]
      /\ (\A d \in Dirs : pc[d] = "read" /\ job[d] = NoJob) /\ DOMAIN job = Dirs
      /\ (\A p \in Peers : written[p] = <<>> /\ Len(written[p]) = 0)
      /\ closing = {} /\ log = <<>> /\ Len(log) = 0
  BY <1>1 DEF Init
<1>3. \A S : <<>> \in Seq(S)
  BY EmptySeq
<1>4. Types
  <2>1. NoJob.to = "none" /\ NoJob.rows = <<>>
    BY JobParts DEF NoJob
  <2>2. written \in [Peers -> Seq(Put)]
    BY <1>1, <1>3 DEF Init
  <2>3. \A d \in Dirs : MaxFrames[d] \in Nat
    BY RelayAssumption
  <2>4. \A d \in Dirs : read[d] \in Seq(Frames[d]) /\ read[d] \in Seq(Line) /\ Len(read[d]) <= MaxFrames[d]
    <3>1. ASSUME NEW d \in Dirs PROVE <<>> \in Seq(Frames[d]) /\ <<>> \in Seq(Line)
      BY EmptySeq
    <3>2. ASSUME NEW d \in Dirs
          PROVE  read[d] \in Seq(Frames[d]) /\ read[d] \in Seq(Line) /\ Len(read[d]) <= MaxFrames[d]
      <4>1. read[d] = <<>> /\ Len(read[d]) = 0
        BY <1>2
      <4>2. read[d] \in Seq(Frames[d]) /\ read[d] \in Seq(Line)
        BY <3>1, <4>1
      <4>3. QED BY <2>3, <4>1, <4>2
    <3>3. QED BY <3>2
  <2>5. \A d \in Dirs : job[d].to \in Peers \cup {"none", "unknown"} /\ job[d].rows \in Seq(Row0)
    BY <1>2, <1>3, <2>1, ZenonT(30)
  <2>6. log \in Seq(Row0)
    BY <1>2, <1>3
  <2>7. QED BY <1>1, <1>2, <2>2, <2>4, <2>5, <2>6 DEF Types, Init
<1>5. \A d \in Dirs : \A n \in Nat : NoWrites(d, n) /\ NoRows(d, n) /\ n \notin Handled(d)
  <2>1. \A d, n : NoWrites(d, n)
    BY <1>2 DEF NoWrites
  <2>2. \A d, n : NoRows(d, n)
    BY <1>2 DEF NoRows
  <2>3. \A d \in Dirs : \A n \in Nat : n \notin Handled(d)
    BY <1>2 DEF Handled
  <2>4. QED BY <2>1, <2>2, <2>3
<1>6. Lines
  BY <1>5 DEF Lines
<1>7. InHand
  BY <1>2 DEF InHand, HandFits
<1>8. InOrder /\ Locks /\ Closings
  BY <1>2 DEF InOrder, Locks, Closings
<1>9. ClientOrder
  BY <1>2, DirNames DEF ClientOrder
<1>10. QED BY <1>4, <1>6, <1>7, <1>8, <1>9 DEF IInv

LEMMA QuietKeeps ==
    ASSUME IInv, UNCHANGED <<read, job, written, log>>, Types', closing \subseteq closing',
           \A d \in Dirs : pc'[d] \in {pc[d], "done"}, Locks', Closings'
    PROVE  IInv'
<1>1. Lines /\ InHand /\ InOrder /\ ClientOrder /\ Types
  BY DEF IInv
<1>2. \A d, n : WritesKept(d, n) /\ RowsKept(d, n)
  BY SameWrites, SameRows
<1>3. \A d, n : NoWrites(d, n) => NoWrites(d, n)'
  BY <1>2, NoWritesStays
<1>4. \A d, n : NoRows(d, n) => NoRows(d, n)'
  BY <1>2, NoRowsStays
<1>5. \A d, n, j : WritesAs(d, n, j) => WritesAs(d, n, j)'
  BY <1>2, WritesAsStays
<1>6. \A d, n : Settled(d, n) => Settled(d, n)'
  BY <1>2, SettledStays
<1>7. Lines'
  <2>1. \A d \in Dirs : Handled(d)' = Handled(d)
    BY DEF Handled
  <2>2. ASSUME NEW d \in Dirs, NEW n \in Nat
        PROVE  /\ n \in Handled(d)' => Settled(d, n)'
               /\ n \notin Handled(d)' => NoRows(d, n)'
               /\ n = 0 \/ n > Len(read'[d]) => NoWrites(d, n)'
    BY <1>1, <1>3, <1>4, <1>6, <2>1 DEF Lines
  <2>3. QED BY <2>2 DEF Lines
<1>8. InHand'
  <2>1. SUFFICES ASSUME NEW d \in Dirs, NEW n, NEW f, NEW j,
                        n = Len(read'[d]), f = read'[d][n], j = job'[d]
                 PROVE  HandFits(d, n, f, j)'
    BY DEF InHand
  <2>2. HandFits(d, n, f, j)
    BY <1>1, <2>1 DEF InHand
  <2>3. CASE pc'[d] = pc[d]
    BY <1>3, <1>5, <2>2, <2>3 DEF HandFits
  <2>4. CASE pc'[d] = "done"
    BY <1>3, <1>5, <2>2, <2>4 DEF HandFits
  <2>5. QED BY <2>3, <2>4
<1>9. InOrder'
  BY <1>1 DEF InOrder
<1>10. ClientOrder'
  <2>1. ASSUME NEW a \in 1..Len(written["client"]), NEW b \in 1..Len(written["client"]), a < b
        PROVE  ~Pending(written["client"][a])' /\ RowsBefore(written["client"][a], written["client"][b])'
    <3>1. ~Pending(written["client"][a]) /\ RowsBefore(written["client"][a], written["client"][b])
      BY <1>1, <2>1 DEF ClientOrder
    <3>2. written["client"][a] \in Put
      BY <1>1, TypeFacts, DirNames
    <3>3. written["client"][a].dir \in Dirs
      BY <3>2 DEF Put
    <3>4. ~Pending(written["client"][a])'
      BY <3>1, <3>3 DEF Pending
    <3>5. RowsBefore(written["client"][a], written["client"][b])'
      BY <3>1 DEF RowsBefore
    <3>6. QED BY <3>4, <3>5
  <2>2. QED BY <2>1 DEF ClientOrder
<1>11. QED BY <1>7, <1>8, <1>9, <1>10 DEF IInv

\* The end of a pump, of its own or by cancellation.
LEMMA EndFacts ==
    \A d \in Dirs : IInv /\ End(d) =>
        /\ pc' \in [Dirs -> {"read", "inspect", "write", "drain", "done"}]
        /\ (\A e \in Dirs : pc'[e] = IF e = d THEN "done" ELSE pc[e])
        /\ closing' \subseteq Peers /\ closing \subseteq closing'
        /\ lock' \in Dirs \cup {"free"} /\ Closings'
        /\ (\A e \in Dirs : e # d /\ lock = e => lock' = e)
<1>1. SUFFICES ASSUME NEW d \in Dirs, IInv, End(d) PROVE
        /\ pc' \in [Dirs -> {"read", "inspect", "write", "drain", "done"}]
        /\ (\A e \in Dirs : pc'[e] = IF e = d THEN "done" ELSE pc[e])
        /\ closing' \subseteq Peers /\ closing \subseteq closing'
        /\ lock' \in Dirs \cup {"free"} /\ Closings'
        /\ (\A e \in Dirs : e # d /\ lock = e => lock' = e)
  OBVIOUS
<1>2. Types /\ Closings
  BY <1>1 DEF IInv
<1>3. /\ pc' = [pc EXCEPT ![d] = "done"] /\ closing' = closing \cup {Dst(d)}
      /\ lock' = IF lock = d THEN "free" ELSE lock
  BY <1>1 DEF End
<1>4. /\ pc' \in [Dirs -> {"read", "inspect", "write", "drain", "done"}]
      /\ \A e \in Dirs : pc'[e] = IF e = d THEN "done" ELSE pc[e]
  BY <1>2, <1>3 DEF Types
<1>5. Closings'
  BY <1>2, <1>3, <1>4, DirNames DEF Closings
<1>6. QED BY <1>2, <1>3, <1>4, <1>5, DirNames DEF Types

LEMMA CancelFacts ==
    \A ds \in SUBSET Dirs : IInv /\ CancelPumps(ds) =>
        /\ pc' \in [Dirs -> {"read", "inspect", "write", "drain", "done"}]
        /\ (\A e \in Dirs : pc'[e] = IF e \in ds THEN "done" ELSE pc[e])
        /\ closing' \subseteq Peers /\ closing \subseteq closing'
        /\ lock' \in Dirs \cup {"free"} /\ Closings' /\ (UNCHANGED job => Locks')
<1>1. SUFFICES ASSUME NEW ds \in SUBSET Dirs, IInv, CancelPumps(ds) PROVE
        /\ pc' \in [Dirs -> {"read", "inspect", "write", "drain", "done"}]
        /\ (\A e \in Dirs : pc'[e] = IF e \in ds THEN "done" ELSE pc[e])
        /\ closing' \subseteq Peers /\ closing \subseteq closing'
        /\ lock' \in Dirs \cup {"free"} /\ Closings' /\ (UNCHANGED job => Locks')
  OBVIOUS
<1>2. Types /\ Closings /\ Locks
  BY <1>1 DEF IInv
<1>3. /\ pc' = [d \in Dirs |-> IF d \in ds THEN "done" ELSE pc[d]]
      /\ closing' = closing \cup {Dst(d) : d \in {e \in ds : pc[e] # "done"}}
      /\ lock' = IF lock \in ds THEN "free" ELSE lock
  BY <1>1 DEF CancelPumps
<1>4. /\ pc' \in [Dirs -> {"read", "inspect", "write", "drain", "done"}]
      /\ \A e \in Dirs : pc'[e] = IF e \in ds THEN "done" ELSE pc[e]
  BY <1>2, <1>3 DEF Types
<1>5. Closings'
  BY <1>1, <1>2, <1>3, <1>4, DirNames DEF Closings
<1>6. UNCHANGED job => Locks'
  BY <1>2, <1>3, <1>4 DEF Locks
<1>7. closing' \subseteq Peers /\ closing \subseteq closing'
  BY <1>1, <1>2, <1>3, DirNames DEF Types
<1>8. lock' \in Dirs \cup {"free"}
  BY <1>2, <1>3 DEF Types
<1>9. QED BY <1>4, <1>5, <1>6, <1>7, <1>8

LEMMA EndingKeeps == IInv /\ (\E d \in Dirs : EndOfFile(d) \/ DrainFailed(d)) => IInv'
<1>1. SUFFICES ASSUME IInv, NEW d \in Dirs, EndOfFile(d) \/ DrainFailed(d) PROVE IInv'
  OBVIOUS
<1>2. End(d) /\ UNCHANGED <<read, job, written, log, stop, main>>
  BY <1>1 DEF EndOfFile, DrainFailed
<1>3. /\ pc' \in [Dirs -> {"read", "inspect", "write", "drain", "done"}]
      /\ (\A e \in Dirs : pc'[e] = IF e = d THEN "done" ELSE pc[e])
      /\ closing' \subseteq Peers /\ closing \subseteq closing'
      /\ lock' \in Dirs \cup {"free"} /\ Closings'
      /\ (\A e \in Dirs : e # d /\ lock = e => lock' = e)
  BY <1>1, <1>2, EndFacts
<1>4. Types /\ Locks
  BY <1>1 DEF IInv
<1>5. Types'
  BY <1>2, <1>3, <1>4 DEF Types
<1>6. Locks'
  BY <1>2, <1>3, <1>4 DEF Locks
<1>7. QED BY <1>1, <1>2, <1>3, <1>5, <1>6, QuietKeeps

LEMMA MainKeeps == IInv /\ (Main \/ ServerLets \/ Signal \/ UNCHANGED vars) => IInv'
<1>1. SUFFICES ASSUME IInv, Main \/ ServerLets \/ Signal \/ UNCHANGED vars PROVE IInv'
  OBVIOUS
<1>2. Types /\ Locks /\ Closings
  BY <1>1 DEF IInv
<1>3. ASSUME NEW ds \in SUBSET Dirs, CancelPumps(ds), main' = "reap",
             UNCHANGED <<read, job, written, log, stop>>
      PROVE  IInv'
  <2>1. /\ pc' \in [Dirs -> {"read", "inspect", "write", "drain", "done"}]
        /\ (\A e \in Dirs : pc'[e] = IF e \in ds THEN "done" ELSE pc[e])
        /\ closing' \subseteq Peers /\ closing \subseteq closing'
        /\ lock' \in Dirs \cup {"free"} /\ Closings' /\ Locks'
    BY <1>1, <1>3, CancelFacts
  <2>2. Types'
    BY <1>2, <1>3, <2>1 DEF Types
  <2>3. QED BY <1>1, <1>3, <2>1, <2>2, QuietKeeps
<1>4. ASSUME UNCHANGED <<read, pc, job, written, closing, lock, log>>,
             stop' \in BOOLEAN, main' \in {"wait", "aclose", "drain", "reap", "over"}
      PROVE  IInv'
  <2>1. Types' /\ Locks' /\ Closings'
    BY <1>2, <1>4 DEF Types, Locks, Closings
  <2>2. QED BY <1>1, <1>4, <2>1, QuietKeeps
<1>5. CASE Stopped
  <2>1. Dirs \in SUBSET Dirs
    OBVIOUS
  <2>2. QED BY <1>3, <1>5, <2>1 DEF Stopped
<1>6. CASE DrainOver
  <2>1. {"s2c"} \in SUBSET Dirs
    BY DirNames
  <2>2. QED BY <1>3, <1>6, <2>1 DEF DrainOver
<1>7. CASE ServerEnded
  <2>1. {"c2s"} \in SUBSET Dirs
    BY DirNames
  <2>2. QED BY <1>3, <1>7, <2>1 DEF ServerEnded
<1>8. CASE ClientEnded
  BY <1>2, <1>4, <1>8 DEF ClientEnded, Types
<1>9. CASE Signal
  BY <1>2, <1>4, <1>9 DEF Signal, Types
<1>10. CASE UNCHANGED vars
  BY <1>2, <1>4, <1>10 DEF vars, Types
<1>11. CASE ServerLets
  BY <1>2, <1>4, <1>11 DEF ServerLets, Aclosed, Reaped, Types
<1>12. QED BY <1>1, <1>5, <1>6, <1>7, <1>8, <1>9, <1>10, <1>11 DEF Main

-----------------------------------------------------------------------------
(* Steps of a pump with a line in hand.                                     *)

\* A step of pump d with line m in hand leaves the other lines alone.
LEMMA OthersKeep ==
    ASSUME IInv, NEW d \in Dirs, NEW m \in Nat \ {0}, Len(read'[d]) = m,
           Handled(d) = 1..(m - 1), Len(read[d]) <= m,
           Handled(d)' = IF job'[d] = NoJob THEN 1..m ELSE 1..(m - 1),
           \A n \in 1..(m - 1) : read'[d][n] = read[d][n],
           \A e \in Dirs : e # d => read'[e] = read[e] /\ job'[e] = job[e] /\ pc'[e] = pc[e],
           closing \subseteq closing',
           \A e \in Dirs : \A n \in Nat : ~(e = d /\ n = m) => WritesKept(e, n) /\ RowsKept(e, n),
           job'[d] = NoJob => Settled(d, m)', job'[d] # NoJob => NoRows(d, m)',
           \A f, j : f = read'[d][m] /\ j = job'[d] => HandFits(d, m, f, j)'
    PROVE  Lines' /\ InHand'
<1>1. Lines /\ InHand /\ Types
  BY DEF IInv
<1>2. ASSUME NEW e \in Dirs, NEW n \in Nat
      PROVE  /\ n \in Handled(e)' => Settled(e, n)'
             /\ n \notin Handled(e)' => NoRows(e, n)'
             /\ n = 0 \/ n > Len(read'[e]) => NoWrites(e, n)'
  <2>1. CASE e = d /\ n = m
    <3>1. m \in Handled(d)' => job'[d] = NoJob
      OBVIOUS
    <3>2. m \notin Handled(d)' => job'[d] # NoJob
      OBVIOUS
    <3>3. ~(m = 0 \/ m > Len(read'[d]))
      OBVIOUS
    <3>4. QED BY <2>1, <3>1, <3>2, <3>3
  <2>2. CASE ~(e = d /\ n = m)
    <3>1. WritesKept(e, n) /\ RowsKept(e, n)
      BY <1>2, <2>2
    <3>2. n \in Handled(e)' <=> n \in Handled(e)
      <4>1. CASE e = d
        BY <2>2, <4>1
      <4>2. CASE e # d
        BY <1>2, <4>2 DEF Handled
      <4>3. QED BY <4>1, <4>2
    <3>3. ASSUME n \in Handled(e) PROVE Settled(e, n)'
      <4>1. Settled(e, n)
        BY <1>1, <1>2, <3>3 DEF Lines
      <4>2. read'[e][n] = read[e][n]
        BY <1>2, <3>3
      <4>3. QED BY <3>1, <4>1, <4>2, SettledStays
    <3>4. ASSUME n \notin Handled(e) PROVE NoRows(e, n)'
      BY <1>1, <1>2, <3>1, <3>4, NoRowsStays DEF Lines
    <3>5. ASSUME n = 0 \/ n > Len(read'[e]) PROVE NoWrites(e, n)'
      <4>1. n = 0 \/ n > Len(read[e])
        <5>1. CASE e = d
          <6>1. Len(read[d]) \in Nat
            BY <1>1, TypeFacts
          <6>2. QED BY <3>5, <5>1, <6>1
        <5>2. CASE e # d
          BY <1>2, <3>5, <5>2
        <5>3. QED BY <5>1, <5>2
      <4>2. NoWrites(e, n)
        BY <1>1, <1>2, <4>1 DEF Lines
      <4>3. QED BY <3>1, <4>2, NoWritesStays
    <3>6. QED BY <3>2, <3>3, <3>4, <3>5
  <2>3. QED BY <2>1, <2>2
<1>3. Lines'
  BY <1>2 DEF Lines
<1>4. ASSUME NEW e \in Dirs, NEW n, NEW f, NEW j, n = Len(read'[e]), f = read'[e][n], j = job'[e]
      PROVE  HandFits(e, n, f, j)'
  <2>1. CASE e = d
    <3>1. n = m /\ f = read'[d][m] /\ j = job'[d]
      BY <1>4, <2>1
    <3>2. HandFits(d, m, f, j)'
      BY <3>1
    <3>3. QED BY <2>1, <3>1, <3>2
  <2>2. CASE e # d
    <3>1. n = Len(read[e]) /\ f = read[e][n] /\ j = job[e] /\ pc'[e] = pc[e]
      BY <1>4, <2>2
    <3>2. n \in Nat
      BY <1>1, <3>1, TypeFacts
    <3>3. HandFits(e, n, f, j)
      BY <1>1, <3>1 DEF InHand
    <3>4. WritesKept(e, n)
      BY <2>2, <3>2
    <3>5. NoWrites(e, n) => NoWrites(e, n)'
      BY <3>4, NoWritesStays
    <3>6. WritesAs(e, n, j) => WritesAs(e, n, j)'
      BY <3>4, WritesAsStays
    <3>7. QED BY <3>1, <3>3, <3>5, <3>6 DEF HandFits
  <2>3. QED BY <2>1, <2>2
<1>5. InHand'
  BY <1>4 DEF InHand
<1>6. QED BY <1>3, <1>5

LEMMA HandledIs ==
    ASSUME Types, NEW d \in Dirs
    PROVE  /\ job[d] = NoJob => Handled(d) = 1..Len(read[d])
           /\ job[d] # NoJob => Handled(d) = 1..(Len(read[d]) - 1)
BY DEF Handled

\* Rows that are of no member keep the order of the rows.
LEMMA RawRowKeeps ==
    \A d \in Dirs, n \in Nat : Types /\ log' = Append(log, RawRow(d, n)) =>
        /\ log' \in Seq(Row0) /\ Len(log') = Len(log) + 1
        /\ \A k \in 1..Len(log) : log'[k] = log[k]
        /\ log'[Len(log) + 1].member = 0
<1>1. SUFFICES ASSUME NEW d \in Dirs, NEW n \in Nat, Types, log' = Append(log, RawRow(d, n))
               PROVE  /\ log' \in Seq(Row0) /\ Len(log') = Len(log) + 1
                      /\ \A k \in 1..Len(log) : log'[k] = log[k]
                      /\ log'[Len(log) + 1].member = 0
  OBVIOUS
<1>2. PICK l \in Seq(Row0) : l = log
  BY <1>1 DEF Types
<1>3. PICK r : r = RawRow(d, n)
  OBVIOUS
<1>4. r \in Row0 /\ r.member = 0
  BY <1>3 DEF RawRow, Row, Row0
<1>5. /\ Append(l, r) \in Seq(Row0) /\ Len(Append(l, r)) = Len(l) + 1
      /\ \A k \in 1..Len(l) : Append(l, r)[k] = l[k]
      /\ Append(l, r)[Len(l) + 1] = r
  BY <1>4, AppendProperties
<1>6. QED BY <1>1, <1>2, <1>3, <1>4, <1>5

\* What is common to a log that is the same and one with such a row more.
LoggedMore ==
    /\ log' \in Seq(Row0) /\ \A k \in 1..Len(log) : k \in 1..Len(log') /\ log'[k] = log[k]
    /\ \A k \in 1..Len(log') : k \in 1..Len(log) \/ log'[k].member = 0

LEMMA LoggedMoreKeeps ==
    ASSUME IInv, LoggedMore
    PROVE  /\ \A d, n : RowsKept(d, n)
           /\ InOrder'
           /\ \A a, b : RowsBefore(a, b) => RowsBefore(a, b)'
<1>1. Types /\ InOrder
  BY DEF IInv
<1>2. \A k \in 1..Len(log') : log'[k].member > 0 => k \in 1..Len(log) /\ log'[k] = log[k]
  BY DEF LoggedMore
<1>3. \A d, n : RowsKept(d, n)
  BY <1>2 DEF RowsKept, RowFor, LoggedMore
<1>4. InOrder'
  BY <1>1, <1>2 DEF InOrder, Before
<1>5. DOMAIN log' = 1..Len(log') /\ DOMAIN log = 1..Len(log)
  <2>1. PICK l \in Seq(Row0) : l = log'
    BY DEF LoggedMore
  <2>2. DOMAIN l = 1..Len(l)
    BY LenProperties
  <2>3. QED BY <1>1, <2>1, <2>2, TypeFacts
<1>6. \A a, b : RowsBefore(a, b) => RowsBefore(a, b)'
  BY <1>2, <1>5 DEF RowsBefore
<1>7. QED BY <1>3, <1>4, <1>6

LEMMA ReadLineKeeps == IInv /\ (\E d \in Dirs : \E f \in Frames[d] : ReadLine(d, f)) => IInv'
<1>1. SUFFICES ASSUME IInv, NEW d \in Dirs, NEW f \in Frames[d], ReadLine(d, f) PROVE IInv'
  OBVIOUS
<1>2. Types /\ Lines /\ InHand /\ InOrder /\ Locks /\ Closings /\ ClientOrder
  BY <1>1 DEF IInv
<1>3. f \in Line
  BY RelayAssumption
<1>m. PICK m \in Nat \ {0} : m = Len(read[d]) + 1
  BY <1>2, TypeFacts
<1>4. /\ pc[d] = "read" /\ Len(read[d]) < MaxFrames[d]
      /\ read' = [read EXCEPT ![d] = Append(@, f)]
      /\ UNCHANGED <<written, closing, lock, stop, main>>
  BY <1>1 DEF ReadLine
<1>5. Len(read[d]) \in Nat /\ m \in Nat \ {0} /\ MaxFrames[d] \in Nat
  BY <1>2, <1>m, TypeFacts, RelayAssumption
<1>6. PICK j, w :
        /\ job' = [job EXCEPT ![d] = j] /\ pc' = [pc EXCEPT ![d] = w]
        /\ \/ w = "write" /\ Planned(d, m, f, j)
           \/ w = "inspect" /\ j = NotYetKnown /\ f.kind = "line" /\ ~BlockedByCapability(d, f)
  <2>1. CASE f.kind = "blank"
    BY <1>1, <1>m, <2>1 DEF ReadLine, Planned
  <2>2. CASE f.kind = "oversized"
    BY <1>1, <1>m, <2>2 DEF ReadLine, Planned
  <2>3. CASE f.kind = "line" /\ BlockedByCapability(d, f)
    BY <1>1, <1>m, <2>3 DEF ReadLine, Planned
  <2>4. CASE f.kind = "line" /\ ~BlockedByCapability(d, f)
    BY <1>1, <1>m, <2>4 DEF ReadLine, Planned
  <2>5. QED BY <1>3, <2>1, <2>2, <2>3, <2>4, FrameFacts
<1>7. LoggedMore
  <2>1. CASE log' = log
    BY <1>2, <2>1 DEF Types, LoggedMore
  <2>2. CASE log' = Append(log, RawRow(d, m))
    <3>1. /\ log' \in Seq(Row0) /\ Len(log') = Len(log) + 1
          /\ (\A k \in 1..Len(log) : log'[k] = log[k])
          /\ log'[Len(log) + 1].member = 0
      BY <1>2, <1>5, <2>2, RawRowKeeps
    <3>2. Len(log) \in Nat
      BY <1>2, TypeFacts
    <3>3. QED BY <3>1, <3>2 DEF LoggedMore
  <2>3. QED BY <1>1, <1>m, <2>1, <2>2 DEF ReadLine
<1>8. w = "write" => Lawful(d, m, f, j)
  BY <1>3, <1>5, <1>6, PlannedLawful
<1>9. j # NoJob /\ j.to \in Peers \cup {"none", "unknown"} /\ j.rows \in Seq(Row0)
  <2>1. CASE w = "write"
    BY <1>8, <2>1, DirNames DEF Lawful, RowsLawful
  <2>2. CASE w # "write"
    <3>1. j.to = "unknown" /\ j.rows = <<>>
      BY <1>6, <2>2, JobParts DEF NotYetKnown
    <3>2. QED BY <3>1, JobParts, EmptySeq DEF NoJob
  <2>3. QED BY <2>1, <2>2
<1>10. /\ DOMAIN read' = Dirs /\ read'[d] \in Seq(Frames[d]) /\ read'[d] \in Seq(Line)
       /\ Len(read'[d]) = m /\ read'[d][m] = f
       /\ \A n \in 1..(m - 1) : read'[d][n] = read[d][n]
  <2>1. PICK s \in Seq(Frames[d]) : s = read[d] /\ s \in Seq(Line)
    BY <1>2 DEF Types
  <2>2. /\ Append(s, f) \in Seq(Frames[d]) /\ Len(Append(s, f)) = Len(s) + 1
        /\ (\A k \in 1..Len(s) : Append(s, f)[k] = s[k]) /\ Append(s, f)[Len(s) + 1] = f
    BY AppendProperties
  <2>3. Append(s, f) \in Seq(Line)
    BY <1>3, <2>1, AppendProperties
  <2>4. read'[d] = Append(s, f) /\ DOMAIN read' = Dirs
    BY <1>2, <1>4, <2>1 DEF Types
  <2>5. \A n \in 1..(m - 1) : n \in 1..Len(s)
    BY <1>5, <1>m, <2>1
  <2>6. QED BY <1>m, <2>1, <2>2, <2>3, <2>4, <2>5
<1>11. \A e \in Dirs : e # d => read'[e] = read[e] /\ job'[e] = job[e] /\ pc'[e] = pc[e]
  BY <1>2, <1>4, <1>6 DEF Types
<1>12. job'[d] = j /\ pc'[d] = w /\ DOMAIN job' = Dirs
       /\ pc' \in [Dirs -> {"read", "inspect", "write", "drain", "done"}]
  BY <1>2, <1>6 DEF Types
<1>13. Types'
  <2>1. Len(read'[d]) <= MaxFrames[d]
    BY <1>4, <1>5, <1>10, <1>m
  <2>2. \A e \in Dirs : read'[e] \in Seq(Frames[e]) /\ read'[e] \in Seq(Line) /\ Len(read'[e]) <= MaxFrames[e]
    BY <1>2, <1>10, <1>11, <2>1 DEF Types
  <2>3. \A e \in Dirs : job'[e].to \in Peers \cup {"none", "unknown"} /\ job'[e].rows \in Seq(Row0)
    BY <1>2, <1>9, <1>11, <1>12 DEF Types
  <2>4. QED BY <1>2, <1>4, <1>7, <1>10, <1>12, <2>2, <2>3 DEF Types, LoggedMore
<1>14. job[d] = NoJob /\ Handled(d) = 1..(m - 1)
  <2>1. job[d] = NoJob
    BY <1>2, <1>4 DEF InHand, HandFits
  <2>2. QED BY <1>2, <1>5, <1>m, <2>1, HandledIs
<1>15. Handled(d)' = 1..(m - 1)
  BY <1>9, <1>10, <1>12 DEF Handled
<1>16. \A e, n : WritesKept(e, n) /\ RowsKept(e, n)
  BY <1>1, <1>4, <1>7, SameWrites, LoggedMoreKeeps
<1>17. NoRows(d, m)'
  <2>1. m \notin Handled(d) /\ m \in Nat
    BY <1>5, <1>14
  <2>2. NoRows(d, m)
    BY <1>2, <2>1 DEF Lines
  <2>3. QED BY <1>16, <2>2, NoRowsStays
<1>18. NoWrites(d, m)'
  <2>1. NoWrites(d, m)
    BY <1>2, <1>5, <1>m DEF Lines
  <2>2. QED BY <1>16, <2>1, NoWritesStays
<1>19. HandFits(d, m, f, j)'
  <2>1. m > 0
    BY <1>5
  <2>2. QED BY <1>6, <1>8, <1>9, <1>12, <1>18, <2>1 DEF HandFits
<1>20. Lines' /\ InHand'
  <2>1. Len(read[d]) <= m
    BY <1>5, <1>m
  <2>2. Handled(d)' = IF job'[d] = NoJob THEN 1..m ELSE 1..(m - 1)
    BY <1>9, <1>12, <1>15
  <2>3. \A g, i : g = read'[d][m] /\ i = job'[d] => HandFits(d, m, g, i)'
    BY <1>10, <1>12, <1>19
  <2>4. job'[d] = NoJob => Settled(d, m)'
    BY <1>9, <1>12
  <2>5. closing \subseteq closing'
    BY <1>4
  <2>6. QED BY <1>1, <1>5, <1>10, <1>11, <1>14, <1>16, <1>17, <2>1, <2>2, <2>3, <2>4, <2>5, OthersKeep
<1>21. InOrder'
  BY <1>1, <1>7, LoggedMoreKeeps
<1>22. Locks' /\ Closings'
  <2>1. pc'[d] # "drain" /\ pc[d] # "done"
    BY <1>4, <1>6, <1>12
  <2>2. Locks'
    BY <1>2, <1>4, <1>11, <2>1 DEF Locks
  <2>3. Closings'
    BY <1>2, <1>4, <1>11, <2>1 DEF Closings
  <2>4. QED BY <2>2, <2>3
<1>23. ClientOrder'
  <2>1. ASSUME NEW a \in 1..Len(written["client"]), NEW b \in 1..Len(written["client"]), a < b
        PROVE  ~Pending(written["client"][a])' /\ RowsBefore(written["client"][a], written["client"][b])'
    <3>1. PICK x, y : x = written["client"][a] /\ y = written["client"][b]
      OBVIOUS
    <3>2. ~Pending(x) /\ RowsBefore(x, y)
      BY <1>2, <2>1, <3>1 DEF ClientOrder
    <3>3. x \in Put
      BY <1>2, <3>1, TypeFacts, DirNames
    <3>4. x.dir \in Dirs
      BY <3>3 DEF Put
    <3>5. ~Pending(x)'
      BY <1>6, <1>11, <1>12, <3>2, <3>4 DEF Pending
    <3>6. RowsBefore(x, y)'
      BY <1>1, <1>7, <3>2, LoggedMoreKeeps
    <3>7. QED BY <1>4, <3>1, <3>5, <3>6 DEF Pending, RowsBefore
  <2>2. QED BY <1>4, <2>1 DEF ClientOrder
<1>24. QED BY <1>13, <1>20, <1>21, <1>22, <1>23 DEF IInv

\* The line in hand, of a pump that is not at the head of its loop.
LEMMA HandFacts ==
    ASSUME IInv, NEW d \in Dirs, job[d] # NoJob
    PROVE  /\ Len(read[d]) \in Nat \ {0} /\ read[d][Len(read[d])] \in Line
           /\ Handled(d) = 1..(Len(read[d]) - 1)
           /\ NoRows(d, Len(read[d]))
           /\ HandFits(d, Len(read[d]), read[d][Len(read[d])], job[d])
<1>1. Types /\ Lines /\ InHand
  BY DEF IInv
<1>2. PICK m, f, j : m = Len(read[d]) /\ f = read[d][m] /\ j = job[d]
  OBVIOUS
<1>3. HandFits(d, m, f, j)
  BY <1>1, <1>2 DEF InHand
<1>4. m \in Nat \ {0}
  BY <1>1, <1>2, <1>3, TypeFacts DEF HandFits
<1>5. Handled(d) = 1..(m - 1) /\ f \in Line
  BY <1>1, <1>2, <1>4, HandledIs, TypeFacts
<1>6. m \notin Handled(d)
  BY <1>4, <1>5
<1>7. NoRows(d, m)
  BY <1>1, <1>4, <1>6 DEF Lines
<1>8. QED BY <1>2, <1>3, <1>4, <1>5, <1>7

LEMMA InspectKeeps == IInv /\ (\E d \in Dirs : Inspect(d)) => IInv'
<1>1. SUFFICES ASSUME IInv, NEW d \in Dirs, Inspect(d) PROVE IInv'
  OBVIOUS
<1>2. Types /\ Lines /\ InHand /\ InOrder /\ Locks /\ Closings /\ ClientOrder
  BY <1>1 DEF IInv
<1>3. pc[d] = "inspect" /\ UNCHANGED <<read, written, closing, lock, log, stop, main>>
      /\ pc' = [pc EXCEPT ![d] = "write"]
  BY <1>1 DEF Inspect
<1>4. job[d] # NoJob
  BY <1>2, <1>3 DEF InHand, HandFits
<1>5. PICK m, f : m = Len(read[d]) /\ f = read[d][m]
  OBVIOUS
<1>6. /\ m \in Nat \ {0} /\ f \in Line /\ Handled(d) = 1..(m - 1) /\ NoRows(d, m)
      /\ HandFits(d, m, f, job[d])
  BY <1>1, <1>4, <1>5, HandFacts
<1>7. PICK verdicts \in Verdicts(d, f) :
        job' = [job EXCEPT ![d] = InspectedJob(d, f, m, verdicts)]
  BY <1>1, <1>5 DEF Inspect, Current
<1>8. PICK j : j = InspectedJob(d, f, m, verdicts)
  OBVIOUS
<1>9. Planned(d, m, f, j)
  BY <1>3, <1>6, <1>8 DEF Planned, HandFits
<1>10. Lawful(d, m, f, j)
  BY <1>6, <1>9, PlannedLawful
<1>11. j # NoJob /\ j.to \in Peers \cup {"none", "unknown"} /\ j.rows \in Seq(Row0)
  BY <1>10, DirNames DEF Lawful, RowsLawful
<1>12. /\ job'[d] = j /\ pc'[d] = "write" /\ DOMAIN job' = Dirs
       /\ pc' \in [Dirs -> {"read", "inspect", "write", "drain", "done"}]
       /\ \A e \in Dirs : e # d => read'[e] = read[e] /\ job'[e] = job[e] /\ pc'[e] = pc[e]
  BY <1>2, <1>3, <1>7, <1>8 DEF Types
<1>13. Types'
  <2>1. \A e \in Dirs : job'[e].to \in Peers \cup {"none", "unknown"} /\ job'[e].rows \in Seq(Row0)
    BY <1>2, <1>11, <1>12 DEF Types
  <2>2. QED BY <1>2, <1>3, <1>12, <2>1 DEF Types
<1>14. \A e, n : WritesKept(e, n) /\ RowsKept(e, n)
  BY <1>3, SameWrites, SameRows
<1>15. NoRows(d, m)' /\ NoWrites(d, m)'
  <2>1. NoWrites(d, m)
    BY <1>3, <1>6 DEF HandFits
  <2>2. QED BY <1>6, <1>14, <2>1, NoRowsStays, NoWritesStays
<1>16. HandFits(d, m, f, j)'
  BY <1>6, <1>10, <1>11, <1>12, <1>15 DEF HandFits
<1>17. Lines' /\ InHand'
  <2>1. Len(read[d]) <= m /\ Len(read'[d]) = m
    BY <1>3, <1>5, <1>6
  <2>2. Handled(d)' = IF job'[d] = NoJob THEN 1..m ELSE 1..(m - 1)
    BY <1>3, <1>5, <1>11, <1>12 DEF Handled
  <2>3. \A g, i : g = read'[d][m] /\ i = job'[d] => HandFits(d, m, g, i)'
    BY <1>3, <1>5, <1>12, <1>16
  <2>4. job'[d] = NoJob => Settled(d, m)'
    BY <1>11, <1>12
  <2>5. closing \subseteq closing' /\ \A n \in 1..(m - 1) : read'[d][n] = read[d][n]
    BY <1>3
  <2>6. QED BY <1>1, <1>6, <1>12, <1>14, <1>15, <2>1, <2>2, <2>3, <2>4, <2>5, OthersKeep
<1>18. InOrder'
  BY <1>2, <1>3 DEF InOrder
<1>19. Locks' /\ Closings'
  BY <1>2, <1>3, <1>12 DEF Locks, Closings
<1>20. ClientOrder'
  <2>1. ASSUME NEW a \in 1..Len(written["client"]), NEW b \in 1..Len(written["client"]), a < b
        PROVE  ~Pending(written["client"][a])' /\ RowsBefore(written["client"][a], written["client"][b])'
    <3>1. PICK x, y : x = written["client"][a] /\ y = written["client"][b]
      OBVIOUS
    <3>2. ~Pending(x) /\ RowsBefore(x, y)
      BY <1>2, <2>1, <3>1 DEF ClientOrder
    <3>3. x \in Put
      BY <1>2, <3>1, TypeFacts, DirNames
    <3>4. x.dir \in Dirs
      BY <3>3 DEF Put
    <3>5. ~Pending(x)'
      BY <1>3, <1>12, <3>2, <3>4 DEF Pending
    <3>6. RowsBefore(x, y)'
      BY <1>3, <3>2 DEF RowsBefore
    <3>7. QED BY <1>3, <3>1, <3>5, <3>6 DEF Pending, RowsBefore
  <2>2. QED BY <1>3, <2>1 DEF ClientOrder
<1>21. QED BY <1>13, <1>17, <1>18, <1>19, <1>20 DEF IInv

\* What _safe_write adds to what was written.
Added(d, m, j, w) ==
    /\ j.texts = <<w.text>> /\ w.dir = d /\ w.line = m /\ w \in Put /\ j.to \in Peers
    /\ written' \in [Peers -> Seq(Put)]
    /\ \A p \in Peers : p # j.to => written'[p] = written[p]
    /\ Len(written'[j.to]) = Len(written[j.to]) + 1
    /\ \A k \in 1..Len(written[j.to]) : written'[j.to][k] = written[j.to][k]
    /\ written'[j.to][Len(written[j.to]) + 1] = w

LEMMA WriteFacts ==
    \A d \in Dirs : \A m, f, j :
        IInv /\ Write(d) /\ m = Len(read[d]) /\ f = read[d][m] /\ j = job[d] =>
            \/ UNCHANGED written /\ (j.texts = <<>> \/ j.to \in closing)
            \/ \E w : Added(d, m, j, w)
<1>1. SUFFICES ASSUME NEW d \in Dirs, NEW m, NEW f, NEW j, IInv, Write(d),
                      m = Len(read[d]), f = read[d][m], j = job[d]
               PROVE  \/ UNCHANGED written /\ (j.texts = <<>> \/ j.to \in closing)
                      \/ \E w : Added(d, m, j, w)
  OBVIOUS
<1>2. Types /\ InHand /\ pc[d] = "write" /\ j.to # "none"
  BY <1>1 DEF IInv, Write
<1>3. Lawful(d, m, f, j) /\ m \in Nat
  BY <1>1, <1>2, TypeFacts DEF InHand, HandFits
<1>4. PICK to : to = j.to
  OBVIOUS
<1>5. to \in Peers
  BY <1>2, <1>3, <1>4, DirNames DEF Lawful
<1>6. PICK s \in Seq(Put) : s = written[to]
  BY <1>2, <1>5 DEF Types
<1>7. CASE to \in closing
  BY <1>1, <1>4, <1>7 DEF Write
<1>8. CASE to \notin closing
  <2>1. written' = [written EXCEPT ![to] = @ \o
                      [k \in DOMAIN j.texts |-> [dir |-> d, line |-> m, text |-> j.texts[k]]]]
    BY <1>1, <1>4, <1>8 DEF Write
  <2>2. CASE j.texts = <<>>
    <3>1. [k \in DOMAIN j.texts |-> [dir |-> d, line |-> m, text |-> j.texts[k]]] = <<>>
      BY <2>2
    <3>2. s \o <<>> = s
      BY ConcatEmptySeq
    <3>3. written' = [written EXCEPT ![to] = s]
      BY <1>6, <2>1, <3>1, <3>2
    <3>4. written' = written
      BY <1>2, <1>5, <1>6, <3>3 DEF Types
    <3>5. QED BY <2>2, <3>4
  <2>3. CASE j.texts # <<>>
    <3>1. PICK t \in Texts : j.texts = <<t>>
      BY <1>3, <2>3 DEF Lawful
    <3>2. PICK w : w = [dir |-> d, line |-> m, text |-> t]
      OBVIOUS
    <3>3. w \in Put /\ w.dir = d /\ w.line = m /\ w.text = t
      BY <1>3, <3>2 DEF Put
    <3>4. [k \in DOMAIN j.texts |-> [dir |-> d, line |-> m, text |-> j.texts[k]]] = <<w>>
      <4>1. DOMAIN <<t>> = {1} /\ <<t>>[1] = t
        OBVIOUS
      <4>2. \A k \in DOMAIN j.texts : [dir |-> d, line |-> m, text |-> j.texts[k]] = w
        BY <3>1, <3>2, <4>1
      <4>3. [k \in DOMAIN j.texts |-> [dir |-> d, line |-> m, text |-> j.texts[k]]]
              = [k \in {1} |-> w]
        BY <3>1, <4>1, <4>2
      <4>4. <<w>> = [k \in {1} |-> w]
        OBVIOUS
      <4>5. QED BY <4>3, <4>4
    <3>5. s \o <<w>> = Append(s, w)
      BY <3>3, AppendIsConcat
    <3>6. /\ Append(s, w) \in Seq(Put) /\ Len(Append(s, w)) = Len(s) + 1
          /\ (\A k \in 1..Len(s) : Append(s, w)[k] = s[k]) /\ Append(s, w)[Len(s) + 1] = w
      BY <3>3, AppendProperties
    <3>7. written' = [written EXCEPT ![to] = Append(s, w)]
      BY <1>6, <2>1, <3>4, <3>5
    <3>8. /\ written'[to] = Append(s, w) /\ written' \in [Peers -> Seq(Put)]
          /\ \A p \in Peers : p # to => written'[p] = written[p]
      BY <1>2, <1>5, <3>6, <3>7 DEF Types
    <3>9. Added(d, m, j, w)
      BY <1>4, <1>5, <1>6, <3>1, <3>3, <3>6, <3>8 DEF Added
    <3>10. QED BY <3>9
  <2>4. QED BY <2>2, <2>3
<1>9. QED BY <1>7, <1>8

\* A new entry of line m of direction d leaves the other lines alone.
LEMMA AddedKeeps ==
    ASSUME Types, NEW d \in Dirs, NEW m \in Nat, NEW j, NEW w, Added(d, m, j, w)
    PROVE  /\ \A e \in Dirs : \A n \in Nat : ~(e = d /\ n = m) => WritesKept(e, n)
           /\ \A p \in Peers : \A k \in 1..Len(written'[p]) :
                 \/ k \in 1..Len(written[p]) /\ written'[p][k] = written[p][k]
                 \/ p = j.to /\ k = Len(written[p]) + 1 /\ written'[p][k] = w
           /\ Len(written[j.to]) + 1 \in 1..Len(written'[j.to])
<1>1. \A p \in Peers : Len(written[p]) \in Nat
  BY TypeFacts
<1>2. ASSUME NEW p \in Peers, NEW k \in 1..Len(written'[p])
      PROVE  \/ k \in 1..Len(written[p]) /\ written'[p][k] = written[p][k]
             \/ p = j.to /\ k = Len(written[p]) + 1 /\ written'[p][k] = w
  <2>1. CASE p = j.to
    <3>1. k \in 1..(Len(written[p]) + 1)
      BY <1>2, <2>1 DEF Added
    <3>2. k \in 1..Len(written[p]) \/ k = Len(written[p]) + 1
      BY <1>1, <3>1
    <3>3. QED BY <2>1, <3>2 DEF Added
  <2>2. CASE p # j.to
    BY <1>2, <2>2 DEF Added
  <2>3. QED BY <2>1, <2>2
<1>3. ASSUME NEW p \in Peers, NEW k \in 1..Len(written[p])
      PROVE  k \in 1..Len(written'[p]) /\ written'[p][k] = written[p][k]
  <2>1. CASE p = j.to
    <3>1. Len(written'[p]) = Len(written[p]) + 1 /\ written'[p][k] = written[p][k]
      BY <2>1 DEF Added
    <3>2. QED BY <1>1, <3>1
  <2>2. CASE p # j.to
    BY <2>2 DEF Added
  <2>3. QED BY <2>1, <2>2
<1>4. w.dir = d /\ w.line = m
  BY DEF Added
<1>5. ASSUME NEW e \in Dirs, NEW n \in Nat, ~(e = d /\ n = m) PROVE WritesKept(e, n)
  <2>1. ~PutFor(w, e, n)
    BY <1>4, <1>5 DEF PutFor
  <2>2. ASSUME NEW p \in Peers, NEW k \in 1..Len(written'[p])
        PROVE  k \in 1..Len(written[p]) \/ ~PutFor(written'[p][k], e, n)
    BY <1>2, <2>1
  <2>3. QED BY <1>3, <2>2 DEF WritesKept
<1>6. Len(written[j.to]) + 1 \in 1..Len(written'[j.to])
  BY <1>1 DEF Added
<1>7. QED BY <1>2, <1>5, <1>6

\* The first entry of a line is all that was written of it.
LEMMA AddedIsAll ==
    ASSUME Types, NEW d \in Dirs, NEW m \in Nat, NEW j, NEW w, Added(d, m, j, w), NoWrites(d, m)
    PROVE  WritesAs(d, m, j)'
<1>1. ASSUME NEW p \in Peers, NEW k \in 1..Len(written'[p]), PutFor(written'[p][k], d, m)
      PROVE  p = j.to /\ k = Len(written[p]) + 1 /\ written'[p][k] = w
  <2>1. \/ k \in 1..Len(written[p]) /\ written'[p][k] = written[p][k]
        \/ p = j.to /\ k = Len(written[p]) + 1 /\ written'[p][k] = w
    BY AddedKeeps
  <2>2. QED BY <1>1, <2>1 DEF NoWrites
<1>2. j.texts = <<w.text>> /\ PutFor(w, d, m) /\ j.to \in Peers
  BY DEF Added, PutFor
<1>3. \A p \in Peers : \A k \in 1..Len(written'[p]) :
        PutFor(written'[p][k], d, m) => p = j.to /\ j.texts = <<written'[p][k].text>>
  BY <1>1, <1>2
<1>4. \A p \in Peers : \A k, l \in 1..Len(written'[p]) :
        PutFor(written'[p][k], d, m) /\ PutFor(written'[p][l], d, m) => k = l
  BY <1>1
<1>5. \E p \in Peers : \E k \in 1..Len(written'[p]) : PutFor(written'[p][k], d, m)
  <2>1. Len(written[j.to]) + 1 \in 1..Len(written'[j.to])
    BY AddedKeeps
  <2>2. written'[j.to][Len(written[j.to]) + 1] = w
    BY DEF Added
  <2>3. QED BY <1>2, <2>1, <2>2
<1>6. QED BY <1>3, <1>4, <1>5 DEF WritesAs, PutFor

LEMMA WriteKeeps == IInv /\ (\E d \in Dirs : Write(d)) => IInv'
<1>1. SUFFICES ASSUME IInv, NEW d \in Dirs, Write(d) PROVE IInv'
  OBVIOUS
<1>2. Types /\ Lines /\ InHand /\ InOrder /\ Locks /\ Closings /\ ClientOrder
  BY <1>1 DEF IInv
<1>3. PICK m, f, j : m = Len(read[d]) /\ f = read[d][m] /\ j = job[d]
  OBVIOUS
<1>4. /\ pc[d] = "write" /\ j.to # "none" /\ (j.to = "client" => lock = "free")
      /\ lock' = (IF j.to = "client" THEN d ELSE lock) /\ pc' = [pc EXCEPT ![d] = "drain"]
      /\ UNCHANGED <<read, job, closing, log, stop, main>>
  BY <1>1, <1>3 DEF Write, LockNeeded
<1>5. job[d] # NoJob
  BY <1>2, <1>4 DEF InHand, HandFits
<1>6. /\ m \in Nat \ {0} /\ f \in Line /\ Handled(d) = 1..(m - 1) /\ NoRows(d, m)
      /\ HandFits(d, m, f, j)
  BY <1>1, <1>3, <1>5, HandFacts
<1>7. Lawful(d, m, f, j) /\ NoWrites(d, m) /\ j # NoJob
  BY <1>3, <1>4, <1>5, <1>6 DEF HandFits
<1>8. \/ UNCHANGED written /\ (j.texts = <<>> \/ j.to \in closing)
      \/ \E w : Added(d, m, j, w)
  BY <1>1, <1>3, WriteFacts
<1>9. /\ pc'[d] = "drain" /\ job'[d] = j
      /\ pc' \in [Dirs -> {"read", "inspect", "write", "drain", "done"}]
      /\ \A e \in Dirs : e # d => read'[e] = read[e] /\ job'[e] = job[e] /\ pc'[e] = pc[e]
  BY <1>2, <1>3, <1>4 DEF Types
<1>10. \A e \in Dirs : \A n \in Nat : ~(e = d /\ n = m) => WritesKept(e, n)
  <2>1. CASE UNCHANGED written
    BY <2>1, SameWrites
  <2>2. CASE \E w : Added(d, m, j, w)
    BY <1>2, <1>6, <2>2, AddedKeeps
  <2>3. QED BY <1>8, <2>1, <2>2
<1>11. \A e, n : RowsKept(e, n)
  BY <1>4, SameRows
<1>12. Types'
  <2>1. written' \in [Peers -> Seq(Put)]
    BY <1>2, <1>8 DEF Types, Added
  <2>2. lock' \in Dirs \cup {"free"}
    BY <1>2, <1>4 DEF Types
  <2>3. QED BY <1>2, <1>4, <1>9, <2>1, <2>2 DEF Types
<1>13. WritesAs(d, m, j)'
  <2>1. CASE UNCHANGED written /\ (j.texts = <<>> \/ j.to \in closing)
    <3>1. NoWrites(d, m)'
      BY <1>7, <2>1 DEF NoWrites
    <3>2. j.texts # <<>> => d = "c2s" /\ j.to = "client" /\ "client" \in closing'
      <4>1. SUFFICES ASSUME j.texts # <<>> PROVE d = "c2s" /\ j.to = "client" /\ "client" \in closing
        BY <1>4
      <4>2. j.to \in closing
        BY <2>1, <4>1
      <4>3. j.to # Dst(d)
        BY <1>2, <1>4, <4>2 DEF Closings
      <4>4. QED BY <1>4, <1>7, <4>2, <4>3, DirNames DEF Lawful
    <3>3. QED BY <3>1, <3>2 DEF NoWrites, WritesAs
  <2>2. CASE \E w : Added(d, m, j, w)
    BY <1>2, <1>6, <1>7, <2>2, AddedIsAll
  <2>3. QED BY <1>8, <2>1, <2>2
<1>14. NoRows(d, m)'
  BY <1>6, <1>11, NoRowsStays
<1>15. HandFits(d, m, f, j)'
  BY <1>6, <1>7, <1>9, <1>13 DEF HandFits
<1>16. Lines' /\ InHand'
  <2>1. Len(read[d]) <= m /\ Len(read'[d]) = m
    BY <1>3, <1>4, <1>6
  <2>2. Handled(d)' = IF job'[d] = NoJob THEN 1..m ELSE 1..(m - 1)
    BY <1>3, <1>4, <1>7, <1>9 DEF Handled
  <2>3. \A g, i : g = read'[d][m] /\ i = job'[d] => HandFits(d, m, g, i)'
    BY <1>3, <1>4, <1>9, <1>15
  <2>4. job'[d] = NoJob => Settled(d, m)'
    BY <1>7, <1>9
  <2>5. closing \subseteq closing' /\ \A n \in 1..(m - 1) : read'[d][n] = read[d][n]
    BY <1>4
  <2>6. QED BY <1>1, <1>6, <1>9, <1>10, <1>11, <1>14, <2>1, <2>2, <2>3, <2>4, <2>5, OthersKeep
<1>17. InOrder'
  BY <1>2, <1>4 DEF InOrder
<1>18. Locks' /\ Closings'
  <2>1. \A e \in Dirs : e # "free"
    BY DirNames
  <2>2. Locks'
    BY <1>2, <1>3, <1>4, <1>9, <2>1 DEF Locks
  <2>3. Closings'
    BY <1>2, <1>4, <1>9 DEF Closings
  <2>4. QED BY <2>2, <2>3
<1>19. \A x \in Put : x.dir \in Dirs /\ (x.dir # d => (Pending(x)' <=> Pending(x)))
  BY <1>4, <1>9 DEF Pending, Put
<1>20. ASSUME NEW k \in 1..Len(written["client"]) PROVE ~PutFor(written["client"][k], d, m)
  BY <1>7, DirNames DEF NoWrites
<1>21. ClientOrder'
  <2>1. ASSUME NEW a \in 1..Len(written["client"]), NEW b \in 1..Len(written["client"]), a < b
        PROVE  /\ ~(pc'[written["client"][a].dir] = "drain"
                       /\ written["client"][a].line = Len(read'[written["client"][a].dir]))
               /\ RowsBefore(written["client"][a], written["client"][b])
    <3>1. PICK x, y : x = written["client"][a] /\ y = written["client"][b]
      OBVIOUS
    <3>2. ~Pending(x) /\ RowsBefore(x, y)
      BY <1>2, <2>1, <3>1 DEF ClientOrder
    <3>3. x \in Put
      BY <1>2, <3>1, TypeFacts, DirNames
    <3>4. x.dir \in Dirs
      BY <3>3 DEF Put
    <3>5. CASE x.dir = d
      <4>1. ~PutFor(x, d, m)
        BY <1>20, <3>1
      <4>2. x.line # m
        BY <3>5, <4>1 DEF PutFor
      <4>3. QED BY <1>3, <1>4, <3>1, <3>2, <3>5, <4>2
    <3>6. CASE x.dir # d
      BY <1>4, <1>9, <3>1, <3>2, <3>4, <3>6 DEF Pending
    <3>7. QED BY <3>5, <3>6
  <2>2. CASE UNCHANGED written
    BY <1>4, <2>1, <2>2 DEF ClientOrder, Pending, RowsBefore
  <2>3. CASE \E w : Added(d, m, j, w)
    <3>1. PICK w : Added(d, m, j, w)
      BY <2>3
    <3>2. CASE j.to # "client"
      <4>1. written'["client"] = written["client"]
        BY <3>1, <3>2, DirNames DEF Added
      <4>2. QED BY <1>4, <2>1, <4>1 DEF ClientOrder, Pending, RowsBefore
    <3>3. CASE j.to = "client"
      <4>1. PICK l \in Nat : l = Len(written["client"])
        BY <1>2, TypeFacts, DirNames
      <4>2. /\ Len(written'["client"]) = l + 1 /\ written'["client"][l + 1] = w
            /\ \A k \in 1..l : written'["client"][k] = written["client"][k]
        BY <3>1, <3>3, <4>1 DEF Added
      <4>3. w.dir = d /\ w.line = m
        BY <3>1 DEF Added
      <4>4. ASSUME NEW x, RowsBefore(x, w) = FALSE PROVE FALSE
        <5>1. \A k \in DOMAIN log :
                ~(log[k].dir = w.dir /\ log[k].line = w.line /\ log[k].member > 0)
          BY <1>2, <1>6, <4>3, TypeFacts DEF NoRows, RowFor
        <5>2. RowsBefore(x, w)
          BY <5>1 DEF RowsBefore
        <5>3. QED BY <4>4, <5>2
      <4>5. ASSUME NEW a \in 1..l
            PROVE  ~(pc'[written["client"][a].dir] = "drain"
                       /\ written["client"][a].line = Len(read'[written["client"][a].dir]))
        <5>1. PICK x : x = written["client"][a]
          OBVIOUS
        <5>2. x \in Put
          BY <1>2, <4>1, <5>1, TypeFacts, DirNames
        <5>3. x.dir \in Dirs
          BY <5>2 DEF Put
        <5>4. CASE x.dir = d
          <6>1. ~PutFor(x, d, m)
            BY <1>20, <4>1, <5>1
          <6>2. x.line # m
            BY <5>4, <6>1 DEF PutFor
          <6>3. QED BY <1>3, <1>4, <5>1, <5>4, <6>2
        <5>5. CASE x.dir # d
          <6>1. SUFFICES ASSUME pc[x.dir] = "drain", x.line = Len(read[x.dir]) PROVE FALSE
            BY <1>4, <1>9, <5>1, <5>3, <5>5
          <6>2. PICK e \in Dirs : e = x.dir
            BY <5>3
          <6>3. PICK n, g, i : n = Len(read[e]) /\ g = read[e][n] /\ i = job[e]
            OBVIOUS
          <6>4. HandFits(e, n, g, i)
            BY <1>2, <6>3 DEF InHand
          <6>5. WritesAs(e, n, i)
            BY <6>1, <6>2, <6>4 DEF HandFits
          <6>6. PutFor(x, e, n)
            BY <6>1, <6>2, <6>3 DEF PutFor
          <6>7. i.to = "client"
            BY <4>1, <5>1, <6>5, <6>6, DirNames DEF WritesAs
          <6>8. lock = e
            BY <1>2, <6>1, <6>2, <6>3, <6>7 DEF Locks
          <6>9. QED BY <1>4, <3>3, <6>8, DirNames
        <5>6. QED BY <5>4, <5>5
      <4>6. ASSUME NEW a \in 1..(l + 1), NEW b \in 1..(l + 1), a < b
            PROVE  /\ ~(pc'[written'["client"][a].dir] = "drain"
                           /\ written'["client"][a].line = Len(read'[written'["client"][a].dir]))
                   /\ RowsBefore(written'["client"][a], written'["client"][b])
        <5>1. a \in 1..l
          BY <4>6
        <5>2. written'["client"][a] = written["client"][a]
          BY <4>2, <5>1
        <5>3. RowsBefore(written'["client"][a], written'["client"][b])
          <6>1. CASE b = l + 1
            BY <4>2, <4>4, <6>1 DEF RowsBefore
          <6>2. CASE b # l + 1
            <7>1. b \in 1..l
              BY <4>6, <6>2
            <7>2. written'["client"][b] = written["client"][b]
              BY <4>2, <7>1
            <7>3. QED BY <2>1, <4>1, <4>6, <5>1, <5>2, <7>1, <7>2
          <6>3. QED BY <6>1, <6>2
        <5>4. QED BY <4>5, <5>1, <5>2, <5>3
      <4>7. QED BY <1>4, <4>2, <4>6 DEF ClientOrder, Pending, RowsBefore
    <3>4. QED BY <3>2, <3>3
  <2>4. QED BY <1>8, <2>2, <2>3
<1>22. QED BY <1>12, <1>16, <1>17, <1>18, <1>21 DEF IInv

\* The rows of a job at the end of the log.
LEMMA RecordedFacts ==
    ASSUME Types, NEW rows \in Seq(Row0), log' = log \o rows
    PROVE  /\ log' \in Seq(Row0)
           /\ \A k \in 1..Len(log) : k \in 1..Len(log') /\ log'[k] = log[k]
           /\ \A k \in 1..Len(log') :
                 \/ k \in 1..Len(log) /\ log'[k] = log[k]
                 \/ k > Len(log) /\ k - Len(log) \in 1..Len(rows) /\ log'[k] = rows[k - Len(log)]
           /\ \A i \in 1..Len(rows) :
                 Len(log) + i \in 1..Len(log') /\ log'[Len(log) + i] = rows[i]
<1>1. PICK l \in Seq(Row0) : l = log
  BY DEF Types
<1>2. /\ l \o rows \in Seq(Row0) /\ Len(l \o rows) = Len(l) + Len(rows)
      /\ \A i \in 1..(Len(l) + Len(rows)) :
            (l \o rows)[i] = IF i <= Len(l) THEN l[i] ELSE rows[i - Len(l)]
  BY ConcatProperties
<1>3. Len(l) \in Nat /\ Len(rows) \in Nat
  BY LenProperties
<1>4. PICK r : r = l \o rows
  OBVIOUS
<1>5. \A k \in 1..Len(l) : k \in 1..Len(r) /\ r[k] = l[k]
  BY <1>2, <1>3, <1>4
<1>6. \A k \in 1..Len(r) :
         \/ k \in 1..Len(l) /\ r[k] = l[k]
         \/ k > Len(l) /\ k - Len(l) \in 1..Len(rows) /\ r[k] = rows[k - Len(l)]
  BY <1>2, <1>3, <1>4
<1>7. \A i \in 1..Len(rows) : Len(l) + i \in 1..Len(r) /\ r[Len(l) + i] = rows[i]
  <2>1. ASSUME NEW i \in 1..Len(rows)
        PROVE  Len(l) + i \in 1..Len(r) /\ r[Len(l) + i] = rows[i]
    <3>1. Len(l) + i \in 1..Len(r) /\ ~(Len(l) + i <= Len(l)) /\ (Len(l) + i) - Len(l) = i
      BY <1>2, <1>3, <1>4, <2>1
    <3>2. QED BY <1>2, <1>4, <3>1
  <2>2. QED BY <2>1
<1>8. r \in Seq(Row0) /\ r = log'
  BY <1>1, <1>2, <1>4
<1>9. QED BY <1>1, <1>5, <1>6, <1>7, <1>8

\* The pump goes on: to the head of its loop, or to its end.
LEMMA ContinueFacts ==
    \A d \in Dirs : IInv /\ Continue(d) /\ pc[d] # "done" =>
        /\ pc' \in [Dirs -> {"read", "inspect", "write", "drain", "done"}]
        /\ pc'[d] \in {"read", "done"} /\ (\A e \in Dirs : e # d => pc'[e] = pc[e])
        /\ closing' \subseteq Peers /\ closing \subseteq closing'
        /\ lock' \in Dirs \cup {"free"} /\ Closings'
        /\ (\A e \in Dirs : e # d /\ lock = e => lock' = e)
        /\ DOMAIN job' = Dirs /\ job'[d] = NoJob /\ (\A e \in Dirs : e # d => job'[e] = job[e])
<1>1. SUFFICES ASSUME NEW d \in Dirs, IInv, Continue(d), pc[d] # "done" PROVE
        /\ pc' \in [Dirs -> {"read", "inspect", "write", "drain", "done"}]
        /\ pc'[d] \in {"read", "done"} /\ (\A e \in Dirs : e # d => pc'[e] = pc[e])
        /\ closing' \subseteq Peers /\ closing \subseteq closing'
        /\ lock' \in Dirs \cup {"free"} /\ Closings'
        /\ (\A e \in Dirs : e # d /\ lock = e => lock' = e)
        /\ DOMAIN job' = Dirs /\ job'[d] = NoJob /\ (\A e \in Dirs : e # d => job'[e] = job[e])
  OBVIOUS
<1>2. Types /\ Closings
  BY <1>1 DEF IInv
<1>3. DOMAIN job' = Dirs /\ job'[d] = NoJob /\ (\A e \in Dirs : e # d => job'[e] = job[e])
  BY <1>1, <1>2 DEF Continue, Types
<1>4. CASE stop
  <2>1. End(d)
    BY <1>1, <1>4 DEF Continue
  <2>2. QED BY <1>1, <1>3, <2>1, EndFacts
<1>5. CASE ~stop
  <2>1. /\ pc' = [pc EXCEPT ![d] = "read"]
        /\ lock' = (IF lock = d THEN "free" ELSE lock) /\ closing' = closing
    BY <1>1, <1>5 DEF Continue
  <2>2. /\ pc' \in [Dirs -> {"read", "inspect", "write", "drain", "done"}]
        /\ pc'[d] = "read" /\ (\A e \in Dirs : e # d => pc'[e] = pc[e])
    BY <1>2, <2>1 DEF Types
  <2>3. Closings'
    BY <1>1, <1>2, <2>1, <2>2 DEF Closings
  <2>4. QED BY <1>2, <1>3, <2>1, <2>2, <2>3 DEF Types
<1>6. QED BY <1>4, <1>5

LEMMA RecordKeeps == IInv /\ (\E d \in Dirs : RecordOnly(d) \/ Drained(d)) => IInv'
<1>1. SUFFICES ASSUME IInv, NEW d \in Dirs, RecordOnly(d) \/ Drained(d) PROVE IInv'
  OBVIOUS
<1>2. Types /\ Lines /\ InHand /\ InOrder /\ Locks /\ Closings /\ ClientOrder
  BY <1>1 DEF IInv
<1>3. PICK m, f, j : m = Len(read[d]) /\ f = read[d][m] /\ j = job[d]
  OBVIOUS
<1>4. /\ (pc[d] = "write" /\ j.to = "none") \/ pc[d] = "drain"
      /\ log' = log \o j.rows /\ Continue(d)
      /\ UNCHANGED <<read, written, stop, main>>
  BY <1>1, <1>3 DEF RecordOnly, Drained
<1>5. job[d] # NoJob
  BY <1>2, <1>4 DEF InHand, HandFits
<1>6. /\ m \in Nat \ {0} /\ f \in Line /\ Handled(d) = 1..(m - 1) /\ NoRows(d, m)
      /\ HandFits(d, m, f, j)
  BY <1>1, <1>3, <1>5, HandFacts
<1>7. Lawful(d, m, f, j)
  BY <1>4, <1>6 DEF HandFits
<1>8. WritesAs(d, m, j)
  <2>1. CASE pc[d] = "drain"
    BY <1>6, <2>1 DEF HandFits
  <2>2. CASE pc[d] = "write" /\ j.to = "none"
    <3>1. NoWrites(d, m)
      BY <1>6, <2>2 DEF HandFits
    <3>2. j.texts = <<>>
      BY <1>7, <2>2 DEF Lawful
    <3>3. QED BY <3>1, <3>2 DEF NoWrites, WritesAs
  <2>3. QED BY <1>4, <2>1, <2>2
<1>9. /\ pc' \in [Dirs -> {"read", "inspect", "write", "drain", "done"}]
      /\ pc'[d] \in {"read", "done"} /\ (\A e \in Dirs : e # d => pc'[e] = pc[e])
      /\ closing' \subseteq Peers /\ closing \subseteq closing'
      /\ lock' \in Dirs \cup {"free"} /\ Closings'
      /\ (\A e \in Dirs : e # d /\ lock = e => lock' = e)
      /\ DOMAIN job' = Dirs /\ job'[d] = NoJob /\ (\A e \in Dirs : e # d => job'[e] = job[e])
  BY <1>1, <1>4, ContinueFacts
<1>10. PICK rows \in Seq(Row0) : rows = j.rows
  BY <1>7 DEF Lawful, RowsLawful
<1>11. /\ log' \in Seq(Row0)
       /\ \A k \in 1..Len(log) : k \in 1..Len(log') /\ log'[k] = log[k]
       /\ \A k \in 1..Len(log') :
             \/ k \in 1..Len(log) /\ log'[k] = log[k]
             \/ k > Len(log) /\ k - Len(log) \in 1..Len(rows) /\ log'[k] = rows[k - Len(log)]
       /\ \A i \in 1..Len(rows) :
             Len(log) + i \in 1..Len(log') /\ log'[Len(log) + i] = rows[i]
  BY <1>2, <1>4, <1>10, RecordedFacts
<1>12. \A i \in 1..Len(rows) : rows[i].member > 0 =>
          rows[i].dir = d /\ rows[i].line = m /\ RowFor(rows[i], d, m)
  BY <1>7, <1>10 DEF Lawful, RowsLawful, RowFor
<1>13. Types'
  <2>1. NoJob.to = "none" /\ NoJob.rows = <<>>
    BY JobParts DEF NoJob
  <2>2. <<>> \in Seq(Row0)
    BY EmptySeq
  <2>3. \A e \in Dirs : job'[e].to \in Peers \cup {"none", "unknown"} /\ job'[e].rows \in Seq(Row0)
    BY <1>2, <1>9, <2>1, <2>2 DEF Types
  <2>4. QED BY <1>2, <1>4, <1>9, <1>11, <2>3 DEF Types
<1>14. \A e, n : WritesKept(e, n)
  BY <1>4, SameWrites
<1>15. ASSUME NEW e \in Dirs, NEW n \in Nat, ~(e = d /\ n = m) PROVE RowsKept(e, n)
  <2>1. ASSUME NEW k \in 1..Len(log') PROVE k \in 1..Len(log) \/ ~RowFor(log'[k], e, n)
    <3>1. CASE k - Len(log) \in 1..Len(rows) /\ log'[k] = rows[k - Len(log)]
      <4>1. PICK i \in 1..Len(rows) : log'[k] = rows[i]
        BY <3>1
      <4>2. QED BY <1>12, <1>15, <4>1 DEF RowFor
    <3>2. QED BY <1>11, <2>1, <3>1
  <2>2. QED BY <1>11, <2>1 DEF RowsKept
<1>16. Settled(d, m)'
  <2>1. RowsAs(d, m, j)'
    <3>1. ASSUME NEW k \in 1..Len(log'), RowFor(log'[k], d, m)
          PROVE  \E i \in 1..Len(j.rows) : log'[k] = j.rows[i]
      <4>1. CASE k \in 1..Len(log) /\ log'[k] = log[k]
        BY <1>6, <3>1, <4>1 DEF NoRows
      <4>2. CASE k - Len(log) \in 1..Len(rows) /\ log'[k] = rows[k - Len(log)]
        BY <1>10, <4>2
      <4>3. QED BY <1>11, <3>1, <4>1, <4>2
    <3>2. ASSUME NEW i \in 1..Len(j.rows) PROVE \E k \in 1..Len(log') : log'[k] = j.rows[i]
      <4>1. Len(log) + i \in 1..Len(log') /\ log'[Len(log) + i] = rows[i]
        BY <1>10, <1>11, <3>2
      <4>2. QED BY <1>10, <4>1
    <3>3. QED BY <3>1, <3>2 DEF RowsAs, RowFor
  <2>2. WritesAs(d, m, j)'
    BY <1>8, <1>9, <1>14, WritesAsStays
  <2>3. Lawful(d, m, read'[d][m], j)
    BY <1>3, <1>4, <1>7
  <2>4. QED BY <2>1, <2>2, <2>3 DEF Settled
<1>17. \A g, i : g = read'[d][m] /\ i = job'[d] => HandFits(d, m, g, i)'
  BY <1>9 DEF HandFits
<1>18. Lines' /\ InHand'
  <2>1. Len(read[d]) <= m /\ Len(read'[d]) = m
    BY <1>3, <1>4, <1>6
  <2>2. Handled(d)' = IF job'[d] = NoJob THEN 1..m ELSE 1..(m - 1)
    BY <1>3, <1>4, <1>9 DEF Handled
  <2>3. closing \subseteq closing' /\ \A n \in 1..(m - 1) : read'[d][n] = read[d][n]
    BY <1>4, <1>9
  <2>4. \A e \in Dirs : e # d => read'[e] = read[e] /\ job'[e] = job[e] /\ pc'[e] = pc[e]
    BY <1>4, <1>9
  <2>5. QED BY <1>1, <1>6, <1>9, <1>14, <1>15, <1>16, <1>17, <2>1, <2>2, <2>3, <2>4, OthersKeep
<1>19. InOrder'
  <2>1. ASSUME NEW a \in 1..Len(log'), NEW b \in 1..Len(log'), a < b,
               log'[a].dir = log'[b].dir, log'[a].member > 0, log'[b].member > 0
        PROVE  Before(log'[a], log'[b])
    <3>1. CASE a \in 1..Len(log) /\ b \in 1..Len(log)
      BY <1>2, <1>11, <2>1, <3>1 DEF InOrder
    <3>2. CASE a \in 1..Len(log) /\ b \notin 1..Len(log)
      <4>1. PICK i \in 1..Len(rows) : log'[b] = rows[i]
        BY <1>11, <2>1, <3>2
      <4>2. log'[b].dir = d /\ log'[b].line = m
        BY <1>12, <2>1, <4>1
      <4>3. log'[a] = log[a]
        BY <1>11, <3>2
      <4>4. PICK n \in Nat : n = log[a].line
        BY <1>2, <3>2, TypeFacts
      <4>5. ~NoRows(d, n)
        BY <2>1, <3>2, <4>2, <4>3, <4>4 DEF NoRows, RowFor
      <4>6. n \in 1..(m - 1)
        BY <1>2, <1>6, <4>4, <4>5 DEF Lines
      <4>7. log'[a].line < log'[b].line
        BY <1>6, <4>2, <4>3, <4>4, <4>6
      <4>8. QED BY <4>7 DEF Before
    <3>3. CASE a \notin 1..Len(log)
      <4>1. Len(log) \in Nat
        BY <1>2, TypeFacts
      <4>2. b \notin 1..Len(log)
        BY <2>1, <3>3, <4>1
      <4>3. PICK i \in 1..Len(rows) : i = a - Len(log) /\ log'[a] = rows[i]
        BY <1>11, <2>1, <3>3
      <4>4. PICK l \in 1..Len(rows) : l = b - Len(log) /\ log'[b] = rows[l]
        BY <1>11, <2>1, <4>2
      <4>5. i < l
        BY <2>1, <4>1, <4>3, <4>4
      <4>6. rows[i].member < rows[l].member
        BY <1>7, <1>10, <2>1, <4>3, <4>4, <4>5 DEF Lawful, RowsLawful
      <4>7. rows[i].line = rows[l].line
        BY <1>12, <2>1, <4>3, <4>4
      <4>8. QED BY <4>3, <4>4, <4>6, <4>7 DEF Before
    <3>4. QED BY <3>1, <3>2, <3>3
  <2>2. QED BY <2>1 DEF InOrder, Before
<1>20. Locks'
  BY <1>2, <1>9 DEF Locks
<1>21. ClientOrder'
  <2>1. DOMAIN log = 1..Len(log) /\ DOMAIN log' = 1..Len(log')
    <3>1. PICK r \in Seq(Row0) : r = log'
      BY <1>11
    <3>2. DOMAIN r = 1..Len(r)
      BY LenProperties
    <3>3. QED BY <1>2, <3>1, <3>2, TypeFacts
  <2>2. ASSUME NEW a \in 1..Len(written["client"]), NEW b \in 1..Len(written["client"]), a < b
        PROVE  /\ ~(pc'[written["client"][a].dir] = "drain"
                       /\ written["client"][a].line = Len(read'[written["client"][a].dir]))
               /\ \A i, k \in DOMAIN log' :
                    /\ log'[i].dir = written["client"][a].dir /\ log'[i].line = written["client"][a].line /\ log'[i].member > 0
                    /\ log'[k].dir = written["client"][b].dir /\ log'[k].line = written["client"][b].line /\ log'[k].member > 0
                    => i < k
    <3>1. PICK x, y : x = written["client"][a] /\ y = written["client"][b]
      OBVIOUS
    <3>2. ~Pending(x) /\ RowsBefore(x, y)
      BY <1>2, <2>2, <3>1 DEF ClientOrder
    <3>3. x \in Put
      BY <1>2, <2>2, <3>1, TypeFacts, DirNames
    <3>4. x.dir \in Dirs
      BY <3>3 DEF Put
    <3>5. ~(pc'[x.dir] = "drain" /\ x.line = Len(read'[x.dir]))
      BY <1>4, <1>9, <3>2, <3>4 DEF Pending
    <3>6. ~PutFor(x, d, m)
      <4>1. SUFFICES ASSUME PutFor(x, d, m) PROVE FALSE
        OBVIOUS
      <4>2. CASE pc[d] = "drain"
        BY <1>3, <3>2, <4>1, <4>2 DEF Pending, PutFor
      <4>3. CASE pc[d] = "write"
        <5>1. NoWrites(d, m)
          BY <1>6, <4>3 DEF HandFits
        <5>2. QED BY <2>2, <3>1, <4>1, <5>1, DirNames DEF NoWrites
      <4>4. QED BY <1>4, <4>2, <4>3
    <3>7. ASSUME NEW i \in DOMAIN log', NEW k \in DOMAIN log',
                 log'[i].dir = x.dir /\ log'[i].line = x.line /\ log'[i].member > 0,
                 log'[k].dir = y.dir /\ log'[k].line = y.line /\ log'[k].member > 0
          PROVE  i < k
      <4>1. i \in 1..Len(log)
        <5>1. SUFFICES ASSUME i \notin 1..Len(log) PROVE FALSE
          OBVIOUS
        <5>2. PICK l \in 1..Len(rows) : log'[i] = rows[l]
          BY <1>11, <2>1, <3>7, <5>1
        <5>3. log'[i].dir = d /\ log'[i].line = m
          BY <1>12, <3>7, <5>2
        <5>4. QED BY <3>6, <3>7, <5>3 DEF PutFor
      <4>2. CASE k \in 1..Len(log)
        <5>1. log'[i] = log[i] /\ log'[k] = log[k]
          BY <1>11, <4>1, <4>2
        <5>2. QED BY <2>1, <3>2, <3>7, <4>1, <4>2, <5>1 DEF RowsBefore
      <4>3. CASE k \notin 1..Len(log)
        <5>1. Len(log) \in Nat
          BY <1>2, TypeFacts
        <5>2. k \in 1..Len(log') /\ k > Len(log)
          BY <1>11, <2>1, <3>7, <4>3
        <5>3. QED BY <4>1, <5>1, <5>2
      <4>4. QED BY <4>2, <4>3
    <3>8. QED BY <3>1, <3>5, <3>7
  <2>3. written' = written
    BY <1>4
  <2>4. ASSUME NEW a \in 1..Len(written'["client"]), NEW b \in 1..Len(written'["client"]), a < b
        PROVE  ~Pending(written["client"][a])' /\ RowsBefore(written["client"][a], written["client"][b])'
    <3>1. a \in 1..Len(written["client"]) /\ b \in 1..Len(written["client"])
      BY <2>3, <2>4
    <3>2. ~Pending(written["client"][a])'
      BY <2>2, <2>3, <2>4, <3>1 DEF Pending
    <3>3. RowsBefore(written["client"][a], written["client"][b])'
      BY <2>2, <2>3, <2>4, <3>1 DEF RowsBefore
    <3>4. QED BY <3>2, <3>3
  <2>5. QED BY <2>4 DEF ClientOrder
<1>22. QED BY <1>9, <1>13, <1>18, <1>19, <1>20, <1>21 DEF IInv

LEMMA Invariance == Init /\ [][Next]_vars => []IInv
<1>1. Init => IInv
  BY InitHolds
<1>2. IInv /\ [Next]_vars => IInv'
  <2>1. SUFFICES ASSUME IInv, [Next]_vars PROVE IInv'
    OBVIOUS
  <2>2. ASSUME NEW d \in Dirs, Pump(d) PROVE IInv'
    BY <2>1, <2>2, ReadLineKeeps, EndingKeeps, InspectKeeps, WriteKeeps, RecordKeeps DEF Pump
  <2>3. CASE Main \/ ServerLets \/ Signal \/ UNCHANGED vars
    BY <2>1, <2>3, MainKeeps
  <2>4. CASE Over
    BY <2>1, <2>4, MainKeeps DEF Over
  <2>5. QED BY <2>1, <2>2, <2>3, <2>4 DEF Next
<1>3. QED BY <1>1, <1>2, PTL

\* Rows are only ever added to the log.
LEMMA LogGrows == IInv /\ [Next]_vars => Len(log) \in Nat /\ Len(log') \in Nat /\ Len(log) <= Len(log')
<1>1. SUFFICES ASSUME IInv, [Next]_vars
               PROVE  Len(log) \in Nat /\ Len(log') \in Nat /\ Len(log) <= Len(log')
  OBVIOUS
<1>2. Types
  BY <1>1 DEF IInv
<1>3. PICK s \in Seq(Row0) : s = log
  BY <1>2 DEF Types
<1>4. Len(s) \in Nat
  BY LenProperties
<1>5. ASSUME NEW d \in Dirs, NEW f, ReadLine(d, f) PROVE Len(log') \in Nat /\ Len(s) <= Len(log')
  <2>1. log' = log \/ log' = Append(log, RawRow(d, Len(read[d]) + 1))
    BY <1>5 DEF ReadLine
  <2>2. ASSUME NEW r PROVE Len(Append(s, r)) = Len(s) + 1
    <3>1. s \in Seq(Row0 \cup {r})
      BY SeqMonotonic
    <3>2. QED BY <3>1, AppendProperties
  <2>3. QED BY <1>3, <1>4, <2>1, <2>2
<1>6. ASSUME NEW d \in Dirs, RecordOnly(d) \/ Drained(d) PROVE Len(log') \in Nat /\ Len(s) <= Len(log')
  <2>1. PICK t \in Seq(Row0) : t = job[d].rows
    BY <1>2 DEF Types
  <2>2. log' = s \o t
    BY <1>3, <1>6, <2>1 DEF RecordOnly, Drained
  <2>3. Len(s \o t) = Len(s) + Len(t) /\ Len(t) \in Nat
    BY ConcatProperties, LenProperties
  <2>4. QED BY <1>4, <2>2, <2>3
<1>7. CASE UNCHANGED log
  BY <1>3, <1>4, <1>7
<1>8. ASSUME NEW d \in Dirs, EndOfFile(d) \/ Inspect(d) \/ Write(d) \/ DrainFailed(d) PROVE UNCHANGED log
  BY <1>8 DEF EndOfFile, Inspect, Write, DrainFailed
<1>9. ASSUME Main \/ ServerLets \/ Signal \/ Over \/ UNCHANGED vars PROVE UNCHANGED log
  BY <1>9 DEF Main, Stopped, ClientEnded, DrainOver, ServerEnded, ServerLets, Aclosed, Reaped,
              Signal, Over, vars
<1>10. ASSUME NEW d \in Dirs, Pump(d) PROVE Len(log') \in Nat /\ Len(s) <= Len(log')
  BY <1>3, <1>5, <1>6, <1>7, <1>8, <1>10 DEF Pump
<1>11. QED BY <1>1, <1>3, <1>4, <1>7, <1>9, <1>10 DEF Next

-----------------------------------------------------------------------------
(* What the invariant says of one line, and of one text that was written.   *)

\* A line with its members: their numbers, and that it is handled or in hand.
LEMMA LineFacts ==
    ASSUME Types, NEW d \in Dirs
    PROVE  /\ Handled(d) \subseteq 1..Len(read[d]) /\ Handled(d) \subseteq Nat
           /\ DOMAIN read[d] = 1..Len(read[d])
           /\ \A n \in 1..Len(read[d]) :
                 n \in Nat /\ DOMAIN read[d][n].members = 1..Len(read[d][n].members)
           /\ \A n \in 1..Len(read[d]) : n \notin Handled(d) => n = Len(read[d]) /\ job[d] # NoJob
<1>1. PICK m \in Nat : m = Len(read[d])
  BY TypeFacts
<1>2. Handled(d) \subseteq 1..m /\ Handled(d) \subseteq Nat
  BY <1>1 DEF Handled
<1>3. ASSUME NEW n \in 1..m, n \notin Handled(d) PROVE n = m /\ job[d] # NoJob
  BY <1>1, <1>3, HandledIs
<1>4. DOMAIN read[d] = 1..m /\ \A n \in 1..m : n \in Nat /\ read[d][n] \in Line
  BY <1>1, TypeFacts
<1>5. \A n \in 1..m : DOMAIN read[d][n].members = 1..Len(read[d][n].members)
  BY <1>4, FrameFacts
<1>6. QED BY <1>1, <1>2, <1>3, <1>4, <1>5

\* Every text that was written is what a lawful job says of a line that was read.
LEMMA EntryFacts ==
    ASSUME IInv, NEW p \in Peers, NEW k \in 1..Len(written[p]), NEW d, NEW n,
           d = written[p][k].dir, n = written[p][k].line
    PROVE  /\ d \in Dirs /\ n \in 1..Len(read[d])
           /\ \E j : /\ Lawful(d, n, read[d][n], j) /\ WritesAs(d, n, j)
                     /\ RowsAs(d, n, j) \/ NoRows(d, n)
<1>1. Types /\ Lines /\ InHand
  BY DEF IInv
<1>2. d \in Dirs /\ n \in Nat
  <2>1. written[p][k] \in Put
    BY <1>1, TypeFacts
  <2>2. QED BY <2>1 DEF Put
<1>3. ~NoWrites(d, n)
  BY DEF NoWrites, PutFor
<1>4. n \in 1..Len(read[d])
  <2>1. Len(read[d]) \in Nat
    BY <1>1, <1>2, TypeFacts
  <2>2. ~(n = 0 \/ n > Len(read[d]))
    BY <1>1, <1>2, <1>3 DEF Lines
  <2>3. QED BY <1>2, <2>1, <2>2
<1>5. CASE n \in Handled(d)
  BY <1>1, <1>2, <1>5, <1>4 DEF Lines, Settled
<1>6. CASE n \notin Handled(d)
  <2>1. n = Len(read[d]) /\ job[d] # NoJob
    BY <1>1, <1>2, <1>4, <1>6, LineFacts
  <2>2. PICK f, j : f = read[d][n] /\ j = job[d]
    OBVIOUS
  <2>3. HandFits(d, n, f, j)
    BY <1>1, <1>2, <2>1, <2>2 DEF InHand
  <2>4. Lawful(d, n, f, j) /\ WritesAs(d, n, j)
    BY <1>3, <2>1, <2>2, <2>3 DEF HandFits
  <2>5. NoRows(d, n)
    BY <1>1, <1>2, <1>6 DEF Lines
  <2>6. QED BY <1>2, <1>4, <2>2, <2>4, <2>5
<1>7. QED BY <1>2, <1>4, <1>5, <1>6

LEMMA TextFacts ==
    ASSUME NEW d, NEW n, NEW f, NEW j, NEW p \in Peers, NEW k \in 1..Len(written[p]),
           Lawful(d, n, f, j), WritesAs(d, n, j), PutFor(written[p][k], d, n)
    PROVE  /\ p = j.to /\ written[p][k].text \in Texts
           /\ PartsLawful(d, f, written[p][k].text.parts, j.rows)
           /\ Awaited(d, f) \subseteq DOMAIN written[p][k].text.parts
<1>1. p = j.to /\ j.texts = <<written[p][k].text>>
  BY DEF WritesAs
<1>2. PICK u : u = written[p][k].text
  OBVIOUS
<1>3. <<u>> # <<>> /\ <<u>>[1] = u
  OBVIOUS
<1>4. PICK t \in Texts : /\ j.texts = <<t>> /\ PartsLawful(d, f, t.parts, j.rows)
                         /\ Awaited(d, f) \subseteq DOMAIN t.parts
  BY <1>1, <1>2, <1>3 DEF Lawful
<1>5. <<t>>[1] = t
  OBVIOUS
<1>6. t = u
  BY <1>1, <1>2, <1>3, <1>4, <1>5
<1>7. QED BY <1>1, <1>2, <1>4, <1>6

-----------------------------------------------------------------------------
(* The theorems.                                                            *)

LEMMA TypesHold == IInv => TypeOK
<1>1. SUFFICES ASSUME IInv PROVE TypeOK
  OBVIOUS
<1>2. Types
  BY <1>1 DEF IInv
<1>3. ASSUME NEW p \in Peers, NEW k \in DOMAIN written[p], NEW w, w = written[p][k]
      PROVE  /\ w.dir \in Dirs /\ w.line \in 1..Len(read[w.dir])
             /\ \E given \in SUBSET DOMAIN read[w.dir][w.line].members : w.text.parts \in [given -> Answers]
  <2>1. k \in 1..Len(written[p])
    BY <1>2, <1>3, TypeFacts
  <2>2. PICK d, n : d = w.dir /\ n = w.line
    OBVIOUS
  <2>3. d \in Dirs /\ n \in 1..Len(read[d])
    BY <1>1, <1>3, <2>1, <2>2, EntryFacts
  <2>4. PICK f, j : f = read[d][n] /\ Lawful(d, n, f, j) /\ WritesAs(d, n, j)
    BY <1>1, <1>3, <2>1, <2>2, EntryFacts
  <2>5. PutFor(w, d, n)
    BY <2>2 DEF PutFor
  <2>6. w.text \in Texts /\ PartsLawful(d, f, w.text.parts, j.rows)
    BY <1>3, <2>1, <2>4, <2>5, TextFacts
  <2>7. DOMAIN f.members = 1..Len(f.members)
    BY <1>2, <2>3, <2>4, LineFacts
  <2>8. DOMAIN w.text.parts \subseteq DOMAIN f.members
    BY <2>6, <2>7 DEF PartsLawful
  <2>9. w.text.parts \in [DOMAIN w.text.parts -> Answers]
    BY <2>6 DEF Texts, PartSet
  <2>10. QED BY <2>2, <2>3, <2>4, <2>8, <2>9
<1>4. QED BY <1>2, <1>3 DEF Types, TypeOK

\* The pumps, the lock, the writers and the log stay well-formed: nothing is written
\* for a line that was not read or a member that line does not have.
THEOREM TypeCorrect == Spec => []TypeOK
BY TypesHold, Invariance, PTL DEF Spec

LEMMA NothingBlockedPasses == IInv => BlockedNotDelivered
<1>1. SUFFICES ASSUME IInv, NEW d \in Dirs, NEW k \in DOMAIN written[Dst(d)],
                      NEW w, w = written[Dst(d)][k], NEW i \in DOMAIN w.text.parts,
                      w.dir = d, w.text.parts[i] = "verbatim"
               PROVE  /\ ~(d = "c2s" /\ NotAllowed(read[d][w.line].members[i]))
                      /\ \A l \in DOMAIN log : log[l].dir = d /\ log[l].line = w.line /\ log[l].member = i
                            => log[l].verdict # "BLOCK"
  BY DEF BlockedNotDelivered
<1>2. Types
  BY <1>1 DEF IInv
<1>3. PICK p \in Peers : p = Dst(d)
  BY DirNames
<1>4. k \in 1..Len(written[p]) /\ w = written[p][k]
  BY <1>1, <1>2, <1>3, TypeFacts
<1>5. PICK n : n = w.line
  OBVIOUS
<1>6. PICK f, j : /\ f = read[d][n] /\ Lawful(d, n, f, j) /\ WritesAs(d, n, j)
                  /\ RowsAs(d, n, j) \/ NoRows(d, n)
  BY <1>1, <1>4, <1>5, EntryFacts
<1>7. PutFor(w, d, n)
  BY <1>1, <1>5 DEF PutFor
<1>8. PartsLawful(d, f, w.text.parts, j.rows)
  BY <1>4, <1>6, <1>7, TextFacts
<1>9. ~(d = "c2s" /\ NotAllowed(f.members[i])) /\ i \in 1..Len(f.members)
  BY <1>1, <1>8 DEF PartsLawful
<1>10. ASSUME NEW l \in DOMAIN log, log[l].dir = d /\ log[l].line = n /\ log[l].member = i
       PROVE  log[l].verdict # "BLOCK"
  <2>1. l \in 1..Len(log) /\ RowFor(log[l], d, n)
    BY <1>2, <1>9, <1>10, TypeFacts DEF RowFor
  <2>2. PICK m \in 1..Len(j.rows) : log[l] = j.rows[m]
    BY <1>6, <2>1 DEF RowsAs, NoRows
  <2>3. QED BY <1>1, <1>8, <1>10, <2>2 DEF PartsLawful
<1>11. QED BY <1>5, <1>6, <1>9, <1>10

\* No message the log calls blocked, and no call outside the allowlist, is ever
\* handed to the peer it was sent to, whatever batch it came in.
THEOREM BlockedStays == Spec => []BlockedNotDelivered
BY NothingBlockedPasses, Invariance, PTL DEF Spec

LEMMA FailOpenHasARow == IInv => FailOpenIsAudited
<1>1. SUFFICES ASSUME IInv, NEW d \in Dirs, NEW n \in Handled(d),
                      NEW i \in DOMAIN read[d][n].members, Detector, read[d][n].members[i].threat,
                      NEW k \in Got(Dst(d), d, n, i), written[Dst(d)][k].text.parts[i] = "verbatim"
               PROVE  \E l \in DOMAIN log : log[l] = Row(d, n, i, "WARN")
  BY DEF FailOpenIsAudited
<1>2. Types /\ Lines
  BY <1>1 DEF IInv
<1>3. PICK p \in Peers : p = Dst(d)
  BY DirNames
<1>4. k \in 1..Len(written[p]) /\ PutFor(written[p][k], d, n) /\ i \in DOMAIN written[p][k].text.parts
  BY <1>1, <1>2, <1>3, TypeFacts DEF Got, PutFor
<1>5. PICK f, j : f = read[d][n] /\ Lawful(d, n, f, j) /\ WritesAs(d, n, j) /\ RowsAs(d, n, j)
  <2>1. n \in Nat
    BY <1>2, LineFacts
  <2>2. QED BY <1>1, <1>2, <2>1 DEF Lines, Settled
<1>6. PartsLawful(d, f, written[p][k].text.parts, j.rows)
  BY <1>4, <1>5, TextFacts
<1>7. i \in 1..Len(f.members)
  BY <1>4, <1>6 DEF PartsLawful
<1>8. PICK m \in 1..Len(j.rows) : j.rows[m].member = i
  BY <1>5, <1>7 DEF Lawful, RowsLawful
<1>9. PICK r : r = j.rows[m]
  OBVIOUS
<1>10. r.verdict = "WARN"
  BY <1>1, <1>3, <1>4, <1>5, <1>6, <1>8, <1>9 DEF PartsLawful
<1>11. r.member > 0 /\ r.dir = d /\ r.line = n
  BY <1>5, <1>7, <1>8, <1>9 DEF Lawful, RowsLawful
<1>12. r \in Row0
  <2>1. PICK rows \in Seq(Row0) : rows = j.rows
    BY <1>5 DEF Lawful, RowsLawful
  <2>2. QED BY <1>8, <1>9, <2>1, ElementOfSeq
<1>13. r = Row(d, n, i, "WARN")
  BY <1>8, <1>9, <1>10, <1>11, <1>12 DEF Row, Row0
<1>14. PICK l \in 1..Len(log) : log[l] = r
  BY <1>5, <1>8, <1>9, <1>11 DEF RowsAs
<1>15. QED BY <1>2, <1>13, <1>14, TypeFacts

\* A message the policy would block and the relay let through all the same, the
\* inspection having been aborted, has an audit row that says WARN.
THEOREM FailOpenRecorded == Spec => []FailOpenIsAudited
BY FailOpenHasARow, Invariance, PTL DEF Spec

LEMMA RowsCoverLines == IInv => AuditComplete
<1>1. SUFFICES ASSUME IInv, NEW d \in Dirs, NEW rows, rows = {k \in DOMAIN log : log[k].dir = d /\ log[k].member > 0}
               PROVE  /\ \A j, k \in rows : j < k => Before(log[j], log[k])
                      /\ {<<log[k].line, log[k].member>> : k \in rows}
                            = UNION {{n} \X DOMAIN read[d][n].members : n \in Handled(d)}
  BY DEF AuditComplete
<1>2. Types /\ Lines /\ InOrder
  BY <1>1 DEF IInv
<1>3. rows = {k \in 1..Len(log) : log[k].dir = d /\ log[k].member > 0}
  BY <1>1, <1>2, TypeFacts
<1>4. \A j, k \in rows : j < k => Before(log[j], log[k])
  BY <1>2, <1>3 DEF InOrder
<1>5. ASSUME NEW k \in rows
      PROVE  log[k].line \in Handled(d) /\ log[k].member \in DOMAIN read[d][log[k].line].members
  <2>1. PICK n \in Nat : n = log[k].line
    BY <1>2, <1>3, <1>5, TypeFacts
  <2>2. RowFor(log[k], d, n)
    BY <1>3, <1>5, <2>1 DEF RowFor
  <2>3. n \in Handled(d)
    BY <1>2, <1>3, <1>5, <2>1, <2>2 DEF Lines, NoRows
  <2>4. PICK f, j : f = read[d][n] /\ Lawful(d, n, f, j) /\ RowsAs(d, n, j)
    BY <1>2, <2>3 DEF Lines, Settled
  <2>5. PICK m \in 1..Len(j.rows) : log[k] = j.rows[m]
    BY <1>3, <1>5, <2>2, <2>4 DEF RowsAs
  <2>6. log[k].member \in 1..Len(f.members)
    BY <1>3, <1>5, <2>4, <2>5 DEF Lawful, RowsLawful
  <2>7. QED BY <1>2, <2>1, <2>3, <2>4, <2>6, LineFacts
<1>6. ASSUME NEW n \in Handled(d), NEW i \in DOMAIN read[d][n].members
      PROVE  \E k \in rows : log[k].line = n /\ log[k].member = i
  <2>1. PICK f, j : f = read[d][n] /\ Lawful(d, n, f, j) /\ RowsAs(d, n, j)
    <3>1. n \in Nat
      BY <1>2, LineFacts
    <3>2. QED BY <1>2, <3>1 DEF Lines, Settled
  <2>2. i \in 1..Len(f.members)
    BY <1>2, <1>6, <2>1, LineFacts
  <2>3. PICK m \in 1..Len(j.rows) : j.rows[m].member = i
    BY <2>1, <2>2 DEF Lawful, RowsLawful
  <2>4. j.rows[m].dir = d /\ j.rows[m].line = n
    BY <2>1, <2>2, <2>3 DEF Lawful, RowsLawful
  <2>5. PICK k \in 1..Len(log) : log[k] = j.rows[m]
    BY <2>1, <2>2, <2>3 DEF RowsAs
  <2>6. QED BY <1>3, <2>2, <2>3, <2>4, <2>5
<1>7. {<<log[k].line, log[k].member>> : k \in rows}
        = UNION {{n} \X DOMAIN read[d][n].members : n \in Handled(d)}
  BY <1>5, <1>6
<1>8. QED BY <1>4, <1>7

\* The audit rows of a direction name every member of every handled line, none
\* twice and none that was not read, in the order of the lines.
THEOREM RowsComplete == Spec => []AuditComplete
BY RowsCoverLines, Invariance, PTL DEF Spec

LEMMA LogHasClientOrder == IInv => LogOrderIsClientOrder
BY TypeFacts, DirNames DEF IInv, ClientOrder, LogOrderIsClientOrder

\* The client got what both pumps wrote to it in the order in which the log has the
\* rows of it, the lock being held over drain().
THEOREM LogFollowsClient == Spec => []LogOrderIsClientOrder
BY LogHasClientOrder, Invariance, PTL DEF Spec

\* A message is handed to at most one peer, at most once.
LEMMA GotFacts ==
    ASSUME IInv, NEW d \in Dirs, NEW n \in Handled(d), NEW i \in DOMAIN read[d][n].members
    PROVE  \E j : /\ Lawful(d, n, read[d][n], j)
                  /\ \A p \in Peers :
                        /\ Cardinality(Got(p, d, n, i)) \in {0, 1}
                        /\ p # j.to => Cardinality(Got(p, d, n, i)) = 0
                  /\ i \in Awaited(d, read[d][n]) =>
                        \/ \E p \in Peers : Cardinality(Got(p, d, n, i)) = 1
                        \/ d = "c2s" /\ "client" \in closing
<1>1. Types /\ Lines /\ n \in Nat
  BY LineFacts DEF IInv
<1>2. PICK f, j : f = read[d][n] /\ Lawful(d, n, f, j) /\ WritesAs(d, n, j)
  BY <1>1 DEF Lines, Settled
<1>3. \A p \in Peers : DOMAIN written[p] = 1..Len(written[p])
  BY <1>1, TypeFacts
<1>4. \A p \in Peers : \A k \in Got(p, d, n, i) : k \in 1..Len(written[p]) /\ PutFor(written[p][k], d, n)
  BY <1>3 DEF Got, PutFor
<1>5. ASSUME NEW p \in Peers
      PROVE  /\ Got(p, d, n, i) = {} \/ \E k : Got(p, d, n, i) = {k}
             /\ p # j.to => Got(p, d, n, i) = {}
  <2>1. \A k, l \in Got(p, d, n, i) : k = l
    BY <1>2, <1>4 DEF WritesAs
  <2>2. \A k \in Got(p, d, n, i) : p = j.to
    BY <1>2, <1>4 DEF WritesAs
  <2>3. QED BY <2>1, <2>2
<1>6. \A p \in Peers : /\ Cardinality(Got(p, d, n, i)) \in {0, 1}
                       /\ p # j.to => Cardinality(Got(p, d, n, i)) = 0
                       /\ Got(p, d, n, i) # {} => Cardinality(Got(p, d, n, i)) = 1
  BY <1>5, FS_EmptySet, FS_Singleton
<1>7. ASSUME i \in Awaited(d, f)
      PROVE  \/ \E p \in Peers : Cardinality(Got(p, d, n, i)) = 1
             \/ d = "c2s" /\ "client" \in closing
  <2>1. j.texts # <<>>
    <3>1. \A t : <<t>> # <<>>
      OBVIOUS
    <3>2. QED BY <1>2, <1>7, <3>1 DEF Lawful
  <2>2. CASE \E p \in Peers : \E k \in 1..Len(written[p]) : PutFor(written[p][k], d, n)
    <3>1. PICK p \in Peers : \E k \in 1..Len(written[p]) : PutFor(written[p][k], d, n)
      BY <2>2
    <3>2. PICK k \in 1..Len(written[p]) : PutFor(written[p][k], d, n)
      BY <3>1
    <3>3. i \in DOMAIN written[p][k].text.parts
      BY <1>2, <1>7, <3>2, TextFacts
    <3>4. k \in Got(p, d, n, i)
      BY <1>3, <3>2, <3>3 DEF Got, PutFor
    <3>5. QED BY <1>6, <3>1, <3>4
  <2>3. QED BY <1>2, <2>1, <2>2 DEF WritesAs
<1>8. /\ Lawful(d, n, read[d][n], j)
      /\ \A p \in Peers : /\ Cardinality(Got(p, d, n, i)) \in {0, 1}
                          /\ p # j.to => Cardinality(Got(p, d, n, i)) = 0
      /\ i \in Awaited(d, read[d][n]) =>
            \/ \E p \in Peers : Cardinality(Got(p, d, n, i)) = 1
            \/ d = "c2s" /\ "client" \in closing
  <2>1. read[d][n] = f
    BY <1>2
  <2>2. QED BY <1>2, <1>6, <1>7, <2>1
<1>9. QED BY <1>8

LEMMA OnceEach == IInv => EachMessageOnce
<1>1. SUFFICES ASSUME IInv PROVE EachMessageOnce
  OBVIOUS
<1>2. Types
  BY <1>1 DEF IInv
<1>3. ASSUME NEW n \in Handled("c2s"), NEW i \in DOMAIN read["c2s"][n].members
      PROVE  LET got == Cardinality(Got("server", "c2s", n, i)) + Cardinality(Got("client", "c2s", n, i))
             IN /\ got <= 1
                /\ MustBeAnswered(read["c2s"][n].members[i]) /\ "client" \notin closing => got = 1
  <2>1. PICK a, b : a = Cardinality(Got("server", "c2s", n, i)) /\ b = Cardinality(Got("client", "c2s", n, i))
    OBVIOUS
  <2>2. PICK d \in Dirs : d = "c2s"
    BY DirNames
  <2>3. /\ a \in {0, 1} /\ b \in {0, 1} /\ (a = 0 \/ b = 0)
        /\ i \in Awaited("c2s", read["c2s"][n]) => a = 1 \/ b = 1 \/ "client" \in closing
    BY <1>1, <1>3, <2>1, <2>2, GotFacts, DirNames
  <2>4. MustBeAnswered(read["c2s"][n].members[i]) => i \in Awaited("c2s", read["c2s"][n])
    BY <1>2, <1>3, <2>2, LineFacts DEF Awaited
  <2>5. QED BY <2>1, <2>3, <2>4
<1>4. ASSUME NEW n \in Handled("s2c"), NEW i \in DOMAIN read["s2c"][n].members
      PROVE  Cardinality(Got("client", "s2c", n, i)) = 1
  <2>1. PICK d \in Dirs : d = "s2c"
    BY DirNames
  <2>2. i \in Awaited(d, read[d][n])
    BY <1>2, <1>4, <2>1, LineFacts DEF Awaited
  <2>3. PICK j : /\ Lawful(d, n, read[d][n], j)
                 /\ \A p \in Peers : p # j.to => Cardinality(Got(p, d, n, i)) = 0
                 /\ \E p \in Peers : Cardinality(Got(p, d, n, i)) = 1
    BY <1>1, <1>4, <2>1, <2>2, GotFacts
  <2>4. j.to = "client"
    BY <2>1, <2>3 DEF Lawful
  <2>5. QED BY <2>1, <2>3, <2>4
<1>5. QED BY <1>3, <1>4 DEF EachMessageOnce

\* Forwarded or answered by the relay, exactly once: nothing the client asks is lost
\* or done twice while the client can be written to, and every message of the
\* server reaches the client.
THEOREM OncePerMessage == Spec => []EachMessageOnce
BY OnceEach, Invariance, PTL DEF Spec
=============================================================================
