-------------------------- MODULE InspectorProofs --------------------------
(***************************************************************************)
(* Proofs about Inspector, for any rule packs and any frames: with the      *)
(* built-in policy more evidence never makes a verdict milder, a short      *)
(* circuit at the blocking score or above changes no action, and the        *)
(* relay's account of a verdict is what inspect computes.                   *)
(***************************************************************************)
EXTENDS Inspector, WellFoundedInduction, TLAPS

-----------------------------------------------------------------------------
(* Scores.                                                                  *)

\* Every set of natural numbers but the empty one has a least element.
LEMMA LeastNumber ==
    ASSUME NEW T \in SUBSET Nat, T # {}
    PROVE  \E n \in T : \A m \in T : n <= m
<1>1. PICK n \in T : \A m \in T : <<m, n>> \notin OpToRel(<, Nat)
  BY NatLessThanWellFounded, WFMin
<1>2. ASSUME NEW m \in T PROVE n <= m
  <2>1. <<m, n>> \notin {ss \in Nat \X Nat : ss[1] < ss[2]}
    BY <1>1 DEF OpToRel
  <2>2. QED BY <2>1
<1>3. QED BY <1>2

\* ScoreOf finds the highest score: it is one of the scores, and none exceeds it.
LEMMA ScoreOfIsHighest ==
    ASSUME NEW H \in SUBSET RuleIds
    PROVE  /\ ScoreOf(H) \in 0..100
           /\ \A r \in H : Pack[r].score <= ScoreOf(H)
           /\ H # {} => \E r \in H : Pack[r].score = ScoreOf(H)
           /\ H = {} => ScoreOf(H) = 0
<1>1. CASE H = {}
  BY <1>1 DEF ScoreOf
<1>2. CASE H # {}
  <2> DEFINE Margins == {100 - Pack[r].score : r \in H}
  <2>1. \A r \in H : Pack[r].score \in 0..100
    BY PackAssumption DEF CompiledRule
  <2>2. Margins \in SUBSET Nat /\ Margins # {}
    BY <1>2, <2>1
  <2>3. PICK n \in Margins : \A m \in Margins : n <= m
    BY <2>2, LeastNumber
  <2>4. PICK top \in H : n = 100 - Pack[top].score
    BY <2>3
  <2>5. \A r \in H : 100 - Pack[r].score \in Margins
    OBVIOUS
  <2> HIDE DEF Margins
  <2>6. \A r \in H : Pack[r].score <= Pack[top].score
    <3>1. ASSUME NEW r \in H PROVE Pack[r].score <= Pack[top].score
      <4>1. n <= 100 - Pack[r].score
        BY <2>3, <2>5
      <4>2. Pack[r].score \in Int /\ Pack[top].score \in Int
        BY <2>1
      <4>3. QED BY <2>4, <4>1, <4>2
    <3>2. QED BY <3>1
  <2>7. \E s \in 0..100 : /\ \E r \in H : Pack[r].score = s
                          /\ \A r \in H : Pack[r].score <= s
    BY <2>1, <2>6
  <2>8. QED BY <1>2, <2>7 DEF ScoreOf
<1>3. QED BY <1>1, <1>2

\* More hits never lower the score.
LEMMA ScoreOfGrows ==
    ASSUME NEW G \in SUBSET RuleIds, NEW H \in SUBSET G
    PROVE  ScoreOf(H) <= ScoreOf(G)
<1>1. H \in SUBSET RuleIds /\ ScoreOf(G) \in 0..100
  BY ScoreOfIsHighest
<1>2. CASE H = {}
  BY <1>1, <1>2, ScoreOfIsHighest
<1>3. CASE H # {}
  <2>1. PICK r \in H : Pack[r].score = ScoreOf(H)
    BY <1>1, <1>3, ScoreOfIsHighest
  <2>2. QED BY <2>1, ScoreOfIsHighest
<1>4. QED BY <1>2, <1>3

-----------------------------------------------------------------------------
(* The built-in policy, rule by rule.                                       *)

HitsBlocking(H) == BlockShell.when.rules_hit_any \cap H # {}
HitsWarning(H)  == WarnHistory.when.rules_hit_any \cap H # {}

\* What the first matching rule of default_policy decides.
LEMMA DecideByRule ==
    ASSUME NEW d \in Dirs, NEW s \in 0..100, NEW l \in Labels \cup {"none"}, NEW H
    PROVE  Decide(d, s, l, H) =
             IF d = "s2c"
             THEN IF s >= 85 THEN "block" ELSE IF l = "INSTRUCTION" THEN "warn" ELSE "allow"
             ELSE IF HitsBlocking(H) THEN "block"
                  ELSE IF HitsWarning(H) THEN "warn" ELSE "allow"
<1>1. Matches(BlockHighScore.when, d, s, l, H) <=> d = "s2c" /\ s >= 85
  BY DEF BlockHighScore, Matches
<1>2. Matches(WarnInstruction.when, d, s, l, H) <=> d = "s2c" /\ l = "INSTRUCTION"
  BY DEF WarnInstruction, Matches
<1>3. Matches(BlockShell.when, d, s, l, H) <=> d = "c2s" /\ HitsBlocking(H)
  BY DEF BlockShell, Matches, HitsBlocking
<1>4. Matches(WarnHistory.when, d, s, l, H) <=> d = "c2s" /\ HitsWarning(H)
  BY DEF WarnHistory, Matches, HitsWarning
<1> DEFINE matching == {i \in DOMAIN DefaultPolicy :
                          Matches(DefaultPolicy[i].when, d, s, l, H)}
           first == CHOOSE i \in matching : \A j \in matching : i <= j
<1>5. /\ DOMAIN DefaultPolicy = 1..4
      /\ DefaultPolicy[1] = BlockHighScore /\ DefaultPolicy[2] = WarnInstruction
      /\ DefaultPolicy[3] = BlockShell /\ DefaultPolicy[4] = WarnHistory
  BY DEF DefaultPolicy
<1>6. /\ 1 \in matching <=> d = "s2c" /\ s >= 85
      /\ 2 \in matching <=> d = "s2c" /\ l = "INSTRUCTION"
      /\ 3 \in matching <=> d = "c2s" /\ HitsBlocking(H)
      /\ 4 \in matching <=> d = "c2s" /\ HitsWarning(H)
      /\ matching \subseteq 1..4
  BY <1>1, <1>2, <1>3, <1>4, <1>5
<1>7. Decide(d, s, l, H) = IF matching = {} THEN "allow" ELSE DefaultPolicy[first].action
  BY DEF Decide
<1>8. /\ BlockHighScore.action = "block" /\ WarnInstruction.action = "warn"
      /\ BlockShell.action = "block" /\ WarnHistory.action = "warn"
  BY DEF BlockHighScore, WarnInstruction, BlockShell, WarnHistory
<1> HIDE DEF matching
<1>9. CASE 1 \in matching
  <2>1. 1 \in matching /\ \A i \in matching : (\A j \in matching : i <= j) <=> i = 1
    BY <1>6, <1>9
  <2>2. first = 1
    BY <2>1
  <2>3. QED BY <1>5, <1>6, <1>7, <1>8, <1>9, <2>2
<1>10. CASE 1 \notin matching /\ 2 \in matching
  <2>1. 2 \in matching /\ \A i \in matching : (\A j \in matching : i <= j) <=> i = 2
    BY <1>6, <1>10
  <2>2. first = 2
    BY <2>1
  <2>3. QED BY <1>5, <1>6, <1>7, <1>8, <1>10, <2>2
<1>11. CASE 1 \notin matching /\ 2 \notin matching /\ 3 \in matching
  <2>1. 3 \in matching /\ \A i \in matching : (\A j \in matching : i <= j) <=> i = 3
    BY <1>6, <1>11
  <2>2. first = 3
    BY <2>1
  <2>3. QED BY <1>5, <1>6, <1>7, <1>8, <1>11, <2>2
<1>12. CASE 1 \notin matching /\ 2 \notin matching /\ 3 \notin matching /\ 4 \in matching
  <2>1. 4 \in matching /\ \A i \in matching : (\A j \in matching : i <= j) <=> i = 4
    BY <1>6, <1>12
  <2>2. first = 4
    BY <2>1
  <2>3. QED BY <1>5, <1>6, <1>7, <1>8, <1>12, <2>2
<1>13. CASE matching = {}
  BY <1>6, <1>7, <1>13 DEF Dirs
<1>14. QED BY <1>6, <1>9, <1>10, <1>11, <1>12, <1>13

Actions == {"allow", "warn", "block"}

\* Without a replacement a block is a warning; the order of actions is kept.
LEMMA ConcludeByAction ==
    ASSUME NEW f, NEW a \in Actions
    PROVE  /\ Conclude(f, a).action \in Actions
           /\ Conclude(f, a).action =
                IF a = "block" /\ ~CanReplace(f.dir, f.message) THEN "warn" ELSE a
           /\ Conclude(f, a).replacement = (a = "block" /\ CanReplace(f.dir, f.message))
           /\ Conclude(f, a).verdict =
                IF a = "block" /\ CanReplace(f.dir, f.message) THEN "BLOCK"
                ELSE IF a = "allow" THEN "PASS" ELSE "WARN"
  BY DEF Conclude, Actions

LEMMA ConcludeKeepsOrder ==
    ASSUME NEW f, NEW a \in Actions, NEW b \in Actions, Severity[a] <= Severity[b]
    PROVE  Severity[Conclude(f, a).action] <= Severity[Conclude(f, b).action]
<1>1. Severity["allow"] = 0 /\ Severity["warn"] = 1 /\ Severity["block"] = 2
  BY DEF Severity
<1>2. /\ Conclude(f, a).action =
           IF a = "block" /\ ~CanReplace(f.dir, f.message) THEN "warn" ELSE a
      /\ Conclude(f, b).action =
           IF b = "block" /\ ~CanReplace(f.dir, f.message) THEN "warn" ELSE b
  BY ConcludeByAction
<1>3. QED BY <1>1, <1>2 DEF Actions

\* Fewer hits and no label: the policy is not stricter.
LEMMA DecideGrows ==
    ASSUME NEW d \in Dirs, NEW l \in Labels \cup {"none"},
           NEW G \in SUBSET RuleIds, NEW H \in SUBSET G,
           NEW s \in 0..100, s >= ScoreOf(G)
    PROVE  /\ Decide(d, ScoreOf(H), "none", H) \in Actions
           /\ Decide(d, s, l, G) \in Actions
           /\ Severity[Decide(d, ScoreOf(H), "none", H)] <= Severity[Decide(d, s, l, G)]
<1>1. Severity["allow"] = 0 /\ Severity["warn"] = 1 /\ Severity["block"] = 2
  BY DEF Severity
<1>2. ScoreOf(H) \in 0..100 /\ ScoreOf(G) \in 0..100 /\ ScoreOf(H) <= ScoreOf(G)
  BY ScoreOfIsHighest, ScoreOfGrows
<1>3. Decide(d, ScoreOf(H), "none", H) =
        IF d = "s2c" THEN IF ScoreOf(H) >= 85 THEN "block" ELSE "allow"
        ELSE IF HitsBlocking(H) THEN "block"
             ELSE IF HitsWarning(H) THEN "warn" ELSE "allow"
  <2>1. ASSUME NEW t \in 0..100
        PROVE  Decide(d, t, "none", H) =
                 IF d = "s2c" THEN IF t >= 85 THEN "block" ELSE "allow"
                 ELSE IF HitsBlocking(H) THEN "block"
                      ELSE IF HitsWarning(H) THEN "warn" ELSE "allow"
    <3> DEFINE silent == "none"
    <3>1. silent \in Labels \cup {"none"} /\ silent # "INSTRUCTION"
      OBVIOUS
    <3> HIDE DEF silent
    <3>2. Decide(d, t, silent, H) =
            IF d = "s2c"
            THEN IF t >= 85 THEN "block" ELSE IF silent = "INSTRUCTION" THEN "warn" ELSE "allow"
            ELSE IF HitsBlocking(H) THEN "block" ELSE IF HitsWarning(H) THEN "warn" ELSE "allow"
      BY <3>1, DecideByRule
    <3>3. QED BY <3>1, <3>2 DEF silent
  <2>2. QED BY <1>2, <2>1
<1>4. Decide(d, s, l, G) =
        IF d = "s2c"
        THEN IF s >= 85 THEN "block" ELSE IF l = "INSTRUCTION" THEN "warn" ELSE "allow"
        ELSE IF HitsBlocking(G) THEN "block"
             ELSE IF HitsWarning(G) THEN "warn" ELSE "allow"
  BY DecideByRule
<1>5. /\ HitsBlocking(H) => HitsBlocking(G)
      /\ HitsWarning(H) => HitsWarning(G)
  BY DEF HitsBlocking, HitsWarning
<1>6. CASE d = "s2c"
  BY <1>1, <1>2, <1>3, <1>4, <1>6 DEF Actions
<1>7. CASE d # "s2c"
  BY <1>1, <1>3, <1>4, <1>5, <1>7 DEF Actions
<1>8. QED BY <1>6, <1>7

-----------------------------------------------------------------------------
(* The invariant: what one call of inspect has found out so far.            *)

\* The score is that of the hits with the label merged in; the classifier is
\* asked only by the gate, and a skipped one has given no label.
EvidenceInv ==
    /\ score = Combined(ScoreOf(hits), label)
    /\ pc \in {"rules", "classifier"} => label = "none"
    /\ pc = "classifier" => note = "candidate"
    /\ note = "skipped:rules_short_circuit" =>
          label = "none" /\ frame.dir = "s2c" /\ score >= ShortCircuit

Decided == Conclude(frame, Decide(frame.dir, score, label, hits))

ResultInv ==
    /\ pc = "returned" => /\ result.action = Decided.action
                          /\ result.verdict = Decided.verdict
                          /\ result.replacement = Decided.replacement
    /\ pc = "aborted" => result.verdict = "WARN" /\ result.replacement = FALSE
    /\ pc \in {"rules", "classifier", "policy"} => result = NoResult

IInv == TypeOK /\ EvidenceInv /\ ResultInv

\* A label can only raise the score.
LEMMA CombinedGrows ==
    ASSUME NEW s \in 0..100, NEW l \in Labels \cup {"none"}
    PROVE  Combined(s, l) \in 0..100 /\ Combined(s, l) >= s /\ Combined(s, "none") = s
  BY DEF Combined, LabelScore, Labels

\* What the gate answers: the note of a skip, or what it found in the content.
LEMMA GateNotes ==
    ASSUME NEW f \in Frame, NEW s \in 0..100
    PROVE  Gate(f, s) = "skipped:rules_short_circuit" =>
              f.dir = "s2c" /\ s >= ShortCircuit
  BY DEF Gate, Skips, Frame

LEMMA FrameFields ==
    ASSUME TypeOK
    PROVE  frame \in Frame /\ frame.dir \in Dirs
  BY FramesAssumption DEF TypeOK, Frame

LEMMA InitHolds == Init => IInv
<1>1. SUFFICES ASSUME Init PROVE IInv
  OBVIOUS
<1>2. TypeOK
  BY <1>1 DEF Init, TypeOK, NoResult
<1>3. Combined(ScoreOf(hits), label) = 0
  <2>1. ScoreOf(hits) = 0
    BY <1>1 DEF Init, ScoreOf
  <2>2. QED BY <1>1, <2>1, CombinedGrows DEF Init
<1>4. QED BY <1>1, <1>2, <1>3 DEF Init, IInv, EvidenceInv, ResultInv

LEMMA DetectKeeps == IInv /\ Detect => IInv'
<1>1. SUFFICES ASSUME IInv, Detect PROVE IInv'
  OBVIOUS
<1>2. Hits(frame) \subseteq RuleIds
  BY DEF Hits
<1>3. /\ TypeOK /\ pc = "rules" /\ label = "none" /\ result = NoResult
      /\ ScoreOf(Hits(frame)) \in 0..100
  BY <1>1, <1>2, ScoreOfIsHighest DEF IInv, EvidenceInv, ResultInv, Detect
<1>4. Combined(ScoreOf(hits'), label') = score'
  BY <1>1, <1>3, CombinedGrows DEF Detect
<1>5. TypeOK'
  BY <1>1, <1>2, <1>3 DEF TypeOK, Detect
<1>6. EvidenceInv'
  <2>1. note' = "skipped:rules_short_circuit" => frame.dir = "s2c" /\ score' >= ShortCircuit
    BY <1>1, <1>3, GateNotes, FrameFields DEF Detect
  <2>2. QED BY <1>1, <1>3, <1>4, <2>1 DEF EvidenceInv, Detect
<1>7. ResultInv'
  BY <1>1, <1>3 DEF ResultInv, Detect
<1>8. QED BY <1>5, <1>6, <1>7 DEF IInv

LEMMA LabelledKeeps == ASSUME IInv, NEW l \in Labels, Labelled(l) PROVE IInv'
<1>1. /\ TypeOK /\ pc = "classifier" /\ label = "none" /\ result = NoResult
      /\ score = Combined(ScoreOf(hits), "none")
  BY DEF IInv, EvidenceInv, ResultInv, Labelled
<1>2. hits \subseteq RuleIds /\ ScoreOf(hits) \in 0..100
  BY <1>1, ScoreOfIsHighest DEF TypeOK
<1>3. score' = Combined(ScoreOf(hits), l) /\ score' \in 0..100
  BY <1>1, <1>2, CombinedGrows DEF Labelled
<1>4. TypeOK'
  BY <1>1, <1>3 DEF TypeOK, Labelled
<1>5. EvidenceInv' /\ ResultInv'
  BY <1>1, <1>3 DEF EvidenceInv, ResultInv, Labelled
<1>6. QED BY <1>4, <1>5 DEF IInv

LEMMA UnlabelledKeeps == ASSUME IInv, NEW why \in Failures, Unlabelled(why) PROVE IInv'
<1>1. TypeOK'
  BY DEF IInv, TypeOK, Unlabelled
<1>2. EvidenceInv' /\ ResultInv'
  BY DEF IInv, EvidenceInv, ResultInv, Unlabelled, Failures
<1>3. QED BY <1>1, <1>2 DEF IInv

LEMMA AbortKeeps == IInv /\ Abort => IInv'
<1>1. SUFFICES ASSUME IInv, Abort PROVE IInv'
  OBVIOUS
<1>2. TypeOK'
  BY <1>1 DEF IInv, TypeOK, Abort
<1>3. EvidenceInv' /\ ResultInv'
  BY <1>1 DEF IInv, EvidenceInv, ResultInv, Abort
<1>4. QED BY <1>2, <1>3 DEF IInv

LEMMA DecisionIsAction ==
    ASSUME TypeOK
    PROVE  Decide(frame.dir, score, label, hits) \in Actions
  BY FrameFields, DecideByRule DEF TypeOK, Actions

LEMMA JudgeKeeps == IInv /\ Judge => IInv'
<1>1. SUFFICES ASSUME IInv, Judge PROVE IInv'
  OBVIOUS
<1>2. /\ result'.action = Decided.action /\ result'.verdict = Decided.verdict
      /\ result'.replacement = Decided.replacement
      /\ pc = "policy" /\ pc' = "returned"
      /\ UNCHANGED <<frame, enabled, hits, score, label, note>>
  BY <1>1 DEF Judge, Decided
<1>3. Decided' = Decided
  BY <1>2 DEF Decided
<1>4. /\ Decided.action \in Actions
      /\ Decided.verdict \in {"PASS", "WARN", "BLOCK"} /\ Decided.replacement \in BOOLEAN
  <2>1. PICK a \in Actions : Decided = Conclude(frame, a)
    BY <1>1, DecisionIsAction DEF IInv, Decided
  <2>2. (a = "block" /\ CanReplace(frame.dir, frame.message)) \in BOOLEAN
    OBVIOUS
  <2>3. QED BY <2>1, <2>2, ConcludeByAction
<1>5. TypeOK'
  BY <1>1, <1>2, <1>4 DEF IInv, TypeOK, Actions
<1>6. EvidenceInv' /\ ResultInv'
  BY <1>1, <1>2, <1>3 DEF IInv, EvidenceInv, ResultInv
<1>7. QED BY <1>5, <1>6 DEF IInv

LEMMA Invariance == Spec => []IInv
<1>1. IInv /\ UNCHANGED vars => IInv'
  BY DEF IInv, TypeOK, EvidenceInv, ResultInv, Decided, vars
<1>2. IInv /\ [Next]_vars => IInv'
  BY <1>1, DetectKeeps, LabelledKeeps, UnlabelledKeeps, AbortKeeps, JudgeKeeps DEF Next
<1>3. QED BY <1>2, InitHolds, PTL DEF Spec

-----------------------------------------------------------------------------
\* default_policy and inspect: for every rule pack and every frame, had fewer
\* of its rules matched and had the classifier said nothing, the verdict would
\* not have been stricter.
THEOREM EvidenceCounts == Spec => []MoreEvidenceNeverMilder
<1>1. ASSUME IInv, Judged, NEW H \in SUBSET hits
      PROVE  Severity[Conclude(frame, Decide(frame.dir, ScoreOf(H), "none", H)).action]
               <= Severity[result.action]
  <2>1. /\ frame.dir \in Dirs /\ hits \in SUBSET RuleIds /\ score \in 0..100
        /\ label \in Labels \cup {"none"}
    BY <1>1, FrameFields DEF IInv, TypeOK
  <2>2. score >= ScoreOf(hits)
    BY <1>1, <2>1, ScoreOfIsHighest, CombinedGrows DEF IInv, EvidenceInv
  <2>3. result.action = Conclude(frame, Decide(frame.dir, score, label, hits)).action
    BY <1>1 DEF IInv, ResultInv, Decided, Judged
  <2>4. /\ Decide(frame.dir, ScoreOf(H), "none", H) \in Actions
        /\ Decide(frame.dir, score, label, hits) \in Actions
        /\ Severity[Decide(frame.dir, ScoreOf(H), "none", H)]
             <= Severity[Decide(frame.dir, score, label, hits)]
    BY <2>1, <2>2, DecideGrows
  <2>5. QED BY <2>3, <2>4, ConcludeKeepsOrder
<1>2. IInv => MoreEvidenceNeverMilder
  BY <1>1 DEF MoreEvidenceNeverMilder
<1>3. QED BY <1>2, Invariance, PTL

\* inspect: skipping the classifier changes no action, for every threshold at
\* which the rules block by themselves; the default of 0.9 is one, and a
\* configured one below 0.85 is not.
THEOREM SkippingIsHarmless ==
    ASSUME ShortCircuit >= 85
    PROVE  Spec => []ShortCircuitIsHarmless
<1>1. ASSUME IInv, Judged, note = "skipped:rules_short_circuit", NEW l \in Labels
      PROVE  Conclude(frame, Decide(frame.dir, Combined(score, l), l, hits)).action
                = result.action
  <2>1. /\ frame.dir = "s2c" /\ frame.dir \in Dirs /\ label = "none"
        /\ score \in 0..100 /\ score >= 85
    BY <1>1, FrameFields, ShortCircuitAssumption DEF IInv, EvidenceInv, TypeOK
  <2>2. Combined(score, l) \in 0..100 /\ Combined(score, l) >= 85
    BY <2>1, CombinedGrows, SMTT(30)
  <2>3. /\ Decide(frame.dir, score, label, hits) = "block"
        /\ Decide(frame.dir, Combined(score, l), l, hits) = "block"
    BY <2>1, <2>2, DecideByRule
  <2>4. QED BY <1>1, <2>3 DEF IInv, ResultInv, Decided, Judged
<1>2. IInv => ShortCircuitIsHarmless
  BY <1>1 DEF ShortCircuitIsHarmless
<1>3. QED BY <1>2, Invariance, PTL

\* inspect and _pump: Verdict, the relay's account of what inspect answers, is
\* exact for every frame, and a replacement comes with a BLOCK and only then.
THEOREM RelayIsTold == Spec => []RelayAgrees
<1>1. ASSUME IInv PROVE RelayAgrees
  <2> DEFINE m == [frame.message EXCEPT !.threat =
                     Decide(frame.dir, score, label, hits) = "block"]
             action == Decide(frame.dir, score, label, hits)
  <2>1. frame.message \in Message /\ action \in Actions
    BY <1>1, FrameFields, DecisionIsAction DEF IInv, Frame
  <2>2. /\ m.threat = (action = "block")
        /\ m.id = frame.message.id /\ m.method = frame.message.method
        /\ m.body = frame.message.body
    BY <2>1 DEF Message
  <2>3. CanReplace(frame.dir, m) <=> CanReplace(frame.dir, frame.message)
    BY <2>2 DEF CanReplace, IsResponse, IsRequest, Parsed
  <2> HIDE DEF m, action
  <2>4. Decided = Conclude(frame, action)
    BY DEF Decided, action
  <2>5. result.replacement <=> result.verdict = "BLOCK"
    <3>1. CASE pc = "returned"
      <4>1. result.verdict = Decided.verdict /\ result.replacement = Decided.replacement
        BY <1>1, <3>1 DEF IInv, ResultInv
      <4>2. Decided.verdict = "BLOCK" <=> action = "block" /\ CanReplace(frame.dir, frame.message)
        BY <2>1, <2>4, ConcludeByAction
      <4>3. Decided.replacement = (action = "block" /\ CanReplace(frame.dir, frame.message))
        BY <2>1, <2>4, ConcludeByAction
      <4>4. QED BY <4>1, <4>2, <4>3
    <3>2. CASE pc = "aborted"
      BY <1>1, <3>2 DEF IInv, ResultInv
    <3>3. CASE pc \in {"rules", "classifier", "policy"}
      BY <1>1, <3>3 DEF IInv, ResultInv, NoResult
    <3>4. QED BY <1>1, <3>1, <3>2, <3>3 DEF IInv, TypeOK
  <2>6. Judged => (result.verdict = "BLOCK" <=> Verdict(frame.dir, m, FALSE) = "BLOCK")
    <3>1. SUFFICES ASSUME Judged
                   PROVE  result.verdict = "BLOCK" <=> Verdict(frame.dir, m, FALSE) = "BLOCK"
      OBVIOUS
    <3>2. result.verdict = "BLOCK" <=> action = "block" /\ CanReplace(frame.dir, frame.message)
      BY <1>1, <2>1, <2>4, <3>1, ConcludeByAction DEF IInv, ResultInv, Judged
    <3>3. Verdict(frame.dir, m, FALSE) = "BLOCK" <=> m.threat /\ CanReplace(frame.dir, m)
      BY DEF Verdict
    <3>4. QED BY <2>2, <2>3, <3>2, <3>3
  <2>7. pc = "aborted" => result.verdict = Verdict(frame.dir, m, TRUE)
    BY <1>1 DEF IInv, ResultInv, Verdict
  <2>8. QED BY <2>5, <2>6, <2>7 DEF RelayAgrees, m
<1>2. IInv => RelayAgrees
  BY <1>1
<1>3. QED BY <1>2, Invariance, PTL
=============================================================================
