----------------------------- MODULE Inspector -----------------------------
(***************************************************************************)
(* Inspector.inspect of inspector.py, one call, with what it calls: the     *)
(* rule engine (detectors/rules.py), the gates in front of the classifier,  *)
(* the answer or the failure of the classifier, the policy (policy.py) and  *)
(* the replacement it composes.  The relay sees only the verdict; the       *)
(* circuit breaker and the cache behind the classifier are in Classifier.   *)
(*                                                                          *)
(* Scores are in hundredths.  A rule's pattern is matched against variants  *)
(* of the text, so a frame carries the pairs of a rule and a variant in     *)
(* which its pattern is found.                                              *)
(***************************************************************************)
EXTENDS JsonRpc

CONSTANTS Pack,          \* rule id -> [score, apply_to], the rule packs
          ShortCircuit,  \* Inspector.short_circuit_threshold
          Frames         \* the frames to inspect, see Frame

RuleIds  == DOMAIN Pack
Variants == {"raw", "within", "between", "argv"}
Labels   == {"INSTRUCTION", "DATA"}

\* content: what _extract_classifiable_text and _size_gate find in it.
Frame == [dir : Dirs, message : Message, found : SUBSET (RuleIds \X Variants),
          content : {"not_candidate", "non_text_content", "too_short",
                     "too_long", "fits"}]

\* What _compile_rule lets through: a score in 0..1, known directions.
CompiledRule == [score : 0..100, apply_to : SUBSET Dirs]

ASSUME PackAssumption == Pack \in [RuleIds -> CompiledRule]
ASSUME ShortCircuitAssumption == ShortCircuit \in 0..100
ASSUME FramesAssumption ==
    /\ Frames \subseteq Frame
    /\ \A f \in Frames : f.content # "not_candidate" =>
                            IsResponse(f.message) /\ f.message.body = "result"

VARIABLES frame,    \* the arguments of inspect
          enabled,  \* self._classifier is not None
          pc,       \* "rules", "classifier", "policy", "returned" or "aborted"
          hits,     \* rules_result.hits
          score,    \* score
          label,    \* classifier_label
          note,     \* classifier_note
          result    \* the InspectionResult

vars == <<frame, enabled, pc, hits, score, label, note, result>>

NoResult == [verdict |-> "none", action |-> "none", note |-> "none",
             replacement |-> FALSE]

Init ==
    /\ frame \in Frames
    /\ enabled \in BOOLEAN
    /\ pc = "rules"
    /\ hits = {} /\ score = 0 /\ label = "none" /\ note = "none"
    /\ result = NoResult

-----------------------------------------------------------------------------
(* RulesEngine.detect: a rule that applies to the direction and matches any *)
(* variant is a hit.  The arguments of a call are joined to one more text   *)
(* in the client's direction only.                                          *)

Scanned(d) == IF d = "c2s" THEN Variants ELSE Variants \ {"argv"}

Hits(f) == {r \in RuleIds : /\ f.dir \in Pack[r].apply_to
                            /\ \E v \in Scanned(f.dir) : <<r, v>> \in f.found}

\* The highest score of a set of hits, 0 without any.
ScoreOf(H) == IF H = {} THEN 0
              ELSE CHOOSE s \in 0..100 : /\ \E r \in H : Pack[r].score = s
                                         /\ \A r \in H : Pack[r].score <= s

-----------------------------------------------------------------------------
(* The classifier: whether it is asked, and what its label weighs.          *)

Skips_atLower(s) == s >= 80
Skips(s) == s >= ShortCircuit

\* _initial_classifier_note, _extract_classifiable_text and _size_gate.
Gate(f, s) ==
    CASE ~enabled                  -> "skipped:disabled"
      [] enabled /\ f.dir = "c2s"  -> "skipped:c2s"
      [] enabled /\ f.dir = "s2c" /\ Skips(s) -> "skipped:rules_short_circuit"
      [] OTHER -> IF f.content = "fits" THEN "candidate" ELSE f.content

LabelScore(l) == CASE l = "INSTRUCTION" -> 85 [] l = "DATA" -> 5 [] l = "none" -> 0

Combined_sum(s, l)    == s + LabelScore(l)
Combined_latest(s, l) == IF l = "none" THEN s ELSE LabelScore(l)
Combined(s, l) == IF LabelScore(l) > s THEN LabelScore(l) ELSE s

-----------------------------------------------------------------------------
(* The policy: rules are tried in order and the first whose clauses all     *)
(* match decides.  A rule's "when" has only the clauses it mentions.        *)

\* The clauses default_policy uses; direction, classifier and score compare
\* with the arguments of decide, rules_hit_any needs one common rule.
Matches(when, d, s, l, H) ==
    \A clause \in DOMAIN when :
        CASE clause = "direction"               -> when.direction = d
          [] clause = "classifier"              -> when.classifier = l
          [] clause = "detector_score_at_least" -> s >= when.detector_score_at_least
          [] clause = "rules_hit_any"           -> when.rules_hit_any \cap H # {}

BlockHighScore == [action |-> "block",
    when |-> [direction |-> "s2c", detector_score_at_least |-> 85]]
WarnInstruction == [action |-> "warn",
    when |-> [direction |-> "s2c", classifier |-> "INSTRUCTION"]]
BlockShell == [action |-> "block",
    when |-> [direction |-> "c2s",
              rules_hit_any |-> {"shell.rm_rf_root_or_home",
                  "shell.curl_pipe_to_shell", "shell.base64_decoded_pipe",
                  "shell.reverse_shell_classic"}]]
WarnHistory == [action |-> "warn",
    when |-> [direction |-> "c2s", rules_hit_any |-> {"shell.history_clearing"}]]

DefaultPolicy == <<BlockHighScore, WarnInstruction, BlockShell, WarnHistory>>

\* Policy.decide, with the default action "allow".
Decide(d, s, l, H) ==
    LET matching == {i \in DOMAIN DefaultPolicy :
                        Matches(DefaultPolicy[i].when, d, s, l, H)}
    IN IF matching = {} THEN "allow"
       ELSE DefaultPolicy[CHOOSE i \in matching : \A j \in matching : i <= j].action

\* The end of inspect: a block without a replacement becomes a warning.
Conclude_noDowngrade(f, action) ==
    [action |-> action, replacement |-> action = "block" /\ CanReplace(f.dir, f.message),
     verdict |-> CASE action = "block" -> "BLOCK" [] action = "warn" -> "WARN"
                   [] action = "allow" -> "PASS"]
Conclude(f, action) ==
    LET downgraded == action = "block" /\ ~CanReplace(f.dir, f.message)
        final      == IF downgraded THEN "warn" ELSE action
    IN [action |-> final, replacement |-> final = "block",
        verdict |-> CASE final = "block" -> "BLOCK" [] final = "warn" -> "WARN"
                      [] final = "allow" -> "PASS"]

-----------------------------------------------------------------------------
Detect ==
    /\ pc = "rules"
    /\ hits' = Hits(frame)
    /\ score' = ScoreOf(Hits(frame))
    /\ note' = Gate(frame, ScoreOf(Hits(frame)))
    /\ pc' = IF Gate(frame, ScoreOf(Hits(frame))) = "candidate"
             THEN "classifier" ELSE "policy"
    /\ UNCHANGED <<frame, enabled, label, result>>

\* classify returned a label, from the model ("ok") or from the cache.
Labelled(l) ==
    /\ pc = "classifier"
    /\ label' = l
    /\ score' = Combined(score, l)
    /\ note' \in {"ok", "cache_hit"}
    /\ pc' = "policy"
    /\ UNCHANGED <<frame, enabled, hits, result>>

\* classify returned no label, ran out of the budget, or raised.
Unlabelled(why) ==
    /\ pc = "classifier"
    /\ note' = why
    /\ pc' = "policy"
    /\ UNCHANGED <<frame, enabled, hits, score, label, result>>

\* The call took longer than hard_abort_ms: the policy is not asked.
Abort ==
    /\ pc = "policy"
    /\ result' = [verdict |-> "WARN", action |-> "warn",
                  note |-> "inspection_timeout", replacement |-> FALSE]
    /\ pc' = "aborted"
    /\ UNCHANGED <<frame, enabled, hits, score, label, note>>

Judge ==
    /\ pc = "policy"
    /\ LET action == Decide(frame.dir, score, label, hits)
           end    == Conclude(frame, action)
       IN result' = [verdict |-> end.verdict, action |-> end.action,
                     note |-> IF action = "block" /\ end.action # "block"
                              THEN "downgraded:no_replacement" ELSE note,
                     replacement |-> end.replacement]
    /\ pc' = "returned"
    /\ UNCHANGED <<frame, enabled, hits, score, label, note>>

Failures == {"circuit_open", "parse_error", "error", "inspection_timeout",
             "classifier_error"}

Next ==
    \/ Detect
    \/ \E l \in Labels : Labelled(l)
    \/ \E why \in Failures : Unlabelled(why)
    \/ Abort
    \/ Judge

Spec == Init /\ [][Next]_vars

-----------------------------------------------------------------------------
\* Scores stay within 0..1 whatever the classifier adds to the rules' score.
TypeOK ==
    /\ frame \in Frames
    /\ enabled \in BOOLEAN
    /\ pc \in {"rules", "classifier", "policy", "returned", "aborted"}
    /\ hits \subseteq RuleIds
    /\ score \in 0..100
    /\ label \in Labels \cup {"none"}
    /\ result.verdict \in {"none", "PASS", "WARN", "BLOCK"}
    /\ result.action \in {"none", "allow", "warn", "block"}
    /\ result.replacement \in BOOLEAN

Severity == [allow |-> 0, warn |-> 1, block |-> 2]

\* The policy was asked.
Judged == pc = "returned"

\* Evidence never helps a frame: had fewer of its rules matched, and had the
\* classifier stayed silent, the built-in policy would not have been stricter.
\* (The order of the policy's rules and the way a label's score is merged into
\* the rules' score both decide it: default_policy and inspect.)
MoreEvidenceNeverMilder ==
    Judged => \A H \in SUBSET hits :
        Severity[Conclude(frame, Decide(frame.dir, ScoreOf(H), "none", H)).action]
            <= Severity[result.action]

\* Not asking the classifier because the rules are already sure changes
\* nothing: no label could have changed the action (inspect, the short circuit
\* and default_policy).
ShortCircuitIsHarmless ==
    Judged /\ note = "skipped:rules_short_circuit" =>
        \A l \in Labels :
            Conclude(frame, Decide(frame.dir, Combined(score, l), l, hits)).action
                = result.action

\* The relay's one-line account of a verdict, with "threat" standing for the
\* policy's decision, is what inspect computes; and a BLOCK always comes with
\* the replacement that the pump needs, and nothing else does.
RelayAgrees ==
    LET m == [frame.message EXCEPT !.threat =
                 Decide(frame.dir, score, label, hits) = "block"]
    IN /\ result.replacement <=> result.verdict = "BLOCK"
       /\ Judged => (result.verdict = "BLOCK" <=> Verdict(frame.dir, m, FALSE) = "BLOCK")
       /\ pc = "aborted" => result.verdict = Verdict(frame.dir, m, TRUE)

\* policy.py says of the built-in policy: "INSTRUCTION-only signal warns rather
\* than blocks".  The label scores 0.85 and inspect merges that into the score,
\* so block_high_score_s2c matches before warn_classifier_instruction.
InstructionOnlyWarns ==
    label = "INSTRUCTION" /\ hits = {} => result.action # "block"
=============================================================================
