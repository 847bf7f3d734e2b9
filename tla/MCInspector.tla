---------------------------- MODULE MCInspector ----------------------------
(* One built-in rule of each score band and direction, and the frames that  *)
(* match any set of them in one variant.                                    *)
EXTENDS Inspector

Rule(s, dirs) == [score |-> s, apply_to |-> dirs]

Ids == {"html.hidden_comment_imperative", "role_hijack.ignore_previous",
        "role_hijack.act_as_jailbreak", "shell.rm_rf_root_or_home",
        "shell.history_clearing", "unicode.rtl_override"}

MCPack == [r \in Ids |->
    CASE r = "html.hidden_comment_imperative" -> Rule(80, {"s2c"})
      [] r = "role_hijack.ignore_previous"    -> Rule(85, {"s2c"})
      [] r = "role_hijack.act_as_jailbreak"   -> Rule(90, {"s2c"})
      [] r = "shell.rm_rf_root_or_home"       -> Rule(95, {"c2s"})
      [] r = "shell.history_clearing"         -> Rule(70, {"c2s"})
      [] r = "unicode.rtl_override"           -> Rule(70, {"s2c", "c2s"})]

Plain   == [id |-> "ok", method |-> "other", body |-> "none", tool |-> "none", threat |-> FALSE]
Call    == [Plain EXCEPT !.method = "call", !.tool = "allowed"]
Notify  == [Plain EXCEPT !.id = "none"]
Answer  == [Plain EXCEPT !.method = "none", !.body = "result"]
Failure == [Answer EXCEPT !.body = "error"]
Garbage == [Notify EXCEPT !.method = "none"]

Contents(m) == IF m = Answer
               THEN {"not_candidate", "non_text_content", "too_short", "too_long", "fits"}
               ELSE {"not_candidate"}

MCFrames ==
    UNION {[dir : {d}, message : {m}, found : {R \X {v} : R \in SUBSET Ids},
            content : Contents(m)] :
           d \in Dirs, m \in {Call, Notify, Answer, Failure, Garbage},
           v \in {"raw", "between", "argv"}}
=============================================================================
