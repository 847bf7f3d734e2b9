----------------------------- MODULE MCSession -----------------------------
(* A few lines that make the relay record one row, two rows at once, and    *)
(* rows from both pumps: more than the queue takes.                         *)
EXTENDS Session, JsonRpc

Allowed    == [id |-> "ok", method |-> "call", body |-> "none", tool |-> "allowed", threat |-> FALSE]
DeniedCall == [Allowed EXCEPT !.tool = "denied"]
Answer     == [Allowed EXCEPT !.method = "none", !.body = "result", !.tool = "none"]

MCFrames == [d \in {"c2s", "s2c"} |->
    IF d = "c2s" THEN {Single(Allowed), Batch(<<Allowed, DeniedCall>>)} ELSE {Single(Answer)}]
MCMaxFrames == [d \in {"c2s", "s2c"} |-> IF d = "c2s" THEN 2 ELSE 1]
=============================================================================
