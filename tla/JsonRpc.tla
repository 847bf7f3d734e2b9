------------------------------ MODULE JsonRpc ------------------------------
(***************************************************************************)
(* The constant-level part of the relay: what models.py, capability.py,     *)
(* inspector.py and the batch helpers of proxy.py compute from one line.    *)
(*                                                                          *)
(* A message is a record of the things that code looks at:                  *)
(*   id      "none" (no key), "ok" (int, string or null) or "bad" (a value  *)
(*           the pydantic models refuse, such as 1.5)                       *)
(*   method  "none", "call" (tools/call) or "other"                         *)
(*   body    "none", "result" or "error"                                    *)
(*   tool    params.name: "none" (missing or no string), "allowed" or       *)
(*           "denied" by the allowlist                                      *)
(*   threat  the rules and the policy decide "block" for it                 *)
(* A frame is a line: a JSON array or a single message, an unparsable       *)
(* single message being one without id, method and body; or a blank line;   *)
(* or a line longer than the reader's limit.                                *)
(***************************************************************************)
EXTENDS Integers, Sequences

Dirs == {"c2s", "s2c"}

Message == [id : {"none", "ok", "bad"}, method : {"none", "call", "other"},
            body : {"none", "result", "error"},
            tool : {"none", "allowed", "denied"}, threat : BOOLEAN]

Line == {f \in [kind : {"line", "blank", "oversized"}, array : BOOLEAN, members : Seq(Message)] :
            f.kind # "line" => f.members = <<>>}

Single(m)    == [kind |-> "line", array |-> FALSE, members |-> <<m>>]
Batch(ms)    == [kind |-> "line", array |-> TRUE, members |-> ms]
BlankLine    == [kind |-> "blank", array |-> FALSE, members |-> <<>>]
OversizedLine == [kind |-> "oversized", array |-> FALSE, members |-> <<>>]

\* _pump looks at the number of members, not at the shape of the line.
IsBatch(f) == Len(f.members) > 1

-----------------------------------------------------------------------------
(* parse_frame: the type of the parsed message, "None" when it is None.     *)

Parsed(m) ==
    CASE m.method # "none" /\ m.id = "ok"   -> "MCPRequest"
      [] m.method # "none" /\ m.id = "none" -> "MCPNotification"
      [] m.method = "none" /\ m.id = "ok" /\ m.body # "none" -> "MCPResponse"
      [] OTHER -> "None"

IsRequest(m)  == Parsed(m) = "MCPRequest"
IsResponse(m) == Parsed(m) = "MCPResponse"

-----------------------------------------------------------------------------
(* The capability filter reads the raw JSON, whatever its id.               *)

CapabilityHit_parsed(m) == IsRequest(m) /\ m.method = "call" /\ m.tool # "none"
CapabilityHit(m) == m.method = "call" /\ m.tool # "none"

Denied(m) == CapabilityHit(m) /\ m.tool = "denied"

DeniedFrame(f) == \E i \in DOMAIN f.members : Denied(f.members[i])

-----------------------------------------------------------------------------
(* Inspector.inspect: a block needs a message that can be answered in its   *)
(* direction's way, and is downgraded to a warning otherwise.  The budget   *)
(* (hard_abort_ms) turns any verdict into a warning.                        *)

CanReplace(d, m) == IF d = "s2c" THEN IsResponse(m) ELSE IsRequest(m)

Verdict_action(d, m, aborted) == IF m.threat THEN "block" ELSE "allow"
Verdict_abortPasses(d, m, aborted) ==
    CASE aborted -> "PASS"
      [] ~aborted /\ m.threat /\ CanReplace(d, m) -> "BLOCK"
      [] OTHER -> "PASS"
Verdict(d, m, aborted) ==
    CASE aborted -> "WARN"
      [] ~aborted /\ m.threat /\ CanReplace(d, m) -> "BLOCK"
      [] ~aborted /\ m.threat /\ ~CanReplace(d, m) -> "WARN"
      [] OTHER -> "PASS"

-----------------------------------------------------------------------------
(* What is written for a frame: what the reader gets of each of its members *)
(* that is not dropped.  They come in their order.                          *)

Given(as) == [i \in {j \in DOMAIN as : as[j] # "dropped"} |-> as[i]]

\* _compose_batch_aborted_reply: only a request is answered.
Aborted_everyone(m) == "dropped"
Aborted(m) == IF IsRequest(m) THEN "aborted" ELSE "dropped"

\* _build_capability_batch, and the reply to a single denied message.
CapabilityAnswer(m) ==
    CASE Denied(m) /\ m.id # "none" -> "denied"
      [] Denied(m) /\ m.id = "none" -> "dropped"
      [] OTHER -> Aborted(m)

CapabilityReply(f) == Given([i \in DOMAIN f.members |-> CapabilityAnswer(f.members[i])])

\* _build_batch_replacement, and the replacement of a single blocked message.
ReplacedBy(d, m, verdict) ==
    CASE verdict = "BLOCK" -> "blocked"
      [] verdict # "BLOCK" /\ d = "s2c" -> "verbatim"
      [] OTHER -> Aborted(m)

Replacement(d, f, verdicts) ==
    Given([i \in DOMAIN f.members |-> ReplacedBy(d, f.members[i], verdicts[i])])

Verbatim(f) == [i \in DOMAIN f.members |-> "verbatim"]
=============================================================================
