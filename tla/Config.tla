------------------------------- MODULE Config -------------------------------
(***************************************************************************)
(* A configuration file as two programs read it: resolve_settings of        *)
(* config.py with what run_proxy builds from its result, and the validator  *)
(* of config_validate.py with its eight checks, which is to tell before a   *)
(* start what the forgiving loader would do.                                *)
(*                                                                          *)
(* A YAML value is its kind; a file says at each path of interest what kind *)
(* of value is there.  The files it refers to are part of the input.        *)
(***************************************************************************)
EXTENDS Integers, Sequences, FiniteSets

CONSTANT Inputs  \* the configuration files, with the rule packs and the policy they name

VARIABLES input,   \* the file validated, and the one the proxy is started with
          next,    \* the number of the next check, 9 at the end
          report,  \* the rows of the report so far: a check and its status
          raised   \* the validator let an exception escape

configVars == <<input, next, report, raised>>

Absent == "absent"
Falsy  == {"null", "false", "zero", "empty string", "empty list", "empty mapping"}
\* "huge" is an int beyond the range of floats; an "odd string" parses as no URL; a
\* "numeral" is a string of digits, and not huge.
Kinds  == Falsy \cup {"true", "int", "huge", "float", "numeral", "string", "odd string",
                      "list", "odd list", "mapping"}
Strings == {"string", "odd string", "numeral"}

Sections   == {<<"storage">>, <<"detector">>, <<"capability">>, <<"detector", "llm">>}
BatchInterval == <<"storage", "batch_interval_ms">>
MaxLatency    == <<"detector", "max_latency_ms">>
LlmTimeout    == <<"detector", "llm", "timeout_ms">>
IntFields  == {<<"storage", "queue_max">>, BatchInterval, MaxLatency, LlmTimeout}
FloatField == <<"detector", "short_circuit_threshold">>
Numeric    == IntFields \cup {FloatField}
RulesDir   == <<"detector", "rules_dir">>
PolicyFile == <<"detector", "policies_file">>
PathFields == {<<"storage", "db_path">>, RulesDir, PolicyFile}
Enabled    == <<"detector", "enabled">>
LlmEnabled == <<"detector", "llm", "enabled">>
LlmUrl     == <<"detector", "llm", "url">>
AllowedTools == <<"capability", "allowed_tools">>
Paths == Sections \cup Numeric \cup PathFields \cup {Enabled, LlmEnabled, LlmUrl, AllowedTools}

\* A pack is a file with rules or one that cannot be read as such; a rule has an
\* id and compiles, or fails with a ValueError or with another exception.
Faults == {"none", "ValueError", "TypeError"}
Packs  == [form : {"undecodable", "unparsable", "not a mapping"}, rules : {<<>>}]
              \cup [form : {"rules"}, rules : Seq([id : {"a", "b"}, fault : Faults])]

ConfigTypeOK ==
    /\ input.form \in {"missing", "directory", "undecodable", "unparsable", "parsed"}
    /\ input.top \in Kinds /\ input.values \in [Paths -> Kinds \cup {Absent}]
    /\ input.extra \in {"none", "inert", "unknown"}
    /\ input.rules.form \in {"missing", "file", "directory"} /\ input.rules.packs \in Seq(Packs)
    /\ input.policy \in {"missing", "odd", "good"}
    /\ next \in 1..9 /\ raised \in BOOLEAN
    /\ report \in Seq([check : 1..8, status : {"pass", "warn", "fail", "skip"}])

ConfigInit == input \in Inputs /\ next = 1 /\ report = <<>> /\ raised = FALSE

-----------------------------------------------------------------------------
(* The loader.                                                              *)

IsMapping(kind) == kind \in {"mapping", "empty mapping"}

\* What is at a path: nothing where a section above it is no mapping.
At(path) ==
    IF input.top # "mapping" \/ \E n \in 1..(Len(path) - 1) :
           input.values[SubSeq(path, 1, n)] # "mapping"
    THEN Absent ELSE input.values[path]

\* int() and float() of a value that is there; a numeral is a string of digits.
Converts(path) ==
    At(path) \in {Absent, "false", "true", "zero", "int", "float", "numeral"}
                  \cup (IF path = FloatField THEN {} ELSE {"huge"})

\* `or` takes the default for what is falsy; Path() takes strings only.
PathAccepted(path) == At(path) \in Falsy \cup Strings \cup {Absent}

\* A list of well-formed names, or something falsy.
ToolsAccepted == At(AllowedTools) \in Falsy \cup {Absent, "list"}

\* resolve_settings does not raise: a file that is not there is empty, and so is
\* what `or {}` makes of a falsy document.
Resolves ==
    \/ input.form \in {"missing", "directory"}
    \/ /\ input.form = "parsed"
       /\ IsMapping(input.top) \/ input.top \in Falsy
       /\ \A path \in Numeric : Converts(path)
       /\ \A path \in PathFields : PathAccepted(path)
       /\ ToolsAccepted

DetectorOn == At(Enabled) \notin Falsy \cup {Absent}
LlmOn      == At(LlmEnabled) \notin Falsy

\* rules_dir and policies_file as resolved: what the file names, or the built-in.
GivenRules  == At(RulesDir) \in Strings
GivenPolicy == At(PolicyFile) \in Strings

AllRules(packs) == UNION {{<<p, i>> : i \in DOMAIN packs[p].rules} : p \in DOMAIN packs}
RuleAt(packs, rule) == packs[rule[1]].rules[rule[2]]

\* RulesEngine.from_directory: every pack loads and no id comes twice.
LoadsRules ==
    GivenRules =>
        LET packs == input.rules.packs IN
        /\ input.rules.form = "directory"
        /\ \A p \in DOMAIN packs : packs[p].form = "rules"
        /\ \A rule \in AllRules(packs) : RuleAt(packs, rule).fault = "none"
        /\ \A rule, other \in AllRules(packs) :
              RuleAt(packs, rule).id = RuleAt(packs, other).id => rule = other

LoadsPolicy == GivenPolicy => input.policy = "good"

\* OllamaClassifier divides its timeout and opens an httpx client for its URL,
\* which str() has made a string of, whatever it was.
BuildsClassifier == LlmOn => At(LlmUrl) # "odd string" /\ At(LlmTimeout) # "huge"

\* batch_interval_s divides as well, and Inspector multiplies its limit by 1.25.
BuildsBuffer    == At(BatchInterval) # "huge"
BuildsInspector == BuildsClassifier /\ At(MaxLatency) # "huge"

\* resolve_settings and the files that the settings name.
Loads == Resolves /\ (DetectorOn => LoadsRules /\ LoadsPolicy)

\* The proxy gets past all that takes its configuration from the file.  That the
\* database can be opened there and the server spawned is not the file's matter.
ProxyStarts == Loads /\ BuildsBuffer /\ (DetectorOn => BuildsInspector)

-----------------------------------------------------------------------------
(* The validator, check by check.                                           *)

Report(status) ==
    /\ report' = Append(report, [check |-> next, status |-> status])
    /\ next' = next + 1
    /\ UNCHANGED <<input, raised>>

\* This check fails and the others are skipped.
GiveUp ==
    /\ report' = Append(report, [check |-> next, status |-> "fail"])
                   \o [n \in 1..(8 - next) |-> [check |-> next + n, status |-> "skip"]]
    /\ next' = 9
    /\ UNCHANGED <<input, raised>>

CheckFile ==
    /\ next = 1
    /\ IF input.form \in {"unparsable", "parsed"} THEN Report("pass") ELSE GiveUp

CheckYaml ==
    /\ next = 2
    /\ CASE input.form = "unparsable" -> GiveUp
         [] input.form = "parsed" /\ input.top = "null" -> Report("warn")
         [] input.form = "parsed" /\ IsMapping(input.top) -> Report("pass")
         [] OTHER -> GiveUp

CheckKeys ==
    /\ next = 3
    /\ Report(IF input.top = "mapping" /\ input.extra # "none" THEN "warn" ELSE "pass")

\* _MAPPING_SECTIONS: the section is there, and the loader would replace it.
Checked_topLevel(path) == Len(path) = 1
Checked(path) == path \in Sections

Replaced(path) == At(path) # Absent /\ ~IsMapping(At(path))

CheckSections ==
    /\ next = 4
    /\ Report(IF \E path \in Sections : Checked(path) /\ Replaced(path) THEN "fail" ELSE "pass")

\* _numeric_problem: the kinds it lets pass.
FieldFine(path) ==
    At(path) \in {Absent, "zero", "int", "huge", "numeral"} \cup (IF path = FloatField THEN {"float"} ELSE {})

FieldErrors == \E path \in Numeric : ~FieldFine(path)

CheckFields == next = 5 /\ Report(IF FieldErrors THEN "fail" ELSE "pass")

\* The loader's own verdict is shown where the fields are fine; without settings
\* nothing is left to check.
CheckLoader ==
    LET status == IF FieldErrors THEN "skip" ELSE IF Resolves THEN "pass" ELSE "fail" IN
    /\ next = 6
    /\ IF Resolves THEN Report(status)
       ELSE /\ report' = report \o <<[check |-> 6, status |-> status],
                                     [check |-> 7, status |-> "skip"],
                                     [check |-> 8, status |-> "skip"]>>
            /\ next' = 9 /\ UNCHANGED <<input, raised>>

CheckPolicy == next = 7 /\ Report(IF LoadsPolicy THEN "pass" ELSE "fail")

\* lint_path on a directory or a file; an empty directory is an error.  What
\* reads a pack catches YAMLError and OSError, what compiles a rule ValueError.
LintRaises ==
    /\ GivenRules /\ input.rules.form # "missing"
    /\ \E p \in DOMAIN input.rules.packs :
          \/ input.rules.packs[p].form = "undecodable"
          \/ \E i \in DOMAIN input.rules.packs[p].rules :
                input.rules.packs[p].rules[i].fault = "TypeError"

LintErrors ==
    /\ GivenRules
    /\ \/ input.rules.form = "missing" \/ input.rules.packs = <<>>
       \/ \E p \in DOMAIN input.rules.packs :
             \/ input.rules.packs[p].form # "rules"
             \/ \E i \in DOMAIN input.rules.packs[p].rules :
                   input.rules.packs[p].rules[i].fault # "none"

\* What lint lets pass is loaded as well, and may fail then: ids come twice, or
\* rules_dir is a file.
RulesFine_linted == ~LintErrors
RulesFine == ~LintErrors /\ LoadsRules

CheckRules ==
    /\ next = 8
    /\ IF LintRaises
       THEN raised' = TRUE /\ next' = 9 /\ UNCHANGED <<input, report>>
       ELSE Report(IF RulesFine THEN "pass" ELSE "fail")

ConfigNext ==
    \/ CheckFile \/ CheckYaml \/ CheckKeys \/ CheckSections
    \/ CheckFields \/ CheckLoader \/ CheckPolicy \/ CheckRules

ConfigSpec == ConfigInit /\ [][ConfigNext]_configVars

-----------------------------------------------------------------------------
(* Properties.                                                              *)

\* The report is complete and has no error: `config-validate` exits with 0.
Validated == next = 9 /\ ~raised /\ \A i \in DOMAIN report : report[i].status # "fail"

\* The values that something run_proxy builds refuses and no check looks at.
NotLookedAt ==
    \/ At(BatchInterval) = "huge"
    \/ DetectorOn /\ At(MaxLatency) = "huge"
    \/ DetectorOn /\ LlmOn /\ (At(LlmTimeout) = "huge" \/ At(LlmUrl) = "odd string")

\* What the loader, the rules engine and the policy refuse, the validator does not
\* pass; the proxy starts with a file that it passes, unless there is one of these
\* values in it.
ValidatedLoads == Validated => Loads /\ (ProxyStarts \/ NotLookedAt)

\* The same without the exception.  Does not hold: a URL such as
\* http://localhost:port passes all checks, and httpx raises InvalidURL.
ValidatedStarts == Validated => ProxyStarts

\* In a file that the validator passes nothing is silently replaced: no section
\* by {}, no number by another one.
ValidatedApplies ==
    Validated =>
        /\ \A path \in Sections : At(path) = Absent \/ IsMapping(At(path))
        /\ \A path \in Numeric : At(path) \notin {"true", "false"}
        /\ \A path \in IntFields : At(path) # "float"

\* config_validate.py, validate_config: "Never raises: a validator that crashes on
\* a malformed file is useless."  Does not hold: lint_path is called outside any
\* try, and neither a pack that is not UTF-8 nor an unhashable apply_to is caught.
NeverRaises == ~raised
=============================================================================
