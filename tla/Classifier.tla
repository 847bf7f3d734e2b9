----------------------------- MODULE Classifier -----------------------------
(***************************************************************************)
(* The LLM classifier of detectors/llm.py as the inspector uses it: the     *)
(* verdict cache in SQLite (shared with other proxies), the circuit         *)
(* breaker, the call to Ollama, and the inspector's latency budget, which   *)
(* cancels classify() at whatever it awaits.                                *)
(*                                                                          *)
(* One classification runs at a time: only the s2c pump asks for one.  Time *)
(* passes in ticks; ages stop growing where nothing depends on them.        *)
(***************************************************************************)
EXTENDS Integers, Sequences

CONSTANTS Texts,      \* samples (their SHA-256 hashes)
          Threshold,  \* circuit_threshold
          OpenFor,    \* circuit_open_s, in ticks
          Ttl,        \* cache_ttl_s, in ticks
          CanTimeout  \* whether the inspector's budget may expire

ASSUME ClassifierAssumption ==
    /\ Threshold \in Nat \ {0}
    /\ OpenFor \in Nat \ {0}
    /\ Ttl \in Nat
    /\ CanTimeout \in BOOLEAN

VARIABLES pc,         \* what classify() awaits, "idle" when it does not run
          text,       \* the sample
          answer,     \* the label to be cached, and how long ago it was given
          cache,      \* cache[t]: label and age of the row, or no row
          failures,   \* _CircuitBreaker.failures
          opened,     \* ticks since opened_at; Closed when it is None
          result,     \* what the last classification returned
          answered,   \* history: answered[t][l]: ticks since Ollama said l of t
          recent,     \* history: ages of the failed calls since the last answer
          unanswered  \* history: calls without an answer since the last answer or cool-down

breaker == <<failures, opened>>
history == <<answered, recent, unanswered>>
vars == <<pc, text, answer, cache, breaker, result, history>>

Labels == {"DATA", "INSTRUCTION"}
Ages   == 0..(Ttl + 1)           \* Ttl + 1: older than the time to live
Closed == -1
NoRow  == [label |-> "none", age |-> Ttl + 1]

Older(a, limit) == IF a < limit THEN a + 1 ELSE a
Returned(reason, label) == [reason |-> reason, label |-> label]

TypeOK ==
    /\ pc \in {"idle", "lookup", "call", "upsert"}
    /\ text \in Texts
    /\ answer \in [label : Labels \cup {"none"}, age : Ages]
    /\ cache \in [Texts -> [label : Labels \cup {"none"}, age : Ages]]
    /\ failures \in 0..Threshold
    /\ opened \in {Closed} \cup 0..OpenFor
    /\ result \in [reason : {"none", "cache_hit", "circuit_open", "ok", "parse_error",
                             "error", "classifier_error", "inspection_timeout"},
                   label : Labels \cup {"none"}]
    /\ answered \in [Texts -> [Labels -> Ages]]
    /\ recent \in Seq(0..(OpenFor - 1))
    /\ unanswered \in 0..Threshold

Init ==
    /\ pc = "idle" /\ text \in Texts /\ answer = NoRow
    /\ cache = [t \in Texts |-> NoRow]
    /\ failures = 0 /\ opened = Closed
    /\ result = Returned("none", "none")
    /\ answered = [t \in Texts |-> [l \in Labels |-> Ttl + 1]]
    /\ recent = <<>> /\ unanswered = 0

-----------------------------------------------------------------------------
(* The breaker.                                                             *)

IsOpen_forGood == opened # Closed
IsOpen == opened # Closed /\ opened < OpenFor

Trips_beyond(n) == n > Threshold
Trips(n) == n >= Threshold

RecordSuccess == failures' = 0 /\ opened' = Closed
RecordFailure ==
    /\ failures' = failures + 1
    /\ opened' = IF Trips(failures + 1) THEN 0 ELSE opened

CountUnanswered == unanswered' = IF unanswered < Threshold THEN unanswered + 1 ELSE unanswered

-----------------------------------------------------------------------------
(* classify(), one action per await.                                        *)

Return(reason, label) == pc' = "idle" /\ result' = Returned(reason, label)

Start(t) ==
    /\ pc = "idle"
    /\ pc' = "lookup"
    /\ text' = t
    /\ result' = Returned("none", "none")
    /\ UNCHANGED <<answer, cache, breaker, history>>

Fresh_always(row) == row.label # "none"
Fresh(row) == row.label # "none" /\ row.age <= Ttl

LookupHit ==
    /\ pc = "lookup" /\ Fresh(cache[text])
    /\ Return("cache_hit", cache[text].label)
    /\ UNCHANGED <<text, answer, cache, breaker, history>>

\* Looking at the breaker after its cool-down closes it, and the next call
\* starts a new count: half-open is implicit.
LookupMiss ==
    /\ pc = "lookup" /\ ~Fresh(cache[text])
    /\ IF IsOpen
       THEN /\ Return("circuit_open", "none")
            /\ UNCHANGED <<breaker, unanswered>>
       ELSE /\ pc' = "call"
            /\ IF opened # Closed
               THEN failures' = 0 /\ opened' = Closed /\ unanswered' = 0
               ELSE UNCHANGED <<breaker, unanswered>>
            /\ UNCHANGED result
    /\ UNCHANGED <<text, answer, cache, answered, recent>>

\* Ollama answers with a label, or with text that is none.
Answered ==
    /\ pc = "call"
    /\ RecordSuccess
    /\ recent' = <<>> /\ unanswered' = 0
    /\ \/ /\ Return("parse_error", "none")
          /\ UNCHANGED <<answer, answered>>
       \/ \E l \in Labels :
             /\ answer' = [label |-> l, age |-> 0]
             /\ answered' = [answered EXCEPT ![text][l] = 0]
             /\ pc' = "upsert"
             /\ UNCHANGED result
    /\ UNCHANGED <<text, cache>>

CallFailed ==
    /\ pc = "call"
    /\ RecordFailure
    /\ recent' = Append(recent, 0)
    /\ CountUnanswered
    /\ Return("error", "none")
    /\ UNCHANGED <<text, answer, cache, answered>>

Upserted ==
    /\ pc = "upsert"
    /\ cache' = [cache EXCEPT ![text] = answer]
    /\ answer' = NoRow
    /\ Return("ok", answer.label)
    /\ UNCHANGED <<text, breaker, history>>

\* The database is busy: classify() raises, and the label it had is lost.
DatabaseFailed ==
    /\ pc \in {"lookup", "upsert"}
    /\ answer' = NoRow
    /\ Return("classifier_error", "none")
    /\ UNCHANGED <<text, cache, breaker, history>>

\* The inspector's wait_for cancels classify().  CancelledError is not an
\* Exception: the breaker does not hear of it.  A row that was handed to the
\* connection's thread is written all the same.
BudgetExpired ==
    /\ CanTimeout
    /\ pc # "idle"
    /\ cache' = IF pc = "upsert" THEN [cache EXCEPT ![text] = answer] ELSE cache
    /\ answer' = NoRow
    /\ IF pc = "call" THEN CountUnanswered ELSE UNCHANGED unanswered
    /\ Return("inspection_timeout", "none")
    /\ UNCHANGED <<text, breaker, answered, recent>>

-----------------------------------------------------------------------------
(* The environment: other proxies write the shared cache, time passes.      *)

OtherProxy(t, l) ==
    /\ cache' = [cache EXCEPT ![t] = [label |-> l, age |-> 0]]
    /\ answered' = [answered EXCEPT ![t][l] = 0]
    /\ UNCHANGED <<pc, text, answer, breaker, result, recent, unanswered>>

Tick ==
    /\ answer' = [answer EXCEPT !.age = Older(@, Ttl + 1)]
    /\ cache' = [t \in Texts |-> [cache[t] EXCEPT !.age = Older(@, Ttl + 1)]]
    /\ opened' = IF opened = Closed THEN Closed ELSE Older(opened, OpenFor)
    /\ answered' = [t \in Texts |-> [l \in Labels |-> Older(answered[t][l], Ttl + 1)]]
    /\ \E gone \in 0..Len(recent) :  \* the oldest calls come first
          /\ \A i \in DOMAIN recent : i <= gone <=> recent[i] + 1 >= OpenFor
          /\ recent' = [i \in 1..(Len(recent) - gone) |-> recent[i + gone] + 1]
    /\ result' = Returned("none", "none")
    /\ UNCHANGED <<pc, text, failures, unanswered>>

Next ==
    \/ \E t \in Texts : Start(t)
    \/ LookupHit \/ LookupMiss \/ Answered \/ CallFailed \/ Upserted
    \/ DatabaseFailed \/ BudgetExpired
    \/ \E t \in Texts, l \in Labels : OtherProxy(t, l)
    \/ Tick

\* Only time has to pass.
Spec == Init /\ [][Next]_vars /\ WF_vars(Tick)

-----------------------------------------------------------------------------
(* Properties.                                                              *)

\* A label from the cache is one that Ollama gave for this very text, at most
\* the time to live ago, whoever asked it and whatever was cancelled.
LabelIsRecent ==
    result.reason = "cache_hit" => answered[text][result.label] <= Ttl

\* An outage costs at most Threshold failed calls in any OpenFor ticks.
OutageCostBounded == Len(recent) <= Threshold

\* The breaker never stays open for good while texts are asked for that the
\* cache does not have.
BreakerRecloses == []<><<LookupMiss>>_vars => []<>(opened = Closed)

\* README.md: "three failed calls opens a circuit breaker for 60 s".  Does not
\* hold for an Ollama that is slower than the inspector's budget.
UnansweredCallsOpen == unanswered >= Threshold => opened # Closed
=============================================================================
