-------------------------- MODULE ClassifierProofs --------------------------
(***************************************************************************)
(* What holds of the classifier for every set of texts, threshold, cool-    *)
(* down, time to live, and whether or not the inspector's budget cancels    *)
(* it: labels of the cache are recent, and an outage costs a bounded number *)
(* of failed calls.                                                         *)
(***************************************************************************)
EXTENDS Classifier, TLAPS, SequenceTheorems

-----------------------------------------------------------------------------
(* The inductive invariant.                                                 *)

\* Every label that is stored or about to be is at least as old as the latest
\* time Ollama gave it for that text.
Backed(t, row) == row.label # "none" => answered[t][row.label] <= row.age

CacheInv ==
    /\ \A t \in Texts : Backed(t, cache[t])
    /\ Backed(text, answer)
    /\ pc = "upsert" <=> answer.label # "none"
    /\ result.reason = "cache_hit" =>
          result.label \in Labels /\ answered[text][result.label] <= Ttl

\* The breaker is closed while a call runs, it counts at least the failures
\* that `recent` holds, and while it is open none of them is younger than it.
BreakerInv ==
    /\ pc = "call" => opened = Closed
    /\ opened = Closed => failures < Threshold
    /\ Len(recent) <= failures
    /\ opened # Closed => \A i \in DOMAIN recent : opened <= recent[i]

IInv == TypeOK /\ CacheInv /\ BreakerInv

-----------------------------------------------------------------------------
(* Ages.                                                                    *)

\* Growing older keeps the order of two ages, up to the limit where they stop.
LEMMA OlderIsMonotone ==
    \A limit \in Nat : \A a, b \in 0..limit :
        /\ Older(a, limit) \in 0..limit
        /\ a <= b => Older(a, limit) <= Older(b, limit)
        /\ a <= Older(a, limit)
BY DEF Older

LEMMA Rows ==
    /\ Ttl \in Nat /\ Ttl + 1 \in Nat /\ 0 \in Ages /\ Ttl + 1 \in Ages /\ Ages = 0..(Ttl + 1)
    /\ NoRow \in [label : Labels \cup {"none"}, age : Ages] /\ NoRow.label = "none"
    /\ \A l \in Labels : l # "none"
BY ClassifierAssumption DEF Ages, NoRow, Labels

-----------------------------------------------------------------------------
(* The invariant is inductive.                                              *)

LEMMA InitHolds == Init => IInv
<1>1. SUFFICES ASSUME Init PROVE IInv
  OBVIOUS
<1>2. /\ recent = <<>> /\ recent \in Seq(0..(OpenFor - 1)) /\ Len(recent) = 0
      /\ DOMAIN recent = {}
  BY <1>1, EmptySeq DEF Init
<1>3. TypeOK
  <2>1. opened \in {Closed} \cup 0..OpenFor
    BY <1>1 DEF Init
  <2>2. result.reason = "none" /\ result.label = "none"
    BY <1>1 DEF Init, Returned
  <2>3. /\ failures \in 0..Threshold /\ unanswered \in 0..Threshold
    BY <1>1, ClassifierAssumption DEF Init
  <2>4. /\ cache \in [Texts -> [label : Labels \cup {"none"}, age : Ages]]
        /\ answer \in [label : Labels \cup {"none"}, age : Ages]
        /\ answered \in [Texts -> [Labels -> Ages]]
    BY <1>1, Rows DEF Init
  <2>5. result \in [reason : {"none", "cache_hit", "circuit_open", "ok", "parse_error",
                             "error", "classifier_error", "inspection_timeout"},
                   label : Labels \cup {"none"}]
    BY <1>1 DEF Init, Returned
  <2>6. QED BY <1>1, <1>2, <2>1, <2>3, <2>4, <2>5 DEF Init, TypeOK
<1>4. CacheInv
  BY <1>1, Rows DEF Init, CacheInv, Backed, Returned
<1>5. BreakerInv
  BY <1>1, <1>2, ClassifierAssumption DEF Init, BreakerInv
<1>6. QED BY <1>3, <1>4, <1>5 DEF IInv

\* What the calls of Return leave behind.
LEMMA Results ==
    ASSUME NEW reason \in {"none", "circuit_open", "ok", "parse_error", "error",
                           "classifier_error", "inspection_timeout"},
           NEW label \in Labels \cup {"none"}
    PROVE  /\ Returned(reason, label) \in
                  [reason : {"none", "cache_hit", "circuit_open", "ok", "parse_error",
                             "error", "classifier_error", "inspection_timeout"},
                   label : Labels \cup {"none"}]
           /\ Returned(reason, label).reason # "cache_hit"
BY DEF Returned

LEMMA StartKeeps == \A t \in Texts : IInv /\ Start(t) => IInv'
<1>1. SUFFICES ASSUME NEW t \in Texts, IInv, Start(t) PROVE IInv'
  OBVIOUS
<1>2. /\ TypeOK /\ CacheInv /\ BreakerInv /\ pc = "idle" /\ pc' = "lookup" /\ text' = t
      /\ result' = Returned("none", "none")
      /\ UNCHANGED <<answer, cache, failures, opened, answered, recent, unanswered>>
  BY <1>1 DEF IInv, Start, breaker, history
<1>3. TypeOK'
  BY <1>2, Results DEF TypeOK
<1>4. CacheInv'
  BY <1>2, Results DEF CacheInv, Backed
<1>5. BreakerInv'
  BY <1>2 DEF BreakerInv
<1>6. QED BY <1>3, <1>4, <1>5 DEF IInv

LEMMA LookupHitKeeps == IInv /\ LookupHit => IInv'
<1>1. SUFFICES ASSUME IInv, LookupHit PROVE IInv'
  OBVIOUS
<1>2. /\ TypeOK /\ CacheInv /\ BreakerInv /\ pc = "lookup" /\ pc' = "idle"
      /\ cache[text].label # "none" /\ cache[text].age <= Ttl
      /\ result' = Returned("cache_hit", cache[text].label)
      /\ UNCHANGED <<text, answer, cache, failures, opened, answered, recent, unanswered>>
  BY <1>1 DEF IInv, LookupHit, Fresh, Return, breaker, history
<1>3. /\ cache[text].label \in Labels /\ result'.reason = "cache_hit"
      /\ result'.label = cache[text].label
      /\ result' \in [reason : {"none", "cache_hit", "circuit_open", "ok", "parse_error",
                             "error", "classifier_error", "inspection_timeout"},
                   label : Labels \cup {"none"}]
  BY <1>2 DEF TypeOK, Returned
<1>4. answered[text][cache[text].label] <= Ttl
  <2>1. answered[text][cache[text].label] <= cache[text].age
    BY <1>2 DEF CacheInv, Backed, TypeOK
  <2>2. answered[text][cache[text].label] \in Nat /\ cache[text].age \in Nat
    BY <1>2, <1>3, Rows DEF TypeOK
  <2>3. QED BY <1>2, <2>1, <2>2, Rows
<1>5. TypeOK'
  BY <1>2, <1>3 DEF TypeOK
<1>6. CacheInv'
  BY <1>2, <1>3, <1>4 DEF CacheInv, Backed
<1>7. BreakerInv'
  BY <1>2 DEF BreakerInv
<1>8. QED BY <1>5, <1>6, <1>7 DEF IInv

\* A breaker that is closed because its cool-down is over forgets its failures,
\* and by then `recent` has forgotten them too.
LEMMA LookupMissKeeps == IInv /\ LookupMiss => IInv'
<1>1. SUFFICES ASSUME IInv, LookupMiss PROVE IInv'
  OBVIOUS
<1>2. /\ TypeOK /\ CacheInv /\ BreakerInv /\ pc = "lookup"
      /\ UNCHANGED <<text, answer, cache, answered, recent>>
  BY <1>1 DEF IInv, LookupMiss
<1>3. CASE IsOpen
  <2>1. /\ pc' = "idle" /\ result' = Returned("circuit_open", "none")
        /\ UNCHANGED <<failures, opened, unanswered>>
    BY <1>1, <1>3 DEF LookupMiss, Return, breaker
  <2>2. TypeOK'
    BY <1>2, <2>1, Results DEF TypeOK
  <2>3. CacheInv'
    BY <1>2, <2>1, Results DEF CacheInv, Backed
  <2>4. BreakerInv'
    BY <1>2, <2>1 DEF BreakerInv
  <2>5. QED BY <2>2, <2>3, <2>4 DEF IInv
<1>4. CASE ~IsOpen
  <2>1. /\ pc' = "call" /\ UNCHANGED result
        /\ \/ opened # Closed /\ failures' = 0 /\ opened' = Closed /\ unanswered' = 0
           \/ opened = Closed /\ UNCHANGED <<failures, opened, unanswered>>
    BY <1>1, <1>4 DEF LookupMiss, breaker
  <2>2. TypeOK'
    BY <1>2, <2>1, ClassifierAssumption DEF TypeOK
  <2>3. CacheInv'
    BY <1>2, <2>1 DEF CacheInv, Backed
  <2>4. CASE opened = Closed
    <3>1. failures' = failures /\ opened' = Closed /\ recent' = recent
      BY <1>2, <2>1, <2>4
    <3>2. failures < Threshold /\ Len(recent) <= failures
      BY <1>2, <2>4 DEF BreakerInv
    <3>3. failures' < Threshold /\ Len(recent') <= failures'
      BY <3>1, <3>2
    <3>4. BreakerInv'
      BY <3>1, <3>3 DEF BreakerInv
    <3>5. QED BY <2>2, <2>3, <3>4 DEF IInv
  <2>5. CASE opened # Closed
    <3>1. opened = OpenFor /\ OpenFor \in Nat
      BY <1>2, <1>4, <2>5, ClassifierAssumption DEF IsOpen, TypeOK
    <3>2. recent \in Seq(0..(OpenFor - 1)) /\ DOMAIN recent = 1..Len(recent) /\ Len(recent) \in Nat
      BY <1>2, LenProperties DEF TypeOK
    <3>3. Len(recent) = 0
      <4>1. ASSUME Len(recent) # 0 PROVE FALSE
        <5>1. 1 \in DOMAIN recent
          BY <3>2, <4>1
        <5>2. recent[1] \in 0..(OpenFor - 1) /\ OpenFor <= recent[1]
          BY <1>2, <2>5, <3>1, <3>2, <5>1, ElementOfSeq DEF BreakerInv
        <5>3. QED BY <3>1, <5>2
      <4>2. QED BY <4>1
    <3>4. failures' = 0 /\ opened' = Closed
      BY <2>1, <2>5
    <3>5. failures' < Threshold
      BY <3>4, ClassifierAssumption
    <3>6. Len(recent') <= failures'
      <4>1. Len(recent') = 0
        BY <1>2, <3>3
      <4>2. QED BY <3>4, <4>1
    <3>7. BreakerInv'
      BY <3>4, <3>5, <3>6 DEF BreakerInv
    <3>8. QED BY <2>2, <2>3, <3>7 DEF IInv
  <2>6. QED BY <2>4, <2>5
<1>5. QED BY <1>3, <1>4

LEMMA AnsweredKeeps == IInv /\ Answered => IInv'
<1>1. SUFFICES ASSUME IInv, Answered PROVE IInv'
  OBVIOUS
<1>2. /\ TypeOK /\ CacheInv /\ BreakerInv /\ pc = "call" /\ failures' = 0 /\ opened' = Closed
      /\ recent' = <<>> /\ unanswered' = 0 /\ UNCHANGED <<text, cache>>
  BY <1>1 DEF IInv, Answered, RecordSuccess
<1>3. recent' \in Seq(0..(OpenFor - 1)) /\ Len(recent') = 0
  BY <1>2, EmptySeq
<1>4. BreakerInv'
  <2>1. pc' # "call" \/ opened' = Closed
    BY <1>2
  <2>2. failures' < Threshold /\ Len(recent') <= failures'
    BY <1>2, <1>3, ClassifierAssumption
  <2>3. QED BY <1>2, <2>1, <2>2 DEF BreakerInv
<1>5. CASE /\ pc' = "idle" /\ result' = Returned("parse_error", "none")
           /\ UNCHANGED <<answer, answered>>
  <2>1. TypeOK'
    BY <1>2, <1>3, <1>5, Results, ClassifierAssumption DEF TypeOK
  <2>2. CacheInv'
    BY <1>2, <1>5, Results DEF CacheInv, Backed
  <2>3. QED BY <1>4, <2>1, <2>2 DEF IInv
<1>6. ASSUME NEW l \in Labels, answer' = [label |-> l, age |-> 0],
             answered' = [answered EXCEPT ![text][l] = 0], pc' = "upsert", UNCHANGED result
      PROVE  IInv'
  <2>1. /\ answered' \in [Texts -> [Labels -> Ages]]
        /\ answer' \in [label : Labels \cup {"none"}, age : Ages]
    BY <1>2, <1>6, Rows DEF TypeOK
  <2>2. TypeOK'
    BY <1>2, <1>3, <1>6, <2>1, ClassifierAssumption DEF TypeOK
  <2>3. /\ text \in Texts /\ \A t \in Texts, k \in Labels : answered[t][k] \in Nat
        /\ \A t \in Texts, k \in Labels :
              answered'[t][k] = IF t = text /\ k = l THEN 0 ELSE answered[t][k]
    BY <1>2, <1>6, Rows, SMTT(30) DEF TypeOK
  <2>4. \A t \in Texts, k \in Labels : answered'[t][k] <= answered[t][k] /\ answered'[t][k] \in Nat
    BY <2>3
  <2>5. \A t \in Texts : Backed(t, cache[t])'
    <3>1. SUFFICES ASSUME NEW t \in Texts, cache[t].label # "none"
                   PROVE  answered'[t][cache[t].label] <= cache[t].age
      BY <1>2 DEF Backed
    <3>2. cache[t].label \in Labels /\ cache[t].age \in Nat
      BY <1>2, <3>1, Rows, SMTT(30) DEF TypeOK
    <3>3. answered[t][cache[t].label] <= cache[t].age
      BY <1>2, <3>1 DEF CacheInv, Backed
    <3>4. QED BY <2>3, <2>4, <3>2, <3>3
  <2>6. Backed(text, answer)' /\ answer'.label # "none"
    BY <1>2, <1>6, <2>3, Rows DEF Backed
  <2>7. result'.reason = "cache_hit" =>
           result'.label \in Labels /\ answered'[text'][result'.label] <= Ttl
    <3>1. result.reason = "cache_hit" =>
             result.label \in Labels /\ answered[text][result.label] <= Ttl
      BY <1>2 DEF CacheInv
    <3>2. QED BY <1>2, <1>6, <2>3, <2>4, <3>1, Rows
  <2>8. CacheInv'
    BY <1>6, <2>5, <2>6, <2>7 DEF CacheInv
  <2>9. QED BY <1>4, <2>2, <2>8 DEF IInv
<1>7. QED BY <1>1, <1>5, <1>6 DEF Answered, Return

LEMMA CallFailedKeeps == IInv /\ CallFailed => IInv'
<1>1. SUFFICES ASSUME IInv, CallFailed PROVE IInv'
  OBVIOUS
<1>2. /\ TypeOK /\ CacheInv /\ BreakerInv /\ pc = "call" /\ pc' = "idle"
      /\ failures' = failures + 1 /\ opened' = (IF Trips(failures + 1) THEN 0 ELSE opened)
      /\ recent' = Append(recent, 0) /\ result' = Returned("error", "none")
      /\ unanswered' = (IF unanswered < Threshold THEN unanswered + 1 ELSE unanswered)
      /\ UNCHANGED <<text, answer, cache, answered>>
  BY <1>1 DEF IInv, CallFailed, RecordFailure, CountUnanswered, Return
<1>3. /\ opened = Closed /\ failures < Threshold /\ failures \in Nat /\ Threshold \in Nat \ {0}
      /\ OpenFor \in Nat \ {0} /\ recent \in Seq(0..(OpenFor - 1)) /\ unanswered \in 0..Threshold
  BY <1>2, ClassifierAssumption DEF BreakerInv, TypeOK
<1>4. /\ recent' \in Seq(0..(OpenFor - 1)) /\ Len(recent') = Len(recent) + 1 /\ Len(recent) \in Nat
      /\ DOMAIN recent' = 1..(Len(recent) + 1)
  <2>1. 0 \in 0..(OpenFor - 1)
    BY <1>3
  <2>2. QED BY <1>2, <1>3, <2>1, AppendProperties, LenProperties
<1>5. TypeOK'
  <2>1. failures' \in 0..Threshold /\ unanswered' \in 0..Threshold
    BY <1>2, <1>3
  <2>2. opened' \in {Closed} \cup 0..OpenFor
    BY <1>2, <1>3
  <2>3. QED BY <1>2, <1>4, <2>1, <2>2, Results DEF TypeOK
<1>6. CacheInv'
  BY <1>2, Results DEF CacheInv, Backed
<1>7. BreakerInv'
  <2>1. Len(recent') <= failures'
    BY <1>2, <1>3, <1>4 DEF BreakerInv
  <2>2. CASE Trips(failures + 1)
    <3>1. \A i \in DOMAIN recent' : 0 <= recent'[i]
      <4>1. PICK s \in Seq(0..(OpenFor - 1)) : s = recent'
        BY <1>4
      <4>2. \A i \in 1..Len(s) : s[i] \in 0..(OpenFor - 1)
        BY <4>1, ElementOfSeq
      <4>3. Len(s) = Len(recent) + 1
        BY <1>4, <4>1
      <4>4. QED BY <1>3, <1>4, <4>1, <4>2, <4>3
    <3>2. opened' = 0 /\ opened' # Closed
      BY <1>2, <2>2 DEF Closed
    <3>3. QED BY <1>2, <2>1, <3>1, <3>2 DEF BreakerInv
  <2>3. CASE ~Trips(failures + 1)
    <3>1. failures' < Threshold /\ opened' = Closed
      BY <1>2, <1>3, <2>3 DEF Trips
    <3>2. QED BY <1>2, <2>1, <3>1 DEF BreakerInv
  <2>4. QED BY <2>2, <2>3
<1>8. QED BY <1>5, <1>6, <1>7 DEF IInv

\* The row is written at the end, or by a cancelled classify(), or not at all.
LEMMA UpsertKeeps == IInv /\ (Upserted \/ DatabaseFailed \/ BudgetExpired) => IInv'
<1>1. SUFFICES ASSUME IInv, Upserted \/ DatabaseFailed \/ BudgetExpired PROVE IInv'
  OBVIOUS
<1>2. TypeOK /\ CacheInv /\ BreakerInv
  BY <1>1 DEF IInv
<1>3. /\ UNCHANGED <<text, failures, opened, answered, recent>>
      /\ pc' = "idle" /\ answer' = NoRow
      /\ \/ cache' = cache
         \/ pc = "upsert" /\ cache' = [cache EXCEPT ![text] = answer]
  BY <1>1 DEF Upserted, DatabaseFailed, BudgetExpired, Return, breaker, history
<1>4. \E reason \in {"ok", "classifier_error", "inspection_timeout"},
         label \in Labels \cup {"none"} : result' = Returned(reason, label)
  <2>1. answer.label \in Labels \cup {"none"} /\ "none" \in Labels \cup {"none"}
    BY <1>2 DEF TypeOK
  <2>2. QED BY <1>1, <2>1 DEF Upserted, DatabaseFailed, BudgetExpired, Return
<1>5. /\ result' \in [reason : {"none", "cache_hit", "circuit_open", "ok", "parse_error",
                             "error", "classifier_error", "inspection_timeout"},
                   label : Labels \cup {"none"}]
      /\ result'.reason # "cache_hit"
  BY <1>4, Results
<1>6. unanswered' \in 0..Threshold
  BY <1>1, <1>2, ClassifierAssumption
     DEF Upserted, DatabaseFailed, BudgetExpired, CountUnanswered, TypeOK, history
<1>7. TypeOK'
  <2>1. cache' \in [Texts -> [label : Labels \cup {"none"}, age : Ages]]
    BY <1>2, <1>3 DEF TypeOK
  <2>2. QED BY <1>2, <1>3, <1>5, <1>6, <2>1, Rows DEF TypeOK
<1>8. CacheInv'
  <2>1. \A t \in Texts : Backed(t, cache[t])'
    BY <1>2, <1>3 DEF CacheInv, Backed, TypeOK
  <2>2. QED BY <1>3, <1>5, <2>1, Rows DEF CacheInv, Backed
<1>9. BreakerInv'
  BY <1>2, <1>3 DEF BreakerInv
<1>10. QED BY <1>7, <1>8, <1>9 DEF IInv

LEMMA OtherProxyKeeps == \A t \in Texts, l \in Labels : IInv /\ OtherProxy(t, l) => IInv'
<1>1. SUFFICES ASSUME NEW u \in Texts, NEW l \in Labels, IInv, OtherProxy(u, l) PROVE IInv'
  OBVIOUS
<1>2. /\ TypeOK /\ CacheInv /\ BreakerInv
      /\ cache' = [cache EXCEPT ![u] = [label |-> l, age |-> 0]]
      /\ answered' = [answered EXCEPT ![u][l] = 0]
      /\ UNCHANGED <<pc, text, answer, failures, opened, result, recent, unanswered>>
  BY <1>1 DEF IInv, OtherProxy, breaker
<1>3. TypeOK'
  <2>1. /\ cache' \in [Texts -> [label : Labels \cup {"none"}, age : Ages]]
        /\ answered' \in [Texts -> [Labels -> Ages]]
    BY <1>2, Rows DEF TypeOK
  <2>2. QED BY <1>2, <2>1 DEF TypeOK
<1>4. /\ \A t \in Texts, k \in Labels :
            /\ answered[t][k] \in Nat
            /\ answered'[t][k] = IF t = u /\ k = l THEN 0 ELSE answered[t][k]
      /\ \A t \in Texts, k \in Labels : answered'[t][k] <= answered[t][k] /\ answered'[t][k] \in Nat
  <2>1. \A t \in Texts, k \in Labels :
            /\ answered[t][k] \in Nat
            /\ answered'[t][k] = IF t = u /\ k = l THEN 0 ELSE answered[t][k]
    <3>1. answered \in [Texts -> [Labels -> Ages]] /\ u \in Texts /\ l \in Labels
      BY <1>1, <1>2 DEF TypeOK
    <3>2. \A t \in Texts, k \in Labels : answered[t][k] \in Nat
      BY <3>1, Rows
    <3>3. \A t \in Texts, k \in Labels :
            answered'[t][k] = IF t = u /\ k = l THEN 0 ELSE answered[t][k]
      BY <1>2, <3>1
    <3>4. QED BY <3>2, <3>3
  <2>2. QED BY <2>1
<1>5. ASSUME NEW t \in Texts, NEW row \in [label : Labels \cup {"none"}, age : Ages], Backed(t, row)
      PROVE  Backed(t, row)'
  <2>1. SUFFICES ASSUME row.label # "none" PROVE answered'[t][row.label] <= row.age
    BY DEF Backed
  <2>2. row.label \in Labels /\ row.age \in Nat /\ answered[t][row.label] <= row.age
    BY <1>5, <2>1, Rows DEF Backed
  <2>3. QED BY <1>4, <2>2
<1>6. \A t \in Texts : Backed(t, cache[t])'
  <2>1. ASSUME NEW t \in Texts, t # u PROVE Backed(t, cache[t])'
    <3>1. cache'[t] = cache[t] /\ cache[t] \in [label : Labels \cup {"none"}, age : Ages]
      BY <1>2, <2>1 DEF TypeOK
    <3>2. Backed(t, cache[t])
      BY <1>2 DEF CacheInv
    <3>3. PICK row \in [label : Labels \cup {"none"}, age : Ages] : row = cache[t]
      BY <3>1
    <3>4. Backed(t, row)'
      BY <1>5, <3>2, <3>3
    <3>5. QED BY <3>1, <3>3, <3>4 DEF Backed
  <2>2. Backed(u, cache[u])'
    <3>1. cache'[u].label = l /\ cache'[u].age = 0 /\ answered'[u][l] = 0
      BY <1>2, <1>4 DEF TypeOK
    <3>2. QED BY <3>1 DEF Backed
  <2>3. QED BY <2>1, <2>2
<1>7. Backed(text, answer)'
  <2>1. text \in Texts /\ answer \in [label : Labels \cup {"none"}, age : Ages]
    BY <1>2 DEF TypeOK
  <2>2. PICK row \in [label : Labels \cup {"none"}, age : Ages] : row = answer
    BY <2>1
  <2>3. Backed(text, row)'
    BY <1>2, <1>5, <2>1, <2>2 DEF CacheInv, Backed
  <2>4. QED BY <1>2, <2>2, <2>3 DEF Backed
<1>8. result'.reason = "cache_hit" =>
           result'.label \in Labels /\ answered'[text'][result'.label] <= Ttl
  <2>1. text \in Texts /\ (result.reason = "cache_hit" =>
             result.label \in Labels /\ answered[text][result.label] <= Ttl)
    BY <1>2 DEF CacheInv, TypeOK
  <2>2. QED BY <1>2, <1>4, <2>1, Rows
<1>9. CacheInv'
  BY <1>2, <1>6, <1>7, <1>8 DEF CacheInv
<1>10. BreakerInv'
  BY <1>2 DEF BreakerInv
<1>11. QED BY <1>3, <1>9, <1>10 DEF IInv

LEMMA TickKeeps == IInv /\ Tick => IInv'
<1>1. SUFFICES ASSUME IInv, Tick PROVE IInv'
  OBVIOUS
<1>2. /\ TypeOK /\ CacheInv /\ BreakerInv
      /\ answer' = [answer EXCEPT !.age = Older(@, Ttl + 1)]
      /\ cache' = [t \in Texts |-> [cache[t] EXCEPT !.age = Older(@, Ttl + 1)]]
      /\ opened' = (IF opened = Closed THEN Closed ELSE Older(opened, OpenFor))
      /\ answered' = [t \in Texts |-> [l \in Labels |-> Older(answered[t][l], Ttl + 1)]]
      /\ result' = Returned("none", "none")
      /\ UNCHANGED <<pc, text, failures, unanswered>>
  BY <1>1 DEF IInv, Tick
<1>3. PICK gone \in 0..Len(recent) :
          /\ \A i \in DOMAIN recent : i <= gone <=> recent[i] + 1 >= OpenFor
          /\ recent' = [i \in 1..(Len(recent) - gone) |-> recent[i + gone] + 1]
  BY <1>1 DEF Tick
<1>4. /\ recent \in Seq(0..(OpenFor - 1)) /\ DOMAIN recent = 1..Len(recent) /\ Len(recent) \in Nat
      /\ \A i \in 1..Len(recent) : recent[i] \in 0..(OpenFor - 1)
      /\ OpenFor \in Nat \ {0}
  BY <1>2, LenProperties, ElementOfSeq, ClassifierAssumption DEF TypeOK
<1>5. \A i \in 1..(Len(recent) - gone) :
         /\ i + gone \in 1..Len(recent) /\ recent'[i] = recent[i + gone] + 1
         /\ recent'[i] \in 0..(OpenFor - 1)
  <2>1. \A i \in 1..(Len(recent) - gone) : i + gone \in 1..Len(recent) /\ ~(i + gone <= gone)
    BY <1>3, <1>4
  <2>2. \A i \in 1..(Len(recent) - gone) : recent'[i] = recent[i + gone] + 1
    BY <1>3
  <2>3. \A i \in 1..(Len(recent) - gone) : ~(recent[i + gone] + 1 >= OpenFor)
    BY <1>3, <1>4, <2>1
  <2>4. QED BY <1>4, <2>1, <2>2, <2>3
<1>6. /\ recent' \in Seq(0..(OpenFor - 1)) /\ Len(recent') = Len(recent) - gone
      /\ DOMAIN recent' = 1..(Len(recent) - gone)
  <2>1. Len(recent) - gone \in Nat
    BY <1>3, <1>4
  <2>2. recent' \in [1..(Len(recent) - gone) -> 0..(OpenFor - 1)]
    BY <1>3, <1>5
  <2>3. recent' \in Seq(0..(OpenFor - 1))
    <3>1. PICK n \in Nat : n = Len(recent) - gone
      BY <2>1
    <3>2. recent' \in UNION {[1..m -> 0..(OpenFor - 1)] : m \in Nat}
      BY <2>2, <3>1
    <3>3. QED BY <3>2, SeqDef
  <2>4. QED BY <2>1, <2>2, <2>3, LenProperties
<1>7. /\ cache' \in [Texts -> [label : Labels \cup {"none"}, age : Ages]]
      /\ answer' \in [label : Labels \cup {"none"}, age : Ages]
      /\ answered' \in [Texts -> [Labels -> Ages]]
  <2>1. \A a \in Ages : Older(a, Ttl + 1) \in Ages
    BY Rows, OlderIsMonotone
  <2>2. QED BY <1>2, <2>1 DEF TypeOK
<1>8. opened' \in {Closed} \cup 0..OpenFor
  BY <1>2, <1>4, OlderIsMonotone DEF TypeOK
<1>9. TypeOK'
  BY <1>2, <1>6, <1>7, <1>8, Results DEF TypeOK
<1>10. ASSUME NEW t \in Texts, NEW row \in [label : Labels \cup {"none"}, age : Ages], Backed(t, row)
       PROVE  row.label # "none" => answered'[t][row.label] <= Older(row.age, Ttl + 1)
  <2>1. SUFFICES ASSUME row.label # "none" PROVE answered'[t][row.label] <= Older(row.age, Ttl + 1)
    OBVIOUS
  <2>2. row.label \in Labels /\ row.age \in 0..(Ttl + 1) /\ answered[t][row.label] <= row.age
    BY <1>10, <2>1, Rows DEF Backed
  <2>3. /\ answered[t][row.label] \in 0..(Ttl + 1)
        /\ answered'[t][row.label] = Older(answered[t][row.label], Ttl + 1)
    BY <1>2, <2>2, Rows DEF TypeOK
  <2>4. QED BY <2>2, <2>3, Rows, OlderIsMonotone
<1>11. \A t \in Texts : Backed(t, cache[t])'
  <2>1. SUFFICES ASSUME NEW t \in Texts PROVE Backed(t, cache[t])'
    OBVIOUS
  <2>2. PICK row \in [label : Labels \cup {"none"}, age : Ages] : row = cache[t]
    BY <1>2 DEF TypeOK
  <2>3. cache'[t].label = row.label /\ cache'[t].age = Older(row.age, Ttl + 1)
    BY <1>2, <2>2 DEF TypeOK
  <2>4. row.label # "none" => answered'[t][row.label] <= Older(row.age, Ttl + 1)
    BY <1>2, <1>10, <2>2 DEF CacheInv
  <2>5. QED BY <2>3, <2>4 DEF Backed
<1>12. Backed(text, answer)' /\ answer'.label = answer.label
  <2>1. PICK row \in [label : Labels \cup {"none"}, age : Ages] : row = answer
    BY <1>2 DEF TypeOK
  <2>2. answer'.label = row.label /\ answer'.age = Older(row.age, Ttl + 1)
    BY <1>2, <2>1 DEF TypeOK
  <2>3. row.label # "none" => answered'[text][row.label] <= Older(row.age, Ttl + 1)
    <3>1. text \in Texts /\ Backed(text, row)
      BY <1>2, <2>1 DEF CacheInv, TypeOK
    <3>2. QED BY <1>10, <2>1, <3>1
  <2>4. QED BY <1>2, <2>1, <2>2, <2>3 DEF Backed
<1>13. CacheInv'
  BY <1>2, <1>11, <1>12, Results DEF CacheInv
<1>14. BreakerInv'
  <2>1. Len(recent') <= failures'
    BY <1>2, <1>3, <1>4, <1>6 DEF BreakerInv, TypeOK
  <2>2. opened' # Closed => \A i \in DOMAIN recent' : opened' <= recent'[i]
    <3>1. SUFFICES ASSUME opened' # Closed, NEW i \in 1..(Len(recent) - gone)
                   PROVE  opened' <= recent'[i]
      BY <1>6
    <3>2. opened # Closed /\ opened \in 0..OpenFor /\ opened' = Older(opened, OpenFor)
      BY <1>2, <3>1 DEF TypeOK
    <3>3. opened <= recent[i + gone] /\ recent[i + gone] \in 0..(OpenFor - 1)
      BY <1>2, <1>4, <1>5, <3>1, <3>2 DEF BreakerInv
    <3>4. QED BY <1>4, <1>5, <3>1, <3>2, <3>3 DEF Older
  <2>3. opened' = Closed => opened = Closed
    BY <1>2, <1>4 DEF TypeOK, Older, Closed
  <2>4. QED BY <1>2, <2>1, <2>2, <2>3 DEF BreakerInv
<1>15. QED BY <1>9, <1>13, <1>14 DEF IInv

LEMMA Invariance == Spec => []IInv
<1>1. IInv /\ UNCHANGED vars => IInv'
  BY DEF IInv, TypeOK, CacheInv, Backed, BreakerInv, vars, breaker, history
<1>2. IInv /\ [Next]_vars => IInv'
  BY <1>1, StartKeeps, LookupHitKeeps, LookupMissKeeps, AnsweredKeeps, CallFailedKeeps,
     UpsertKeeps, OtherProxyKeeps, TickKeeps DEF Next
<1>3. QED BY <1>2, InitHolds, PTL DEF Spec

-----------------------------------------------------------------------------
(* The theorems.                                                            *)

\* A label from the cache is one that Ollama gave for this very text at most the
\* time to live ago, whoever asked for it and whatever was cancelled.
THEOREM CachedLabelIsRecent == Spec => []LabelIsRecent
<1>1. IInv => LabelIsRecent
  BY DEF IInv, CacheInv, LabelIsRecent
<1>2. QED BY <1>1, Invariance, PTL

\* An outage costs at most circuit_threshold failed calls in any circuit_open_s.
THEOREM OutageIsBounded == Spec => []OutageCostBounded
<1>1. IInv => OutageCostBounded
  <2>1. SUFFICES ASSUME IInv PROVE OutageCostBounded
    OBVIOUS
  <2>2. Len(recent) <= failures /\ failures \in 0..Threshold /\ Len(recent) \in Nat
    BY <2>1, LenProperties DEF IInv, BreakerInv, TypeOK
  <2>3. QED BY <2>2, ClassifierAssumption DEF OutageCostBounded
<1>2. QED BY <1>1, Invariance, PTL
=============================================================================
