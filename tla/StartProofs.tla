---------------------------- MODULE StartProofs ----------------------------
(***************************************************************************)
(* Proofs about what a session's start depends on.                          *)
(*                                                                          *)
(* Migration, for any number of processes, any schema and any number of     *)
(* faults: a recorded version is whole, a race fails nobody, and a failed   *)
(* migration gives back what it held.                                       *)
(*                                                                          *)
(* Config, for any configuration files, with any rule packs and policy: a   *)
(* file that the validator passes is one the proxy starts with, as written. *)
(***************************************************************************)
EXTENDS Migration, Config, SequenceTheorems, TLAPS

\* The first n elements of a list.
FirstOf(list, n) == {list[i] : i \in {j \in DOMAIN list : j <= n}}

\* Where a process has the write lock, unless it failed or is about to close.
Holding == {"switch", "commit stamp", "migrate", "bump", "commit"}

\* A process that writes has the lock; one that has it writes, or has gone wrong
\* behind that, and what failed with the lock in hand leaked it.
LockInv(p) ==
    /\ pc[p] \in Holding => writer = p
    /\ writer = p => \/ pc[p] \in Holding \cup {"closing"}
                     \/ pc[p] = "failed" /\ conn[p] = "leaked" /\ faults > 0

\* open() raises behind a fault, or meets a switch to WAL; and without its
\* connection or leaking it.
FailureInv(p) ==
    /\ pc[p] \in {"closing", "failed"} =>
          /\ hit[p] # "none"
          /\ hit[p] = "switch" => journal # "wal"
          /\ hit[p] # "switch" => faults > 0
    /\ pc[p] = "failed" => conn[p] \in {"none", "leaked"}

\* How far a process that runs the base DDL, or is through with it, has come.
BaseInv(p) ==
    /\ pc[p] = "base" => at[p] \in DOMAIN Base /\ FirstOf(Base, at[p] - 1) \subseteq db
    /\ pc[p] \in {"pragma", "switch", "stamp", "commit stamp", "read version", "begin"} => at[p] = 1
    /\ pc[p] = "switch" => pending = {}
    /\ pc[p] \in {"stamp", "commit stamp"} \cup Guarded => Elements(Base) \subseteq db
    /\ pc[p] = "commit stamp" => pending = {"v1"}
    /\ pc[p] \in Guarded => "v1" \in db

\* How far a migration has come, and that it is committed as a whole.
MigrationInv(p) ==
    /\ pc[p] = "migrate" =>
          /\ at[p] \in DOMAIN Statements
          /\ FirstOf(Statements, at[p] - 1) \subseteq db \cup pending
    /\ pc[p] \in {"bump", "commit"} => Elements(Statements) \subseteq db \cup pending
    /\ pc[p] = "commit" => "v2" \in pending
    /\ pc[p] = "open" => "v2" \in db
    /\ "v2" \in pending /\ writer = p => pc[p] \in {"commit", "closing"}

ProcessInv(p) == LockInv(p) /\ FailureInv(p) /\ BaseInv(p) /\ MigrationInv(p)

IInv ==
    /\ TypeOK
    /\ Whole(db)
    /\ \A p \in Process : ProcessInv(p)
-----------------------------------------------------------------------------
(* Lists of statements.                                                     *)

\* Nothing comes before the first, one statement more is one object more, and
\* the last is followed by the first.
LEMMA Lists ==
    ASSUME NEW list \in Seq(Objects) \ {<<>>}
    PROVE  /\ 1 \in DOMAIN list /\ FirstOf(list, 0) = {}
           /\ Len(list) \in DOMAIN list /\ FirstOf(list, Len(list)) = Elements(list)
           /\ \A i \in DOMAIN list :
                 /\ i \in Nat \ {0}
                 /\ list[i] \in Elements(list) /\ FirstOf(list, i - 1) \subseteq Elements(list)
                 /\ FirstOf(list, i) = FirstOf(list, i - 1) \cup {list[i]}
                 /\ i # Len(list) => (i % Len(list)) + 1 = i + 1 /\ i + 1 \in DOMAIN list
                 /\ (Len(list) % Len(list)) + 1 = 1
<1>1. /\ DOMAIN list = 1..Len(list) /\ Len(list) \in Nat /\ Len(list) > 0
  BY LenProperties, EmptySeq
<1>2. \A i \in DOMAIN list : i # Len(list) => i % Len(list) = i
  BY <1>1
<1>3. Len(list) % Len(list) = 0
  BY <1>1
<1>4. FirstOf(list, Len(list)) = Elements(list)
  BY <1>1 DEF FirstOf, Elements
<1>5. \A i \in DOMAIN list : FirstOf(list, i) = FirstOf(list, i - 1) \cup {list[i]}
  BY <1>1 DEF FirstOf
<1>6. FirstOf(list, 0) = {}
  BY <1>1 DEF FirstOf
<1>7. \A i \in DOMAIN list : list[i] \in Elements(list) /\ FirstOf(list, i - 1) \subseteq Elements(list)
  BY <1>1 DEF FirstOf, Elements
<1>8. QED BY <1>1, <1>2, <1>3, <1>4, <1>5, <1>6, <1>7

-----------------------------------------------------------------------------
(* The invariant is inductive: a step of one process keeps what holds of    *)
(* the others, and what holds of itself by what the action does.            *)

LEMMA InitHolds == Init => IInv
<1>1. SUFFICES ASSUME Init PROVE IInv
  OBVIOUS
<1>2. db \subseteq Objects /\ Whole(db)
  BY <1>1, DatabasesAssumption DEF Init
<1>3. TypeOK
  BY <1>1, <1>2, BoundsAssumption DEF Init, TypeOK, Causes
<1>4. ASSUME NEW p \in Process PROVE ProcessInv(p)
  BY <1>1, ProcessAssumption
     DEF Init, ProcessInv, LockInv, FailureInv, BaseInv, MigrationInv, Holding, Guarded
<1>5. QED BY <1>2, <1>3, <1>4 DEF IInv

\* A step of p moves no other process, and takes no lock and no pending write
\* from it; what is committed stays.
StepOf(p) ==
    /\ \A q \in Process \ {p} :
          /\ pc'[q] = pc[q] /\ at'[q] = at[q] /\ conn'[q] = conn[q] /\ hit'[q] = hit[q]
          /\ writer' = q <=> writer = q
          /\ writer = q => pending' = pending
    /\ db \subseteq db'
    /\ journal' = "wal" => journal = "wal"
    /\ faults \in Nat /\ faults' \in Nat /\ faults <= faults'

LEMMA OthersKeep ==
    ASSUME IInv, NEW p \in Process, StepOf(p), TypeOK', Whole(db)', ProcessInv(p)'
    PROVE  IInv'
<1>1. ASSUME NEW q \in Process \ {p} PROVE ProcessInv(q)'
  <2>1. /\ ProcessInv(q)
        /\ pc'[q] = pc[q] /\ at'[q] = at[q] /\ conn'[q] = conn[q] /\ hit'[q] = hit[q]
        /\ writer' = q <=> writer = q
        /\ writer = q => pending' = pending
        /\ db \subseteq db'
        /\ journal' = "wal" => journal = "wal"
        /\ faults > 0 => faults' > 0
    BY DEF IInv, StepOf
  <2>2. LockInv(q)' /\ FailureInv(q)'
    BY <2>1 DEF ProcessInv, LockInv, FailureInv
  <2>3. BaseInv(q)'
    BY <2>1 DEF ProcessInv, LockInv, BaseInv, Holding
  <2>4. MigrationInv(q)'
    BY <2>1 DEF ProcessInv, LockInv, MigrationInv, Holding
  <2>5. QED BY <2>2, <2>3, <2>4 DEF ProcessInv
<1>2. QED BY <1>1 DEF IInv

\* p went on to a step, or went wrong: then the connection is closed behind a
\* guarded step and leaked behind any other.
WentWrong(p) ==
    /\ hit'[p] # "none"
    /\ hit'[p] = "switch" => journal' # "wal" /\ writer' # p
    /\ hit'[p] # "switch" => faults' > 0
    /\ \/ pc[p] \in Guarded /\ pc'[p] = "closing"
       \/ pc[p] \in Unguarded /\ pc'[p] = "failed" /\ conn'[p] = "leaked"

MovesOnly(p) ==
    /\ pc' \in [Process -> Steps \cup {"closed", "closing", "failed", "open"}]
    /\ conn' \in [Process -> {"none", "local", "kept", "leaked"}]
    /\ hit' \in [Process -> Causes]
    /\ faults \in Nat /\ faults' \in Nat /\ faults' \in 0..MaxFaults /\ faults <= faults'
    /\ \A q \in Process \ {p} : pc'[q] = pc[q] /\ conn'[q] = conn[q] /\ hit'[q] = hit[q]

LEMMA ContinueEffect ==
    ASSUME TypeOK, NEW p \in Process, pc[p] \in Steps,
           NEW step \in Steps \cup {"open"}, Continue(p, step)
    PROVE  MovesOnly(p) /\ (pc'[p] = step \/ WentWrong(p))
<1> USE DEF MovesOnly, WentWrong
<1>1. CASE /\ pc' = [pc EXCEPT ![p] = step]
           /\ conn' = [conn EXCEPT ![p] = IF step \in Guarded THEN "kept" ELSE @]
           /\ UNCHANGED <<hit, faults>>
  <2>1. faults \in Nat /\ faults' \in Nat /\ faults <= faults'
    BY <1>1, BoundsAssumption DEF TypeOK
  <2>2. QED BY <1>1, <2>1 DEF TypeOK
<1>2. CASE /\ faults < MaxFaults
           /\ faults' = faults + 1
           /\ hit' = [hit EXCEPT ![p] = "fault"]
           /\ pc' = [pc EXCEPT ![p] = Raised(p)]
           /\ conn' = [conn EXCEPT ![p] = IF pc[p] \in Unguarded THEN "leaked" ELSE @]
  <2>1. /\ faults \in Nat /\ faults' \in Nat /\ faults' \in 0..MaxFaults
        /\ faults <= faults' /\ faults' > 0
    BY <1>2, BoundsAssumption DEF TypeOK
  <2>2. /\ hit' \in [Process -> Causes] /\ hit'[p] = "fault"
        /\ \A q \in Process \ {p} : hit'[q] = hit[q]
    BY <1>2 DEF TypeOK, Causes
  <2>3. /\ pc[p] \in Guarded => Raised(p) = "closing" /\ pc[p] \notin Unguarded
        /\ pc[p] \in Unguarded => Raised(p) = "failed"
        /\ pc[p] \in Guarded \cup Unguarded
    BY DEF Raised, Closes, Steps, Guarded, Unguarded
  <2>4. QED BY <1>2, <2>1, <2>2, <2>3 DEF TypeOK
<1>3. QED BY <1>1, <1>2 DEF Continue

LEMMA OpenKeeps == ASSUME IInv, NEW p \in Process, Open(p) PROVE IInv'
<1> USE DEF Open
<1>1. TypeOK /\ ProcessInv(p) /\ pc'[p] = "pragma" /\ at'[p] = 1 /\ writer' # p
  BY DEF IInv, TypeOK, ProcessInv, LockInv, Holding
<1>2. StepOf(p)
  <2>1. faults \in Nat /\ faults' = faults
    BY <1>1, BoundsAssumption DEF TypeOK
  <2>2. QED BY <2>1 DEF IInv, TypeOK, StepOf
<1>3. TypeOK'
  <2>1. at' \in [Process -> Nat \ {0}] /\ hit' \in [Process -> Causes]
    BY <1>1 DEF TypeOK, Causes
  <2>2. opens' \in 0..MaxOpens
    BY <1>1, BoundsAssumption DEF TypeOK
  <2>3. QED BY <1>1, <2>1, <2>2 DEF TypeOK, Steps, Unguarded
<1>4. ProcessInv(p)'
  <2>2. BaseInv(p)'
    BY <1>1 DEF BaseInv, Guarded
  <2>3. LockInv(p)' /\ FailureInv(p)' /\ MigrationInv(p)'
    BY <1>1 DEF LockInv, FailureInv, MigrationInv, Holding
  <2>4. QED BY <2>2, <2>3 DEF ProcessInv
<1>5. QED BY <1>2, <1>3, <1>4, OthersKeep DEF IInv

\* The first statement of the base DDL has none before it.
LEMMA AtBase == 1 \in DOMAIN Base /\ 1 - 1 = 0 /\ FirstOf(Base, 0) = {}
BY StatementsAssumption, Lists

\* The switch to WAL: the pragma has nothing to do, takes the lock, gives it back.
LEMMA KeepWalKeeps == ASSUME IInv, NEW p \in Process, KeepWal(p) PROVE IInv'
<1>1. /\ TypeOK /\ Whole(db) /\ ProcessInv(p) /\ pc[p] = "pragma"
      /\ Continue(p, "base")
      /\ UNCHANGED <<db, journal, writer, pending, at, opens>>
  BY DEF IInv, KeepWal
<1>2. pc[p] \in Steps /\ "base" \in Steps /\ pc[p] \notin Guarded
  BY <1>1 DEF Steps, Unguarded, Guarded
<1>3. MovesOnly(p) /\ (pc'[p] = "base" \/ WentWrong(p))
  BY <1>1, <1>2, ContinueEffect
<1>4. TypeOK'
  BY <1>1, <1>3 DEF TypeOK, MovesOnly
<1>5. StepOf(p)
  BY <1>1, <1>3 DEF StepOf, MovesOnly
<1>6. ProcessInv(p)'
  BY <1>1, <1>3, AtBase DEF ProcessInv, LockInv, FailureInv, BaseInv, MigrationInv, Holding,
                            Guarded, Unguarded, WentWrong
<1>7. QED BY <1>1, <1>4, <1>5, <1>6, OthersKeep

LEMMA BeginSwitchKeeps == ASSUME IInv, NEW p \in Process, BeginSwitch(p) PROVE IInv'
<1>1. /\ TypeOK /\ Whole(db) /\ ProcessInv(p) /\ pc[p] = "pragma" /\ writer = "none"
      /\ writer' = p /\ pc' = [pc EXCEPT ![p] = "switch"]
      /\ UNCHANGED <<db, journal, pending, at, conn, hit, faults, opens>>
  BY DEF IInv, BeginSwitch
<1>2. /\ pc' \in [Process -> Steps \cup {"closed", "closing", "failed", "open"}]
      /\ pc'[p] = "switch" /\ \A q \in Process \ {p} : pc'[q] = pc[q]
      /\ pending = {} /\ at[p] = 1 /\ faults \in Nat
  <2>1. "switch" \in Steps
    BY DEF Steps, Unguarded
  <2>2. at[p] = 1
    BY <1>1 DEF ProcessInv, BaseInv
  <2>3. faults \in Nat
    BY <1>1, BoundsAssumption DEF TypeOK
  <2>4. pending = {}
    BY <1>1 DEF TypeOK
  <2>5. QED BY <1>1, <2>1, <2>2, <2>3, <2>4 DEF TypeOK
<1>3. TypeOK'
  BY <1>1, <1>2, ProcessAssumption DEF TypeOK
<1>4. StepOf(p)
  BY <1>1, <1>2, ProcessAssumption DEF StepOf
<1>5. ProcessInv(p)'
  BY <1>1, <1>2
     DEF ProcessInv, LockInv, FailureInv, BaseInv, MigrationInv, Holding, Guarded
<1>6. QED BY <1>1, <1>3, <1>4, <1>5, OthersKeep

LEMMA EndSwitchKeeps == ASSUME IInv, NEW p \in Process, EndSwitch(p) PROVE IInv'
<1>1. /\ TypeOK /\ Whole(db) /\ ProcessInv(p) /\ pc[p] = "switch" /\ writer = p
      /\ pending = {} /\ at[p] = 1
      /\ journal' = "switched" /\ writer' = "none" /\ Continue(p, "base")
      /\ UNCHANGED <<db, pending, at, opens>>
  BY DEF IInv, EndSwitch, ProcessInv, LockInv, BaseInv, Holding
<1>2. pc[p] \in Steps /\ "base" \in Steps /\ pc[p] \notin Guarded
  BY <1>1 DEF Steps, Unguarded, Guarded
<1>3. MovesOnly(p) /\ (pc'[p] = "base" \/ WentWrong(p))
  BY <1>1, <1>2, ContinueEffect
<1>4. TypeOK'
  BY <1>1, <1>3 DEF TypeOK, MovesOnly
<1>5. StepOf(p)
  BY <1>1, <1>3, ProcessAssumption DEF StepOf, MovesOnly
<1>6. ProcessInv(p)'
  BY <1>1, <1>3, AtBase, ProcessAssumption
     DEF ProcessInv, LockInv, FailureInv, BaseInv, MigrationInv, Holding, Guarded, Unguarded,
         WentWrong
<1>7. QED BY <1>1, <1>4, <1>5, <1>6, OthersKeep

LEMMA CreateBaseKeeps == ASSUME IInv, NEW p \in Process, CreateBase(p) PROVE IInv'
<1>1. /\ TypeOK /\ Whole(db) /\ ProcessInv(p) /\ pc[p] = "base"
      /\ db' = db \cup {Base[at[p]]}
      /\ at' = [at EXCEPT ![p] = (@ % Len(Base)) + 1]
      /\ writer # p
      /\ UNCHANGED <<journal, writer, pending, opens>>
  BY DEF IInv, CreateBase, ProcessInv, LockInv, Holding
<1>2. /\ at[p] \in DOMAIN Base /\ Base[at[p]] \in Elements(Base)
      /\ at'[p] = (at[p] % Len(Base)) + 1
      /\ FirstOf(Base, at[p]) \subseteq db'
  BY <1>1, StatementsAssumption, Lists DEF ProcessInv, BaseInv, TypeOK
<1>3. /\ MovesOnly(p)
      /\ \/ pc'[p] = "base" /\ at[p] # Len(Base)
         \/ pc'[p] = "stamp" /\ at[p] = Len(Base)
         \/ WentWrong(p)
  <2>1. CASE at[p] = Len(Base)
    <3>1. Continue(p, "stamp") /\ pc[p] \in Steps /\ "stamp" \in Steps /\ pc[p] \notin Guarded
      BY <1>1, <2>1 DEF CreateBase, Steps, Unguarded, Guarded
    <3>2. QED BY <1>1, <2>1, <3>1, ContinueEffect
  <2>2. CASE at[p] # Len(Base)
    <3>1. faults \in Nat /\ faults' \in Nat /\ faults <= faults'
      BY <1>1, <2>2, BoundsAssumption DEF CreateBase, TypeOK
    <3>2. QED BY <1>1, <2>2, <3>1 DEF CreateBase, TypeOK, MovesOnly
  <2>3. QED BY <2>1, <2>2
<1>4. at' \in [Process -> Nat \ {0}] /\ \A q \in Process \ {p} : at'[q] = at[q]
  <2>1. (at[p] % Len(Base)) + 1 \in Nat \ {0}
    BY <1>2, StatementsAssumption, Lists
  <2>2. QED BY <1>1, <2>1 DEF TypeOK
<1>5. TypeOK'
  BY <1>1, <1>2, <1>3, <1>4 DEF TypeOK, MovesOnly, Objects
<1>6. StepOf(p)
  BY <1>1, <1>3, <1>4 DEF StepOf, MovesOnly
<1>7. Whole(db)'
  BY <1>1, <1>2, StatementsAssumption DEF Whole, Objects
<1>8. ProcessInv(p)'
  <2>1. LockInv(p)' /\ FailureInv(p)' /\ MigrationInv(p)'
    BY <1>1, <1>3, ProcessAssumption
       DEF LockInv, FailureInv, MigrationInv, Holding, Guarded, WentWrong
  <2>2. BaseInv(p)'
    <3>1. CASE pc'[p] = "base" /\ at[p] # Len(Base)
      <4>1. at'[p] = at[p] + 1 /\ at'[p] \in DOMAIN Base /\ at'[p] - 1 = at[p]
        BY <1>2, <3>1, StatementsAssumption, Lists
      <4>2. QED BY <1>2, <3>1, <4>1 DEF BaseInv, Guarded
    <3>2. CASE pc'[p] = "stamp" /\ at[p] = Len(Base)
      <4>1. at'[p] = 1 /\ FirstOf(Base, at[p]) = Elements(Base)
        BY <1>2, <3>2, StatementsAssumption, Lists
      <4>2. QED BY <1>2, <3>2, <4>1 DEF BaseInv, Guarded
    <3>3. CASE WentWrong(p)
      BY <1>1, <3>3 DEF BaseInv, Guarded, WentWrong
    <3>4. QED BY <1>3, <3>1, <3>2, <3>3
  <2>3. QED BY <2>1, <2>2 DEF ProcessInv
<1>9. QED BY <1>5, <1>6, <1>7, <1>8, OthersKeep

\* StampOne, BeginImmediate: the lock was free and is taken.
LEMMA StampOneKeeps == ASSUME IInv, NEW p \in Process, StampOne(p) PROVE IInv'
<1>1. /\ TypeOK /\ Whole(db) /\ ProcessInv(p) /\ pc[p] = "stamp" /\ writer = "none"
      /\ writer' = p /\ pending' = {"v1"} /\ Continue(p, "commit stamp")
      /\ UNCHANGED <<db, journal, at, opens>>
  BY DEF IInv, StampOne
<1>2. pc[p] \in Steps /\ "commit stamp" \in Steps /\ pc[p] \notin Guarded
  BY <1>1 DEF Steps, Unguarded, Guarded
<1>3. MovesOnly(p) /\ (pc'[p] = "commit stamp" \/ WentWrong(p))
  BY <1>1, <1>2, ContinueEffect
<1>4. TypeOK'
  BY <1>1, <1>3, ProcessAssumption DEF TypeOK, MovesOnly, Objects
<1>5. StepOf(p)
  BY <1>1, <1>3, ProcessAssumption DEF StepOf, MovesOnly
<1>6. ProcessInv(p)'
  BY <1>1, <1>3, StatementsAssumption
     DEF ProcessInv, LockInv, FailureInv, BaseInv, MigrationInv, Holding, Guarded,
         Unguarded, WentWrong
<1>7. QED BY <1>1, <1>4, <1>5, <1>6, OthersKeep

LEMMA CommitStampKeeps == ASSUME IInv, NEW p \in Process, CommitStamp(p) PROVE IInv'
<1>1. /\ TypeOK /\ Whole(db) /\ ProcessInv(p) /\ pc[p] = "commit stamp" /\ writer = p
      /\ db' = db \cup pending /\ pending' = {} /\ writer' = "none"
      /\ Continue(p, "read version")
      /\ UNCHANGED <<journal, at, opens>>
  BY DEF IInv, CommitStamp, Commit
<1>2. pc[p] \in Steps /\ "read version" \in Steps /\ pc[p] \notin Guarded
  BY <1>1 DEF Steps, Unguarded, Guarded
<1>3. MovesOnly(p) /\ (pc'[p] = "read version" \/ WentWrong(p))
  BY <1>1, <1>2, ContinueEffect
<1>4. db' = db \cup {"v1"} /\ Elements(Base) \subseteq db /\ at[p] = 1
  BY <1>1 DEF ProcessInv, BaseInv
<1>5. TypeOK'
  BY <1>1, <1>3, <1>4 DEF TypeOK, MovesOnly, Objects
<1>6. StepOf(p)
  BY <1>1, <1>3, ProcessAssumption DEF StepOf, MovesOnly
<1>7. Whole(db)'
  BY <1>1, <1>4 DEF Whole, Objects
<1>8. ProcessInv(p)'
  BY <1>1, <1>3, <1>4, ProcessAssumption
     DEF ProcessInv, LockInv, FailureInv, BaseInv, MigrationInv, Holding, Guarded,
         Unguarded, WentWrong
<1>9. QED BY <1>5, <1>6, <1>7, <1>8, OthersKeep

LEMMA ReadVersionKeeps == ASSUME IInv, NEW p \in Process, ReadVersion(p) PROVE IInv'
<1>1. /\ TypeOK /\ Whole(db) /\ ProcessInv(p) /\ pc[p] = "read version"
      /\ UNCHANGED <<db, journal, writer, pending, at, opens>>
  BY DEF IInv, ReadVersion
<1>2. PICK step \in {"open", "begin"} : Continue(p, step) /\ (step = "open" => "v2" \in db)
  BY DEF ReadVersion
<1>3. pc[p] \in Steps /\ step \in Steps \cup {"open"} /\ pc[p] \notin Unguarded
  BY <1>1 DEF Steps, Unguarded, Guarded
<1>4. MovesOnly(p) /\ (pc'[p] = step \/ WentWrong(p))
  BY <1>1, <1>2, <1>3, ContinueEffect
<1>5. TypeOK'
  BY <1>1, <1>4 DEF TypeOK, MovesOnly
<1>6. StepOf(p)
  BY <1>1, <1>4 DEF StepOf, MovesOnly
<1>7. ProcessInv(p)'
  BY <1>1, <1>2, <1>4
     DEF ProcessInv, LockInv, FailureInv, BaseInv, MigrationInv, Holding, Guarded,
         Unguarded, WentWrong
<1>8. QED BY <1>1, <1>5, <1>6, <1>7, OthersKeep

LEMMA BeginImmediateKeeps == ASSUME IInv, NEW p \in Process, BeginImmediate(p) PROVE IInv'
<1>1. /\ TypeOK /\ Whole(db) /\ ProcessInv(p) /\ pc[p] = "begin" /\ writer = "none"
      /\ writer' = p /\ Continue(p, "migrate")
      /\ UNCHANGED <<db, journal, pending, at, opens>>
  BY DEF IInv, BeginImmediate
<1>2. pc[p] \in Steps /\ "migrate" \in Steps /\ pc[p] \notin Unguarded
  BY <1>1 DEF Steps, Unguarded, Guarded
<1>3. MovesOnly(p) /\ (pc'[p] = "migrate" \/ WentWrong(p))
  BY <1>1, <1>2, ContinueEffect
<1>4. pending = {} /\ at[p] = 1 /\ Elements(Base) \subseteq db /\ "v1" \in db
  BY <1>1 DEF TypeOK, ProcessInv, BaseInv, Guarded
<1>5. TypeOK'
  BY <1>1, <1>3, ProcessAssumption DEF TypeOK, MovesOnly
<1>6. StepOf(p)
  BY <1>1, <1>3, ProcessAssumption DEF StepOf, MovesOnly
<1>7. ProcessInv(p)'
  <2>1. 1 - 1 = 0 /\ 1 \in DOMAIN Statements /\ FirstOf(Statements, 0) = {}
    BY StatementsAssumption, Lists
  <2>2. MigrationInv(p)'
    BY <1>1, <1>3, <1>4, <2>1 DEF MigrationInv, WentWrong
  <2>3. LockInv(p)' /\ FailureInv(p)' /\ BaseInv(p)'
    BY <1>1, <1>3, <1>4
       DEF LockInv, FailureInv, BaseInv, Holding, Guarded, Unguarded, WentWrong
  <2>4. QED BY <2>2, <2>3 DEF ProcessInv
<1>8. QED BY <1>1, <1>5, <1>6, <1>7, OthersKeep

LEMMA MigrateKeeps == ASSUME IInv, NEW p \in Process, Migrate(p) PROVE IInv'
<1>1. /\ TypeOK /\ Whole(db) /\ ProcessInv(p) /\ pc[p] = "migrate" /\ writer = p
      /\ pending' = pending \cup ({Statements[at[p]]} \ db)
      /\ at' = [at EXCEPT ![p] = (@ % Len(Statements)) + 1]
      /\ Continue(p, AfterStatement(p))
      /\ UNCHANGED <<db, journal, writer, opens>>
  BY DEF IInv, Migrate, NextStatement, ProcessInv, LockInv, Holding
<1>2. /\ at[p] \in DOMAIN Statements /\ Statements[at[p]] \in Elements(Statements)
      /\ at'[p] = (at[p] % Len(Statements)) + 1
      /\ FirstOf(Statements, at[p]) \subseteq db' \cup pending'
      /\ "v2" \notin pending'
  <2>1. at[p] \in DOMAIN Statements /\ Statements[at[p]] \in Elements(Statements)
    BY <1>1, StatementsAssumption, Lists DEF ProcessInv, MigrationInv
  <2>2. FirstOf(Statements, at[p]) \subseteq db' \cup pending'
    BY <1>1, <2>1, StatementsAssumption, Lists DEF ProcessInv, MigrationInv
  <2>3. "v2" \notin pending'
    BY <1>1, <2>1, StatementsAssumption DEF ProcessInv, MigrationInv
  <2>4. QED BY <1>1, <2>1, <2>2, <2>3 DEF TypeOK
<1>3. AfterStatement(p) \in {"migrate", "bump"} /\ pc[p] \in Steps /\ pc[p] \notin Unguarded
  BY <1>1 DEF AfterStatement, Steps, Guarded, Unguarded
<1>4. MovesOnly(p) /\ (pc'[p] = AfterStatement(p) \/ WentWrong(p))
  BY <1>1, <1>3, ContinueEffect DEF Steps, Guarded
<1>5. at' \in [Process -> Nat \ {0}] /\ \A q \in Process \ {p} : at'[q] = at[q]
  <2>1. (at[p] % Len(Statements)) + 1 \in Nat \ {0}
    BY <1>2, StatementsAssumption, Lists
  <2>2. QED BY <1>1, <2>1 DEF TypeOK
<1>6. TypeOK'
  <2>1. pending' \subseteq Objects /\ writer' # "none"
    BY <1>1, <1>2, ProcessAssumption DEF TypeOK, Objects
  <2>2. QED BY <1>1, <1>4, <1>5, <2>1 DEF TypeOK, MovesOnly
<1>7. StepOf(p)
  BY <1>1, <1>4, <1>5, ProcessAssumption DEF StepOf, MovesOnly
<1>8. ProcessInv(p)'
  <2>1. BaseInv(p)'
    BY <1>1, <1>3, <1>4 DEF ProcessInv, BaseInv, Guarded, Unguarded, WentWrong
  <2>2. LockInv(p)' /\ FailureInv(p)'
    BY <1>1, <1>3, <1>4 DEF LockInv, FailureInv, Holding, Unguarded, WentWrong
  <2>3. MigrationInv(p)'
    <3>1. CASE pc'[p] = "migrate" /\ at[p] # Len(Statements)
      <4>1. at'[p] = at[p] + 1 /\ at'[p] \in DOMAIN Statements /\ at'[p] - 1 = at[p]
        BY <1>2, <3>1, StatementsAssumption, Lists
      <4>2. QED BY <1>2, <3>1, <4>1 DEF MigrationInv
    <3>2. CASE pc'[p] = "bump" /\ at[p] = Len(Statements)
      <4>1. FirstOf(Statements, at[p]) = Elements(Statements)
        BY <3>2, StatementsAssumption, Lists
      <4>2. QED BY <1>2, <3>2, <4>1 DEF MigrationInv
    <3>3. CASE WentWrong(p)
      BY <1>2, <1>3, <3>3 DEF MigrationInv, WentWrong
    <3>4. QED BY <1>4, <3>1, <3>2, <3>3 DEF AfterStatement
  <2>4. QED BY <2>1, <2>2, <2>3 DEF ProcessInv
<1>9. Whole(db)'
  BY <1>1 DEF Whole
<1>10. QED BY <1>6, <1>7, <1>8, <1>9, OthersKeep

\* The column is there: the error is tolerated, and the migration goes on.
LEMMA DuplicateColumnKeeps == ASSUME IInv, NEW p \in Process, DuplicateColumn(p) PROVE IInv'
<1>1. /\ TypeOK /\ Whole(db) /\ ProcessInv(p) /\ pc[p] = "migrate" /\ writer = p
      /\ Statements[at[p]] \in db \cup pending
      /\ at' = [at EXCEPT ![p] = (@ % Len(Statements)) + 1]
      /\ pc' = [pc EXCEPT ![p] = AfterStatement(p)]
      /\ UNCHANGED <<db, journal, writer, pending, conn, hit, faults, opens>>
  BY DEF IInv, DuplicateColumn, Error, Tolerated, Exists, NextStatement, ProcessInv, LockInv, Holding
<1>2. /\ at[p] \in DOMAIN Statements /\ at'[p] = (at[p] % Len(Statements)) + 1
      /\ FirstOf(Statements, at[p]) \subseteq db' \cup pending'
  <2>1. at[p] \in DOMAIN Statements
    BY <1>1 DEF ProcessInv, MigrationInv
  <2>2. FirstOf(Statements, at[p]) \subseteq db' \cup pending'
    BY <1>1, <2>1, StatementsAssumption, Lists DEF ProcessInv, MigrationInv
  <2>3. QED BY <1>1, <2>1, <2>2 DEF TypeOK
<1>3. /\ pc'[p] = AfterStatement(p) /\ AfterStatement(p) \in {"migrate", "bump"}
      /\ pc' \in [Process -> Steps \cup {"closed", "closing", "failed", "open"}]
      /\ \A q \in Process \ {p} : pc'[q] = pc[q]
  BY <1>1 DEF AfterStatement, TypeOK, Steps, Guarded
<1>4. at' \in [Process -> Nat \ {0}] /\ \A q \in Process \ {p} : at'[q] = at[q]
  <2>1. (at[p] % Len(Statements)) + 1 \in Nat \ {0}
    BY <1>2, StatementsAssumption, Lists
  <2>2. QED BY <1>1, <2>1 DEF TypeOK
<1>5. TypeOK'
  BY <1>1, <1>3, <1>4 DEF TypeOK
<1>6. StepOf(p)
  <2>1. faults \in Nat /\ faults <= faults'
    BY <1>1, BoundsAssumption DEF TypeOK
  <2>2. QED BY <1>1, <1>3, <1>4, <2>1 DEF StepOf
<1>7. ProcessInv(p)'
  <2>1. LockInv(p)' /\ FailureInv(p)' /\ BaseInv(p)'
    BY <1>1, <1>3 DEF ProcessInv, LockInv, FailureInv, BaseInv, Holding, Guarded
  <2>2. MigrationInv(p)'
    <3>1. CASE at[p] # Len(Statements)
      <4>1. at'[p] = at[p] + 1 /\ at'[p] \in DOMAIN Statements /\ at'[p] - 1 = at[p]
        BY <1>2, <3>1, StatementsAssumption, Lists
      <4>2. QED BY <1>1, <1>2, <1>3, <3>1, <4>1 DEF ProcessInv, MigrationInv, AfterStatement
    <3>2. CASE at[p] = Len(Statements)
      <4>1. FirstOf(Statements, at[p]) = Elements(Statements)
        BY <3>2, StatementsAssumption, Lists
      <4>2. QED BY <1>1, <1>2, <1>3, <3>2, <4>1 DEF ProcessInv, MigrationInv, AfterStatement
    <3>3. QED BY <3>1, <3>2
  <2>3. QED BY <2>1, <2>2 DEF ProcessInv
<1>8. QED BY <1>1, <1>5, <1>6, <1>7, OthersKeep DEF Whole

LEMMA BumpKeeps == ASSUME IInv, NEW p \in Process, Bump(p) PROVE IInv'
<1>1. /\ TypeOK /\ Whole(db) /\ ProcessInv(p) /\ pc[p] = "bump" /\ writer = p
      /\ pending' = pending \cup {"v2"} /\ Continue(p, "commit")
      /\ UNCHANGED <<db, journal, writer, at, opens>>
  BY DEF IInv, Bump, ProcessInv, LockInv, Holding
<1>2. pc[p] \in Steps /\ "commit" \in Steps /\ pc[p] \notin Unguarded
  BY <1>1 DEF Steps, Unguarded, Guarded
<1>3. MovesOnly(p) /\ (pc'[p] = "commit" \/ WentWrong(p))
  BY <1>1, <1>2, ContinueEffect
<1>4. TypeOK'
  BY <1>1, <1>3, ProcessAssumption DEF TypeOK, MovesOnly, Objects
<1>5. StepOf(p)
  BY <1>1, <1>3, ProcessAssumption DEF StepOf, MovesOnly
<1>6. ProcessInv(p)'
  BY <1>1, <1>3
     DEF ProcessInv, LockInv, FailureInv, BaseInv, MigrationInv, Holding, Guarded,
         Unguarded, WentWrong
<1>7. QED BY <1>1, <1>4, <1>5, <1>6, OthersKeep

\* Version 2 is committed together with every object of it.
LEMMA CommitMigrationKeeps == ASSUME IInv, NEW p \in Process, CommitMigration(p) PROVE IInv'
<1>1. /\ TypeOK /\ Whole(db) /\ ProcessInv(p) /\ pc[p] = "commit" /\ writer = p
      /\ db' = db \cup pending /\ pending' = {} /\ writer' = "none"
      /\ Continue(p, "open")
      /\ UNCHANGED <<journal, at, opens>>
  BY DEF IInv, CommitMigration, Commit
<1>2. pc[p] \in Steps /\ pc[p] \notin Unguarded
  BY <1>1 DEF Steps, Unguarded, Guarded
<1>3. MovesOnly(p) /\ (pc'[p] = "open" \/ WentWrong(p))
  BY <1>1, <1>2, ContinueEffect
<1>4. db' \subseteq Objects /\ Objects \subseteq db'
  <2>1. /\ Elements(Base) \subseteq db /\ "v1" \in db /\ "v2" \in pending
        /\ Elements(Statements) \subseteq db \cup pending
    BY <1>1 DEF ProcessInv, BaseInv, MigrationInv, Guarded
  <2>2. QED BY <1>1, <2>1 DEF TypeOK, Objects
<1>5. TypeOK'
  BY <1>1, <1>3, <1>4 DEF TypeOK, MovesOnly
<1>6. StepOf(p)
  BY <1>1, <1>3, ProcessAssumption DEF StepOf, MovesOnly
<1>7. Whole(db)'
  BY <1>4 DEF Whole, Objects
<1>8. "v2" \in db'
  BY <1>4 DEF Objects
<1>9. ProcessInv(p)'
  BY <1>1, <1>3, <1>8, ProcessAssumption
     DEF ProcessInv, LockInv, FailureInv, BaseInv, MigrationInv, Holding, Guarded,
         Unguarded, WentWrong
<1>10. QED BY <1>5, <1>6, <1>7, <1>9, OthersKeep

\* A failed statement rolls the migration back; before the migration nothing
\* does, and the connection is leaked with what it holds.
LEMMA FailKeeps == ASSUME IInv, NEW p \in Process, Fail(p) PROVE IInv'
<1>1. /\ TypeOK /\ Whole(db) /\ ProcessInv(p) /\ pc[p] \in Guarded \cup Unguarded
      /\ hit' = [hit EXCEPT ![p] = "fault"]
      /\ faults < MaxFaults /\ faults' = faults + 1
      /\ UNCHANGED <<db, journal, at, opens>>
  BY DEF IInv, Fail, Error, Tolerated, Steps
<1>2. /\ IF writer = p /\ pc[p] # "commit stamp"
         THEN writer' = "none" /\ pending' = {}
         ELSE UNCHANGED <<writer, pending>>
      /\ pc' = [pc EXCEPT ![p] = IF pc[p] \in Guarded THEN "closing" ELSE "failed"]
      /\ conn' = [conn EXCEPT ![p] = IF pc[p] \in Unguarded THEN "leaked" ELSE @]
  BY DEF Fail, Error, Tolerated, Raised, Closes
<1>3. /\ hit' \in [Process -> Causes] /\ hit'[p] = "fault" /\ faults' \in 0..MaxFaults
      /\ faults \in Nat /\ faults' \in Nat /\ faults <= faults' /\ faults' > 0
      /\ \A q \in Process \ {p} : hit'[q] = hit[q]
  BY <1>1, BoundsAssumption DEF TypeOK, Causes
<1>4. TypeOK'
  <2>1. /\ pc' \in [Process -> Steps \cup {"closed", "closing", "failed", "open"}]
        /\ conn' \in [Process -> {"none", "local", "kept", "leaked"}]
    BY <1>1, <1>2 DEF TypeOK
  <2>2. QED BY <1>1, <1>2, <1>3, <2>1 DEF TypeOK
<1>5. WentWrong(p) /\ \A q \in Process \ {p} : pc'[q] = pc[q] /\ conn'[q] = conn[q]
  BY <1>1, <1>2, <1>3 DEF TypeOK, WentWrong, Guarded, Unguarded
<1>6. StepOf(p)
  BY <1>1, <1>2, <1>3, <1>5, ProcessAssumption DEF StepOf
<1>7. ProcessInv(p)'
  BY <1>1, <1>2, <1>3, <1>5, ProcessAssumption
     DEF ProcessInv, LockInv, FailureInv, BaseInv, MigrationInv, Holding, Guarded,
         Unguarded, WentWrong
<1>8. QED BY <1>1, <1>4, <1>6, <1>7, OthersKeep

\* "database is locked": p raises, for a cause that is not the race itself.
LEMMA LockedOutKeeps ==
    ASSUME IInv, NEW p \in Process, NEW why \in Causes \ {"none"}, LockedOut(p, why),
           pc[p] \in {"pragma", "base", "stamp", "begin"},
           faults' \in 0..MaxFaults, faults <= faults',
           why = "switch" => journal # "wal" /\ writer # p,
           why # "switch" => faults' > 0
    PROVE  IInv'
<1>1. /\ TypeOK /\ Whole(db) /\ ProcessInv(p)
      /\ pc[p] \in Guarded \cup Unguarded /\ faults \in Nat
      /\ hit' = [hit EXCEPT ![p] = why]
      /\ pc' = [pc EXCEPT ![p] = IF pc[p] \in Guarded THEN "closing" ELSE "failed"]
      /\ conn' = [conn EXCEPT ![p] = IF pc[p] \in Unguarded THEN "leaked" ELSE @]
      /\ UNCHANGED <<db, journal, writer, pending, at, opens>>
  <2>1. TypeOK /\ Whole(db) /\ ProcessInv(p) /\ faults \in Nat
    BY BoundsAssumption DEF IInv, TypeOK
  <2>2. /\ pc[p] \in Guarded \cup Unguarded
        /\ Raised(p) = IF pc[p] \in Guarded THEN "closing" ELSE "failed"
    BY DEF Raised, Closes, Guarded, Unguarded
  <2>3. QED BY <2>1, <2>2 DEF LockedOut
<1>2. /\ hit' \in [Process -> Causes] /\ hit'[p] = why
      /\ \A r \in Process \ {p} : hit'[r] = hit[r]
  BY <1>1 DEF TypeOK
<1>3. TypeOK'
  <2>1. /\ pc' \in [Process -> Steps \cup {"closed", "closing", "failed", "open"}]
        /\ conn' \in [Process -> {"none", "local", "kept", "leaked"}]
    BY <1>1 DEF TypeOK
  <2>2. QED BY <1>1, <1>2, <2>1 DEF TypeOK
<1>4. WentWrong(p) /\ \A r \in Process \ {p} : pc'[r] = pc[r] /\ conn'[r] = conn[r]
  BY <1>1, <1>2 DEF TypeOK, WentWrong, Guarded, Unguarded
<1>5. StepOf(p)
  BY <1>1, <1>2, <1>4 DEF StepOf
<1>6. ProcessInv(p)'
  BY <1>1, <1>2, <1>4
     DEF ProcessInv, LockInv, FailureInv, BaseInv, MigrationInv, Holding, Guarded,
         Unguarded, WentWrong
<1>7. QED BY <1>1, <1>3, <1>5, <1>6, OthersKeep

\* The pragma meets another process that is switching.
LEMMA MeetsSwitchKeeps == ASSUME IInv, NEW p \in Process, MeetsSwitch(p) PROVE IInv'
<1>1. faults' \in 0..MaxFaults /\ faults <= faults'
  BY BoundsAssumption DEF IInv, TypeOK, MeetsSwitch
<1>2. "switch" \in Causes \ {"none"}
  BY DEF Causes
<1>3. QED BY <1>1, <1>2, LockedOutKeeps DEF MeetsSwitch

\* The lock is waited for in vain behind a connection that was leaked, which a
\* fault did, or behind a slow process, which counts as one.
LEMMA LockedKeeps == ASSUME IInv, NEW p \in Process, Locked(p) PROVE IInv'
<1>1. PICK q \in Process \ {p} :
         /\ writer = q /\ pc[q] = "failed"
         /\ LockedOut(p, IF conn[q] = "leaked" THEN "locked" ELSE hit[p])
  BY DEF Locked
<1>2. conn[q] = "leaked" /\ faults > 0
  BY <1>1 DEF IInv, ProcessInv, LockInv, Holding
<1>3. LockedOut(p, "locked") /\ "locked" \in Causes \ {"none"}
  BY <1>1, <1>2 DEF Causes
<1>4. faults' \in 0..MaxFaults /\ faults <= faults' /\ faults' > 0
  BY <1>2, BoundsAssumption DEF IInv, TypeOK, Locked
<1>5. pc[p] \in {"pragma", "base", "stamp", "begin"}
  BY DEF Locked, WaitsForLock
<1>6. QED BY <1>3, <1>4, <1>5, LockedOutKeeps

LEMMA SlowHolderKeeps == ASSUME IInv, NEW p \in Process, SlowHolder(p) PROVE IInv'
<1>1. LockedOut(p, "locked") /\ "locked" \in Causes \ {"none"}
  BY DEF SlowHolder, Causes
<1>2. faults' \in 0..MaxFaults /\ faults <= faults' /\ faults' > 0
  BY BoundsAssumption DEF IInv, TypeOK, SlowHolder
<1>3. pc[p] \in {"pragma", "base", "stamp", "begin"}
  BY DEF SlowHolder, WaitsForLock
<1>4. QED BY <1>1, <1>2, <1>3, LockedOutKeeps

\* What CloseFailed, Exit and Kill have in common: the connection is gone, and
\* with it the lock and what was pending.
LEMMA GoneKeeps ==
    ASSUME IInv, NEW p \in Process, Release(p), faults' \in 0..MaxFaults, faults <= faults',
           NEW stage \in {"failed", "closed"}, stage = "failed" => pc[p] = "closing",
           pc' = [pc EXCEPT ![p] = stage], conn' = [conn EXCEPT ![p] = "none"],
           UNCHANGED <<db, journal, at, hit, opens>>
    PROVE  IInv'
<1>1. TypeOK /\ Whole(db) /\ ProcessInv(p)
  BY DEF IInv
<1>2. /\ pc' \in [Process -> Steps \cup {"closed", "closing", "failed", "open"}]
      /\ conn' \in [Process -> {"none", "local", "kept", "leaked"}]
      /\ pc'[p] = stage /\ conn'[p] = "none"
      /\ \A q \in Process \ {p} : pc'[q] = pc[q] /\ conn'[q] = conn[q]
  BY <1>1 DEF TypeOK
<1>3. /\ writer' # p
      /\ IF writer = p THEN writer' = "none" /\ pending' = {}
         ELSE UNCHANGED <<writer, pending>>
  BY ProcessAssumption DEF Release
<1>4. TypeOK'
  BY <1>1, <1>2, <1>3 DEF TypeOK
<1>5. StepOf(p)
  <2>1. faults \in Nat
    BY <1>1, BoundsAssumption DEF TypeOK
  <2>2. QED BY <1>2, <1>3, <2>1, ProcessAssumption DEF StepOf
<1>6. ProcessInv(p)'
  <2>1. faults > 0 => faults' > 0
    BY <1>1, BoundsAssumption DEF TypeOK
  <2>2. QED BY <1>1, <1>2, <1>3, <2>1
     DEF ProcessInv, LockInv, FailureInv, BaseInv, MigrationInv, Holding, Guarded
<1>7. QED BY <1>1, <1>4, <1>5, <1>6, OthersKeep DEF Whole

LEMMA CloseFailedKeeps == ASSUME IInv, NEW p \in Process, CloseFailed(p) PROVE IInv'
<1>1. faults' \in 0..MaxFaults /\ faults <= faults'
  BY BoundsAssumption DEF IInv, TypeOK, CloseFailed
<1>2. QED BY <1>1, GoneKeeps DEF CloseFailed

LEMMA ExitKeeps == ASSUME IInv, NEW p \in Process, Exit(p) PROVE IInv'
<1>1. faults' \in 0..MaxFaults /\ faults <= faults'
  BY BoundsAssumption DEF IInv, TypeOK, Exit
<1>2. QED BY <1>1, GoneKeeps DEF Exit, Gone

LEMMA KillKeeps == ASSUME IInv, NEW p \in Process, Kill(p) PROVE IInv'
<1>1. faults' \in 0..MaxFaults /\ faults <= faults'
  BY BoundsAssumption DEF IInv, TypeOK, Kill
<1>2. QED BY <1>1, GoneKeeps DEF Kill, Gone

LEMMA StutterKeeps == IInv /\ UNCHANGED vars => IInv'
<1>1. SUFFICES ASSUME IInv, UNCHANGED vars PROVE IInv'
  OBVIOUS
<1>2. TypeOK' /\ Whole(db)'
  BY <1>1 DEF IInv, TypeOK, Whole, vars
<1>3. ASSUME NEW p \in Process PROVE ProcessInv(p)'
  BY <1>1 DEF IInv, vars, ProcessInv, LockInv, FailureInv, BaseInv, MigrationInv
<1>4. QED BY <1>2, <1>3 DEF IInv

LEMMA StepKeeps == IInv /\ [Next]_vars => IInv'
<1>1. SUFFICES ASSUME IInv, [Next]_vars PROVE IInv'
  OBVIOUS
<1>2. ASSUME NEW p \in Process, Step(p) PROVE IInv'
  BY <1>1, <1>2, CreateBaseKeeps, StampOneKeeps, CommitStampKeeps, ReadVersionKeeps,
     BeginImmediateKeeps, MigrateKeeps, DuplicateColumnKeeps, BumpKeeps,
     CommitMigrationKeeps, LockedKeeps, CloseFailedKeeps, KeepWalKeeps, BeginSwitchKeeps,
     EndSwitchKeeps, MeetsSwitchKeeps
     DEF Step
<1>3. ASSUME NEW p \in Process, Open(p) \/ Fail(p) \/ SlowHolder(p) \/ Exit(p) \/ Kill(p) PROVE IInv'
  BY <1>1, <1>3, OpenKeeps, FailKeeps, SlowHolderKeeps, ExitKeeps, KillKeeps
<1>4. QED BY <1>1, <1>2, <1>3, StutterKeeps DEF Next

LEMMA Invariance == Spec => []IInv
<1>1. Init => IInv
  BY InitHolds
<1>2. IInv /\ [Next]_vars => IInv'
  BY StepKeeps
<1>3. QED BY <1>1, <1>2, PTL DEF Spec

-----------------------------------------------------------------------------
\* Storage.open: whatever is killed, cancelled or fails in any number of
\* processes, a version recorded in the database has all its objects, and
\* open() returns only at version 2.
THEOREM RecordedIsWhole == Spec => []SchemaIsWhole
<1>1. IInv => SchemaIsWhole
  BY DEF IInv, ProcessInv, MigrationInv, SchemaIsWhole
<1>2. QED BY <1>1, Invariance, PTL

\* Storage.open: any number of processes may race through the migration.  In a
\* database in WAL mode open() raises only when a statement failed or was slow, or
\* was cancelled; in any other it may also raise when two processes switch at once.
THEOREM RaceFailsNobody == Spec => []RaceIsHarmless
<1>1. IInv => RaceIsHarmless
  BY DEF IInv, ProcessInv, FailureInv, RaceIsHarmless
<1>2. QED BY <1>1, Invariance, PTL

\* The handler of open(): a process whose migration failed holds neither the
\* write lock nor a connection.
THEOREM FailureReleases == Spec => []FailedMigrationReleases
<1>1. ASSUME IInv, NEW p \in Process, pc[p] = "failed", conn[p] # "leaked"
      PROVE  conn[p] = "none" /\ writer # p
  <2>1. LockInv(p) /\ FailureInv(p)
    BY <1>1 DEF IInv, ProcessInv
  <2>2. QED BY <1>1, <2>1 DEF LockInv, FailureInv, Holding
<1>2. IInv => FailedMigrationReleases
  BY <1>1 DEF FailedMigrationReleases
<1>3. QED BY <1>2, Invariance, PTL

-----------------------------------------------------------------------------
(* The report.                                                              *)

ReportRow == [check : 1..8, status : {"pass", "warn", "fail", "skip"}]

\* Nothing has failed so far.
Clean == ~raised /\ \A i \in DOMAIN report : report[i].status # "fail"

\* What the checks before the next one have found out if nothing failed.
Found ==
    /\ next > 1 => input.form \in {"unparsable", "parsed"}
    /\ next > 2 => input.form = "parsed" /\ (input.top = "null" \/ IsMapping(input.top))
    /\ next > 4 => \A path \in Sections : ~Replaced(path)
    /\ next > 5 => ~FieldErrors
    /\ next > 6 => Resolves
    /\ next > 7 => LoadsPolicy
    /\ next > 8 => LoadsRules

ConfigInv == next \in 1..9 /\ report \in Seq(ReportRow) /\ raised \in BOOLEAN /\ (Clean => Found)

\* The findings are about the file, which nobody changes.
LEMMA SameFile ==
    UNCHANGED input =>
        /\ (\A path \in Sections : ~Replaced(path))' <=> (\A path \in Sections : ~Replaced(path))
        /\ FieldErrors' <=> FieldErrors
        /\ Resolves' <=> Resolves
        /\ LoadsPolicy' <=> LoadsPolicy
        /\ LoadsRules' <=> LoadsRules
<1>1. SUFFICES ASSUME UNCHANGED input
      PROVE  /\ (\A path \in Sections : ~Replaced(path))' <=> (\A path \in Sections : ~Replaced(path))
             /\ FieldErrors' <=> FieldErrors
             /\ Resolves' <=> Resolves
             /\ LoadsPolicy' <=> LoadsPolicy
             /\ LoadsRules' <=> LoadsRules
  OBVIOUS
<1>2. \A path : At(path)' = At(path)
  BY <1>1 DEF At
<1>3. (\A path \in Sections : ~Replaced(path))' <=> (\A path \in Sections : ~Replaced(path))
  BY <1>2 DEF Replaced
<1>4. FieldErrors' <=> FieldErrors
  BY <1>2 DEF FieldErrors, FieldFine
<1>5. Resolves' <=> Resolves
  BY <1>1, <1>2 DEF Resolves, Converts, PathAccepted, ToolsAccepted
<1>6. LoadsPolicy' <=> LoadsPolicy
  BY <1>1, <1>2 DEF LoadsPolicy, GivenPolicy
<1>7. LoadsRules' <=> LoadsRules
  BY <1>1, <1>2 DEF LoadsRules, GivenRules
<1>8. QED BY <1>3, <1>4, <1>5, <1>6, <1>7

\* What a check adds to the findings: the others stay true.
LEMMA FoundMore ==
    ASSUME Found, next \in 1..9, next' \in {next, next + 1}, UNCHANGED input,
           next = 1 => next' = 1 \/ input.form \in {"unparsable", "parsed"},
           next = 2 => next' = 2 \/ (input.form = "parsed" /\ (input.top = "null" \/ IsMapping(input.top))),
           next = 4 => next' = 4 \/ \A path \in Sections : ~Replaced(path),
           next = 5 => next' = 5 \/ ~FieldErrors,
           next = 6 => next' = 6 \/ Resolves,
           next = 7 => next' = 7 \/ LoadsPolicy,
           next = 8 => next' = 8 \/ LoadsRules
    PROVE  Found'
<1>1. next' > 1 => input'.form \in {"unparsable", "parsed"}
  <2>1. next > 1 => input.form \in {"unparsable", "parsed"}
    BY DEF Found
  <2>2. QED BY <2>1
<1>2. next' > 2 => input'.form = "parsed" /\ (input'.top = "null" \/ IsMapping(input'.top))
  <2>1. next > 2 => input.form = "parsed" /\ (input.top = "null" \/ IsMapping(input.top))
    BY DEF Found
  <2>2. next' > 2 => input.form = "parsed" /\ (input.top = "null" \/ IsMapping(input.top))
    BY <2>1
  <2>3. QED BY <2>2
<1>3. (next > 4 => \A path \in Sections : ~Replaced(path))'
  <2>1. next > 4 => \A path \in Sections : ~Replaced(path)
    BY DEF Found
  <2>2. (next > 4)' => \A path \in Sections : ~Replaced(path)
    BY <2>1
  <2>3. QED BY <2>2, SameFile
<1>4. (next > 5 => ~FieldErrors)'
  <2>1. next > 5 => ~FieldErrors
    BY DEF Found
  <2>2. (next > 5)' => ~FieldErrors
    BY <2>1
  <2>3. QED BY <2>2, SameFile
<1>5. (next > 6 => Resolves)'
  <2>1. next > 6 => Resolves
    BY DEF Found
  <2>2. (next > 6)' => Resolves
    BY <2>1
  <2>3. QED BY <2>2, SameFile
<1>6. (next > 7 => LoadsPolicy)'
  <2>1. next > 7 => LoadsPolicy
    BY DEF Found
  <2>2. (next > 7)' => LoadsPolicy
    BY <2>1
  <2>3. QED BY <2>2, SameFile
<1>7. (next > 8 => LoadsRules)'
  <2>1. next > 8 => LoadsRules
    BY DEF Found
  <2>2. (next > 8)' => LoadsRules
    BY <2>1
  <2>3. QED BY <2>2, SameFile
<1>8. QED BY <1>1, <1>2, <1>3, <1>4, <1>5, <1>6, <1>7 DEF Found

\* One row more.
LEMMA Reported ==
    ASSUME NEW status \in {"pass", "warn", "fail", "skip"}, next \in 1..8, report \in Seq(ReportRow),
           Report(status)
    PROVE  /\ report' \in Seq(ReportRow) /\ next' = next + 1 /\ UNCHANGED <<input, raised>>
           /\ Clean' => Clean /\ status # "fail"
<1>1. PICK r \in Seq(ReportRow) : r = report
  OBVIOUS
<1>2. PICK row \in ReportRow : row = [check |-> next, status |-> status]
  BY DEF ReportRow
<1>3. /\ Append(r, row) \in Seq(ReportRow) /\ Len(Append(r, row)) = Len(r) + 1
      /\ \A i \in 1..Len(r) : Append(r, row)[i] = r[i]
      /\ Append(r, row)[Len(r) + 1] = row
  BY AppendProperties
<1>4. DOMAIN r = 1..Len(r) /\ DOMAIN Append(r, row) = 1..(Len(r) + 1) /\ Len(r) \in Nat
  BY <1>3, LenProperties
<1>5. report' = Append(r, row) /\ next' = next + 1 /\ UNCHANGED <<input, raised>>
  BY <1>1, <1>2 DEF Report
<1>6. ASSUME Clean' PROVE Clean /\ status # "fail"
  <2>1. \A i \in 1..(Len(r) + 1) : Append(r, row)[i].status # "fail"
    BY <1>4, <1>5, <1>6 DEF Clean
  <2>2. row.status # "fail"
    BY <1>3, <1>4, <2>1
  <2>3. \A i \in 1..Len(r) : r[i].status # "fail"
    BY <1>3, <1>4, <2>1
  <2>4. QED BY <1>1, <1>2, <1>4, <1>5, <1>6, <2>2, <2>3 DEF Clean
<1>7. QED BY <1>3, <1>5, <1>6

\* Several rows more, of which the first failed.
LEMMA ReportedFailure ==
    ASSUME NEW more \in Seq(ReportRow), report \in Seq(ReportRow), report' = report \o more
    PROVE  /\ report' \in Seq(ReportRow)
           /\ Len(more) > 0 /\ more[1].status = "fail" => ~Clean'
           /\ UNCHANGED raised /\ Clean' => Clean
<1>1. PICK r \in Seq(ReportRow) : r = report
  OBVIOUS
<1>2. PICK s : s = r \o more
  OBVIOUS
<1>3. /\ s \in Seq(ReportRow) /\ Len(s) = Len(r) + Len(more)
      /\ \A i \in 1..(Len(r) + Len(more)) : s[i] = IF i <= Len(r) THEN r[i] ELSE more[i - Len(r)]
  BY <1>2, ConcatProperties
<1>4. /\ DOMAIN r = 1..Len(r) /\ DOMAIN s = 1..(Len(r) + Len(more))
      /\ Len(r) \in Nat /\ Len(more) \in Nat
  BY <1>3, LenProperties
<1>5. report' = s
  BY <1>1, <1>2
<1>6. ASSUME Len(more) > 0, more[1].status = "fail" PROVE ~Clean'
  <2>1. Len(r) + 1 \in DOMAIN s /\ s[Len(r) + 1] = more[1]
    <3>1. Len(r) + 1 \in 1..(Len(r) + Len(more)) /\ ~(Len(r) + 1 <= Len(r)) /\ (Len(r) + 1) - Len(r) = 1
      BY <1>4, <1>6
    <3>2. QED BY <1>3, <1>4, <3>1
  <2>2. QED BY <1>5, <1>6, <2>1 DEF Clean
<1>7. ASSUME UNCHANGED raised, Clean' PROVE Clean
  <2>1. \A i \in 1..Len(r) : i \in DOMAIN s /\ s[i] = r[i]
    BY <1>3, <1>4
  <2>2. QED BY <1>1, <1>4, <1>5, <1>7, <2>1 DEF Clean
<1>8. QED BY <1>3, <1>5, <1>6, <1>7

LEMMA GivenUp ==
    ASSUME next \in 1..8, report \in Seq(ReportRow), GiveUp
    PROVE  report' \in Seq(ReportRow) /\ next' = 9 /\ UNCHANGED <<input, raised>> /\ ~Clean'
<1>1. PICK n \in 1..8 : n = next
  OBVIOUS
<1>2. PICK r \in Seq(ReportRow) : r = report
  OBVIOUS
<1>3. PICK row \in ReportRow : row = [check |-> n, status |-> "fail"]
  BY DEF ReportRow
<1>4. PICK rest : rest = [k \in 1..(8 - n) |-> [check |-> n + k, status |-> "skip"]]
  OBVIOUS
<1>5. rest \in Seq(ReportRow)
  <2>1. \A k \in 1..(8 - n) : [check |-> n + k, status |-> "skip"] \in ReportRow
    BY <1>1 DEF ReportRow
  <2>2. rest \in [1..(8 - n) -> ReportRow]
    BY <1>4, <2>1
  <2>3. 8 - n \in Nat
    OBVIOUS
  <2>4. QED BY <2>2, <2>3
<1>6. report' = Append(r, row) \o rest /\ next' = 9 /\ UNCHANGED <<input, raised>>
  BY <1>1, <1>2, <1>3, <1>4 DEF GiveUp
<1>7. /\ Append(r, row) \in Seq(ReportRow) /\ Len(Append(r, row)) = Len(r) + 1
      /\ Append(r, row)[Len(r) + 1] = row
  BY AppendProperties
<1>8. PICK s \in Seq(ReportRow) : s = Append(r, row)
  BY <1>7
<1>9. PICK t : t = s \o rest
  OBVIOUS
<1>10. /\ t \in Seq(ReportRow) /\ Len(t) = Len(s) + Len(rest)
       /\ \A i \in 1..(Len(s) + Len(rest)) : t[i] = IF i <= Len(s) THEN s[i] ELSE rest[i - Len(s)]
  BY <1>5, <1>9, ConcatProperties
<1>11. Len(s) \in Nat /\ Len(rest) \in Nat /\ Len(r) \in Nat /\ DOMAIN t = 1..Len(t)
  BY <1>5, <1>10, LenProperties
<1>12. Len(s) \in DOMAIN t /\ t[Len(s)] = row
  BY <1>7, <1>8, <1>10, <1>11
<1>13. report' = t /\ row.status = "fail"
  BY <1>3, <1>6, <1>8, <1>9
<1>14. ~Clean'
  BY <1>12, <1>13 DEF Clean
<1>15. QED BY <1>6, <1>10, <1>13, <1>14

LEMMA ConfigInit_holds == ConfigInit => ConfigInv
<1>1. SUFFICES ASSUME ConfigInit PROVE ConfigInv
  OBVIOUS
<1>2. <<>> \in Seq(ReportRow)
  BY EmptySeq
<1>3. next = 1 /\ report = <<>> /\ raised = FALSE
  BY <1>1 DEF ConfigInit
<1>4. Found
  <2>1. next > 1 => input.form \in {"unparsable", "parsed"} BY <1>3
  <2>2. next > 2 => input.form = "parsed" /\ (input.top = "null" \/ IsMapping(input.top)) BY <1>3
  <2>3. next > 4 => \A path \in Sections : ~Replaced(path) BY <1>3
  <2>4. next > 5 => ~FieldErrors BY <1>3
  <2>5. next > 6 => Resolves BY <1>3
  <2>6. next > 7 => LoadsPolicy BY <1>3
  <2>7. next > 8 => LoadsRules BY <1>3
  <2>8. QED BY <2>1, <2>2, <2>3, <2>4, <2>5, <2>6, <2>7 DEF Found
<1>5. next \in 1..9 /\ report \in Seq(ReportRow) /\ raised \in BOOLEAN
  <2>1. report \in Seq(ReportRow)
    BY <1>2, <1>3, Zenon
  <2>2. raised \in BOOLEAN
    BY <1>3, Zenon
  <2>3. next \in 1..9
    BY <1>3
  <2>4. QED BY <2>1, <2>2, <2>3
<1>6. QED BY <1>4, <1>5 DEF ConfigInv

\* A check that reports a row, and fails unless it finds out what it is for.
LEMMA CheckKeeps ==
    ASSUME ConfigInv, NEW status \in {"pass", "warn", "fail", "skip"}, next \in 1..8, Report(status),
           Clean /\ Found /\ status # "fail" => Found'
    PROVE  ConfigInv'
<1>1. /\ report' \in Seq(ReportRow) /\ next' = next + 1 /\ UNCHANGED <<input, raised>>
      /\ Clean' => Clean /\ status # "fail"
  BY Reported DEF ConfigInv
<1>2. QED BY <1>1 DEF ConfigInv

LEMMA GivenUpKeeps == ASSUME ConfigInv, next \in 1..8, GiveUp PROVE ConfigInv'
BY GivenUp DEF ConfigInv

LEMMA ConfigStep == ConfigInv /\ [ConfigNext]_configVars => ConfigInv'
<1>1. SUFFICES ASSUME ConfigInv, [ConfigNext]_configVars PROVE ConfigInv'
  OBVIOUS
<1>2. next \in 1..9 /\ report \in Seq(ReportRow) /\ raised \in BOOLEAN /\ (Clean => Found)
  BY <1>1 DEF ConfigInv
<1>3. CASE CheckFile
  <2>1. CASE input.form \in {"unparsable", "parsed"}
    <3>1. Report("pass") /\ next = 1
      BY <1>3, <2>1 DEF CheckFile
    <3>2. next' = 2 /\ UNCHANGED input
      BY <3>1 DEF Report
    <3>3. Found'
      BY <2>1, <3>2 DEF Found
    <3>4. QED BY <1>1, <3>1, <3>3, CheckKeeps
  <2>2. CASE input.form \notin {"unparsable", "parsed"}
    BY <1>1, <1>3, <2>2, GivenUpKeeps DEF CheckFile
  <2>3. QED BY <2>1, <2>2
<1>4. CASE CheckYaml
  <2>1. CASE input.form = "parsed" /\ (input.top = "null" \/ IsMapping(input.top))
    <3>1. PICK status \in {"pass", "warn"} : Report(status) /\ next = 2
      BY <1>4, <2>1 DEF CheckYaml, IsMapping
    <3>2. next' = 3 /\ UNCHANGED input
      BY <3>1 DEF Report
    <3>3. Found => Found'
      BY <2>1, <3>1, <3>2, FoundMore
    <3>4. QED BY <1>1, <3>1, <3>3, CheckKeeps
  <2>2. CASE ~(input.form = "parsed" /\ (input.top = "null" \/ IsMapping(input.top)))
    <3>1. CASE input.form = "unparsable"
      BY <1>1, <1>4, <3>1, GivenUpKeeps DEF CheckYaml
    <3>2. CASE input.form # "unparsable"
      <4>1. /\ ~(input.form = "parsed" /\ input.top = "null")
            /\ ~(input.form = "parsed" /\ IsMapping(input.top))
        BY <2>2
      <4>2. GiveUp /\ next = 2
        BY <1>4, <3>2, <4>1 DEF CheckYaml
      <4>3. QED BY <1>1, <4>2, GivenUpKeeps
    <3>3. QED BY <3>1, <3>2
  <2>3. QED BY <2>1, <2>2
<1>5. CASE CheckKeys
  <2>1. PICK status \in {"pass", "warn"} : Report(status) /\ next = 3
    BY <1>5 DEF CheckKeys
  <2>2. next' = 4 /\ UNCHANGED input
    BY <2>1 DEF Report
  <2>3. Found => Found'
    BY <2>1, <2>2, FoundMore
  <2>4. QED BY <1>1, <2>1, <2>3, CheckKeeps
<1>6. CASE CheckSections
  <2>1. PICK status \in {"pass", "fail"} :
          /\ Report(status) /\ next = 4
          /\ status = "pass" => \A path \in Sections : ~Replaced(path)
    BY <1>6 DEF CheckSections, Checked
  <2>2. next' = 5 /\ UNCHANGED input
    BY <2>1 DEF Report
  <2>3. Found /\ status # "fail" => Found'
    BY <2>1, <2>2, FoundMore
  <2>4. QED BY <1>1, <2>1, <2>3, CheckKeeps
<1>7. CASE CheckFields
  <2>1. PICK status \in {"pass", "fail"} :
          /\ Report(status) /\ next = 5
          /\ status = "pass" => ~FieldErrors
    BY <1>7 DEF CheckFields
  <2>2. next' = 6 /\ UNCHANGED input
    BY <2>1 DEF Report
  <2>3. Found /\ status # "fail" => Found'
    BY <2>1, <2>2, FoundMore
  <2>4. QED BY <1>1, <2>1, <2>3, CheckKeeps
<1>8. CASE CheckLoader
  <2>1. PICK status \in {"pass", "fail", "skip"} :
          /\ next = 6 /\ (~FieldErrors /\ ~Resolves => status = "fail")
          /\ IF Resolves THEN Report(status)
             ELSE /\ report' = report \o <<[check |-> 6, status |-> status],
                                           [check |-> 7, status |-> "skip"],
                                           [check |-> 8, status |-> "skip"]>>
                  /\ next' = 9 /\ UNCHANGED <<input, raised>>
    BY <1>8 DEF CheckLoader
  <2>2. CASE Resolves
    <3>1. next' = 7 /\ UNCHANGED input
      BY <2>1, <2>2 DEF Report
    <3>2. Found => Found'
      BY <2>1, <2>2, <3>1, FoundMore
    <3>3. QED BY <1>1, <2>1, <2>2, <3>2, CheckKeeps
  <2>3. CASE ~Resolves
    <3>1. PICK a, b, c : /\ a = [check |-> 6, status |-> status]
                         /\ b = [check |-> 7, status |-> "skip"]
                         /\ c = [check |-> 8, status |-> "skip"]
      OBVIOUS
    <3>2. a \in ReportRow /\ b \in ReportRow /\ c \in ReportRow /\ a.status = status
      BY <3>1 DEF ReportRow
    <3>3. PICK more : more = <<a, b, c>>
      OBVIOUS
    <3>4. more \in Seq(ReportRow) /\ Len(more) = 3 /\ more[1] = a
      BY <3>2, <3>3
    <3>5. report' = report \o more /\ next' = 9 /\ UNCHANGED <<input, raised>>
      BY <2>1, <2>3, <3>1, <3>3
    <3>6. /\ report' \in Seq(ReportRow) /\ (Clean' => Clean)
          /\ Len(more) > 0 /\ more[1].status = "fail" => ~Clean'
      BY <1>2, <3>4, <3>5, ReportedFailure
    <3>7. Clean => status = "fail"
      BY <1>2, <2>1, <2>3 DEF Found
    <3>8. ~Clean'
      BY <3>2, <3>4, <3>6, <3>7
    <3>9. QED BY <1>2, <3>5, <3>6, <3>8 DEF ConfigInv
  <2>4. QED BY <2>2, <2>3
<1>9. CASE CheckPolicy
  <2>1. PICK status \in {"pass", "fail"} :
          /\ Report(status) /\ next = 7
          /\ status = "pass" => LoadsPolicy
    BY <1>9 DEF CheckPolicy
  <2>2. next' = 8 /\ UNCHANGED input
    BY <2>1 DEF Report
  <2>3. Found /\ status # "fail" => Found'
    BY <2>1, <2>2, FoundMore
  <2>4. QED BY <1>1, <2>1, <2>3, CheckKeeps
<1>10. CASE CheckRules
  <2>1. CASE LintRaises
    <3>1. raised' = TRUE /\ next' = 9 /\ UNCHANGED <<input, report>>
      BY <1>10, <2>1 DEF CheckRules
    <3>2. QED BY <1>2, <3>1 DEF ConfigInv, Clean
  <2>2. CASE ~LintRaises
    <3>1. PICK status \in {"pass", "fail"} :
            /\ Report(status) /\ next = 8
            /\ status = "pass" => LoadsRules
      BY <1>10, <2>2 DEF CheckRules, RulesFine
    <3>2. next' = 9 /\ UNCHANGED input
      BY <3>1 DEF Report
    <3>3. Found /\ status # "fail" => Found'
      BY <3>1, <3>2, FoundMore
    <3>4. QED BY <1>1, <3>1, <3>3, CheckKeeps
  <2>3. QED BY <2>1, <2>2
<1>11. CASE UNCHANGED configVars
  <2>1. UNCHANGED <<input, next, report, raised>>
    BY <1>11 DEF configVars
  <2>2. Found => Found'
    BY <1>2, <2>1, FoundMore
  <2>3. Clean' => Clean
    BY <2>1 DEF Clean
  <2>4. QED BY <1>2, <2>1, <2>2, <2>3 DEF ConfigInv
<1>12. QED BY <1>1, <1>3, <1>4, <1>5, <1>6, <1>7, <1>8, <1>9, <1>10, <1>11 DEF ConfigNext

LEMMA ConfigInvariance == ConfigSpec => []ConfigInv
<1>1. QED BY ConfigInit_holds, ConfigStep, PTL DEF ConfigSpec

\* In a configuration that `config-validate` passes, resolve_settings, the rules
\* engine and the policy refuse nothing, whatever the file, its packs and its policy;
\* and the proxy starts with it, unless it holds one of the values that no check
\* looks at: a URL that does not parse, or an integer beyond the floats.
THEOREM ValidatedIsEnough == ConfigSpec => []ValidatedLoads
<1>1. ConfigInv => ValidatedLoads
  <2>1. SUFFICES ASSUME ConfigInv, Validated PROVE Loads /\ (ProxyStarts \/ NotLookedAt)
    BY DEF ValidatedLoads
  <2>2. Found /\ next = 9
    BY <2>1 DEF ConfigInv, Clean, Validated
  <2>3. Loads
    BY <2>2 DEF Found, Loads
  <2>4. ProxyStarts \/ NotLookedAt
    BY <2>3 DEF ProxyStarts, NotLookedAt, BuildsBuffer, BuildsInspector, BuildsClassifier
  <2>5. QED BY <2>3, <2>4
<1>2. QED BY <1>1, ConfigInvariance, PTL

\* And it starts as written: no section is replaced by {}, no number by another.
THEOREM ValidatedIsMeant == ConfigSpec => []ValidatedApplies
<1>1. ConfigInv => ValidatedApplies
  <2>1. SUFFICES ASSUME ConfigInv, Validated PROVE
          /\ \A path \in Sections : At(path) = Absent \/ IsMapping(At(path))
          /\ \A path \in Numeric : At(path) \notin {"true", "false"}
          /\ \A path \in IntFields : At(path) # "float"
    BY DEF ValidatedApplies
  <2>2. Found /\ next = 9
    BY <2>1 DEF ConfigInv, Clean, Validated
  <2>3. \A path \in Sections : At(path) = Absent \/ IsMapping(At(path))
    BY <2>2 DEF Found, Replaced
  <2>4. \A path \in Numeric : FieldFine(path)
    BY <2>2 DEF Found, FieldErrors
  <2>5. \A path \in Numeric : At(path) \notin {"true", "false"}
    BY <2>4 DEF FieldFine, Absent
  <2>6. \A path \in IntFields : path \in Numeric /\ path # FloatField
    BY DEF IntFields, Numeric, FloatField, BatchInterval, MaxLatency, LlmTimeout
  <2>7. \A path \in IntFields : At(path) # "float"
    BY <2>4, <2>6 DEF FieldFine, Absent
  <2>8. QED BY <2>3, <2>5, <2>7
<1>2. QED BY <1>1, ConfigInvariance, PTL
=============================================================================
