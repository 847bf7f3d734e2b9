----------------------------- MODULE AuditTable -----------------------------
(***************************************************************************)
(* The events table as its readers meet it: proxies that share the database *)
(* file record events and insert them in batches, each in a transaction.    *)
(* EventBuffer has the writer in detail; here a batch is written, committed *)
(* or lost.  A row's id is its place in the table: AUTOINCREMENT counts on  *)
(* from the highest id, nothing is ever deleted, and SQLite gives the write *)
(* lock to one transaction at a time.                                       *)
(***************************************************************************)
EXTENDS Integers, Sequences, FiniteSets, SequencesExt

CONSTANTS Writers, \* the proxies writing to the table
          Own,     \* the one whose health endpoint and side-car are looked at
          MaxRows, \* events recorded (a bound)
          MaxTime  \* the last tick of the clock (a bound)

ASSUME AuditTableAssumption == Own \in Writers /\ {MaxRows, MaxTime} \subseteq Nat

VARIABLES now,      \* the clock
          table,    \* the committed rows, with the time of the event and of the commit
          pending,  \* per proxy, the times of the events in its queue and its batch
          writing   \* the proxy inside a transaction and the length of its batch, or <<>>

tableVars == <<now, table, pending, writing>>

TableTypeOK ==
    /\ now \in 0..MaxTime
    /\ table \in Seq([ts : 0..MaxTime, at : 0..MaxTime]) /\ Len(table) <= MaxRows
    /\ pending \in [Writers -> Seq(0..MaxTime)]
    /\ writing \in {<<>>} \cup Writers \X (1..MaxRows)

TableInit ==
    /\ now = 0 /\ table = <<>>
    /\ pending = [w \in Writers |-> <<>>] /\ writing = <<>>

Recorded == Len(table) + FoldSet(LAMBDA w, n : Len(pending[w]) + n, 0, Writers)

\* An event gets its timestamp when it is recorded, not when it is stored.
Record(w) ==
    /\ Recorded < MaxRows
    /\ pending' = [pending EXCEPT ![w] = Append(@, now)]
    /\ UNCHANGED <<now, table, writing>>

\* The rows of the open transaction.
Batch ==
    IF writing = <<>> THEN <<>>
    ELSE [i \in 1..writing[2] |-> [ts |-> pending[writing[1]][i], at |-> now]]

\* insert_events: the first INSERT of the batch takes the write lock ...
Insert(w) ==
    /\ writing = <<>> /\ pending[w] # <<>>
    /\ writing' = <<w, Len(pending[w])>>
    /\ UNCHANGED <<now, table, pending>>

\* ... and the commit makes all rows of it visible and gives the lock back.
Commit(w) ==
    /\ writing # <<>> /\ writing[1] = w
    /\ table' = table \o Batch
    /\ pending' = [pending EXCEPT ![w] = SubSeq(@, writing[2] + 1, Len(@))]
    /\ writing' = <<>>
    /\ UNCHANGED now

\* The proxy is killed: SQLite rolls the batch back.
Rollback(w) ==
    /\ writing # <<>> /\ writing[1] = w
    /\ pending' = [pending EXCEPT ![w] = SubSeq(@, writing[2] + 1, Len(@))]
    /\ writing' = <<>>
    /\ UNCHANGED <<now, table>>

TableNext == \E w \in Writers : Record(w) \/ Insert(w) \/ Commit(w)

Tick == now < MaxTime /\ now' = now + 1 /\ UNCHANGED <<table, pending, writing>>

\* What a query of Own's connection sees: its own open transaction, too.
Seen == IF writing # <<>> /\ writing[1] = Own THEN table \o Batch ELSE table

\* The ids of the rows it sees whose event falls into [from, to).
Window(from, to) == {i \in DOMAIN Seen : from <= Seen[i].ts /\ Seen[i].ts < to}

\* The rows that were stored before time t.
StoredBefore(t) == Cardinality({i \in DOMAIN table : table[i].at < t})
=============================================================================
