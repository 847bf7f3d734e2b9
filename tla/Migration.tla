----------------------------- MODULE Migration -----------------------------
(***************************************************************************)
(* Storage.open of storage.py in several proxies started on one database:   *)
(* the switch to WAL, the base DDL, the stamp of version 1 and the          *)
(* migration to version 2, statement by statement, with SQLite's single     *)
(* writer.                                                                  *)
(*                                                                          *)
(* The database is the set of schema objects and version rows committed to  *)
(* it.  SQLite and the thread of aiosqlite are external: a statement takes  *)
(* the write lock or waits for it, and what a transaction wrote is lost     *)
(* when its connection closes or its process dies.  A statement that was    *)
(* sent to the thread runs even when the coroutine awaiting it is           *)
(* cancelled.                                                               *)
(***************************************************************************)
EXTENDS Integers, Sequences

CONSTANTS Process,    \* the processes, each with one Storage object
          Base,       \* the objects of _BASE_DDL, in order
          Statements, \* the objects the statements of _MIGRATIONS[2] create
          Columns,    \* those an ALTER TABLE creates, the others IF NOT EXISTS
          Databases,  \* the databases the first process may find
          MaxFaults,  \* bound on statements that fail or are slow, cancellations, kills
          MaxOpens    \* bound on calls of open

Elements(s) == {s[i] : i \in DOMAIN s}

Objects == Elements(Base) \cup Elements(Statements) \cup {"v1", "v2"}

\* A recorded version means that every object of it exists.
Whole(d) ==
    /\ "v1" \in d => Elements(Base) \subseteq d
    /\ "v2" \in d => Objects \subseteq d

ASSUME ProcessAssumption == "none" \notin Process
ASSUME StatementsAssumption ==
    /\ Base \in Seq(Objects) \ {<<>>} /\ Statements \in Seq(Objects) \ {<<>>}
    /\ {"v1", "v2"} \cap (Elements(Base) \cup Elements(Statements)) = {}
    /\ Columns \subseteq Elements(Statements)
ASSUME BoundsAssumption == MaxFaults \in Nat /\ MaxOpens \in Nat

\* Any database of whole versions, also what crashes left between two versions.
ASSUME DatabasesAssumption == Databases \subseteq {d \in SUBSET Objects : Whole(d)}

VARIABLES db,       \* committed objects
          journal,  \* journal mode of the file: "wal" as it was found, "rollback" (a new
                    \* file, or one of another program), or "switched" to WAL by an open()
          writer,   \* the process whose connection has the write lock, or "none"
          pending,  \* objects its transaction has created
          pc,       \* where each process is in open
          at,       \* the next statement of a list
          conn,     \* "none", "local", "kept" in self._conn, or "leaked"
          hit,      \* what went wrong in this call of open: "none", "fault" (a statement
                    \* failed or was cancelled), "switch" (another process was switching
                    \* to WAL), "locked" (behind a leaked lock, or a slow process)
          faults, opens

vars == <<db, journal, writer, pending, pc, at, conn, hit, faults, opens>>

Unguarded == {"pragma", "switch", "base", "stamp", "commit stamp"}
Guarded   == {"read version", "begin", "migrate", "bump", "commit"}
Steps     == Unguarded \cup Guarded

Causes == {"none", "fault", "switch", "locked"}

Init ==
    /\ db \in Databases /\ journal \in {"wal", "rollback"}
    /\ writer = "none" /\ pending = {}
    /\ pc = [p \in Process |-> "closed"]
    /\ at = [p \in Process |-> 1]
    /\ conn = [p \in Process |-> "none"]
    /\ hit = [p \in Process |-> "none"]
    /\ faults = 0 /\ opens = 0

-----------------------------------------------------------------------------
\* An ALTER TABLE of a column that exists is skipped, and only that.
Tolerated_any(why)   == TRUE
Tolerated_never(why) == FALSE
Tolerated(why) == why = "duplicate column name"

\* open() closes the connection when _run_migrations raises.
Closes_never(stage) == FALSE
Closes(stage) == stage \in Guarded

\* Where an exception raised at a step leads.
Raised(p) == IF Closes(pc[p]) THEN "closing" ELSE "failed"

\* The process goes on to a step, or the call was cancelled meanwhile.
Continue(p, step) ==
    \/ /\ pc' = [pc EXCEPT ![p] = step]
       /\ conn' = [conn EXCEPT ![p] = IF step \in Guarded THEN "kept" ELSE @]
       /\ UNCHANGED <<hit, faults>>
    \/ /\ faults < MaxFaults
       /\ faults' = faults + 1
       /\ hit' = [hit EXCEPT ![p] = "fault"]
       /\ pc' = [pc EXCEPT ![p] = Raised(p)]
       /\ conn' = [conn EXCEPT ![p] = IF pc[p] \in Unguarded THEN "leaked" ELSE @]

Open(p) ==
    /\ opens < MaxOpens
    /\ \/ pc[p] = "closed"
       \/ pc[p] = "failed" /\ conn[p] = "none"
    /\ opens' = opens + 1
    /\ pc' = [pc EXCEPT ![p] = "pragma"]
    /\ at' = [at EXCEPT ![p] = 1]
    /\ conn' = [conn EXCEPT ![p] = "local"]
    /\ hit' = [hit EXCEPT ![p] = "none"]
    /\ UNCHANGED <<db, journal, writer, pending, faults>>

\* PRAGMA journal_mode = WAL changes nothing in a database that is in WAL mode.
\* The other pragmas are settings of the connection.
KeepWal(p) ==
    /\ pc[p] = "pragma" /\ journal # "rollback"
    /\ Continue(p, "base")
    /\ UNCHANGED <<db, journal, writer, pending, at, opens>>

\* Any other is switched in a write transaction.
BeginSwitch(p) ==
    /\ pc[p] = "pragma" /\ journal = "rollback" /\ writer = "none"
    /\ writer' = p
    /\ pc' = [pc EXCEPT ![p] = "switch"]
    /\ UNCHANGED <<db, journal, pending, at, conn, hit, faults, opens>>

EndSwitch(p) ==
    /\ pc[p] = "switch"
    /\ journal' = "switched"
    /\ writer' = "none"
    /\ Continue(p, "base")
    /\ UNCHANGED <<db, pending, at, opens>>

\* CREATE ... IF NOT EXISTS, each statement a transaction of its own, which
\* writes when the object is not there; the script is one call of the thread,
\* and only its end can be cancelled.
CreateBase(p) ==
    /\ pc[p] = "base" /\ (writer = "none" \/ Base[at[p]] \in db)
    /\ db' = db \cup {Base[at[p]]}
    /\ at' = [at EXCEPT ![p] = (@ % Len(Base)) + 1]
    /\ IF at[p] = Len(Base) THEN Continue(p, "stamp")
       ELSE UNCHANGED <<pc, conn, hit, faults>>
    /\ UNCHANGED <<journal, writer, pending, opens>>

\* INSERT OR IGNORE of version 1 begins a transaction.
StampOne(p) ==
    /\ pc[p] = "stamp" /\ writer = "none"
    /\ writer' = p
    /\ pending' = {"v1"}
    /\ Continue(p, "commit stamp")
    /\ UNCHANGED <<db, journal, at, opens>>

Commit(p, step) ==
    /\ writer = p
    /\ db' = db \cup pending
    /\ pending' = {}
    /\ writer' = "none"
    /\ Continue(p, step)
    /\ UNCHANGED <<journal, at, opens>>

CommitStamp(p) == pc[p] = "commit stamp" /\ Commit(p, "read version")

\* _current_schema_version, outside any transaction.
ReadVersion(p) ==
    /\ pc[p] = "read version"
    /\ Continue(p, IF "v2" \in db THEN "open" ELSE "begin")
    /\ UNCHANGED <<db, journal, writer, pending, at, opens>>

BeginImmediate(p) ==
    /\ pc[p] = "begin" /\ writer = "none"
    /\ writer' = p
    /\ Continue(p, "migrate")
    /\ UNCHANGED <<db, journal, pending, at, opens>>

AfterStatement(p) == IF at[p] = Len(Statements) THEN "bump" ELSE "migrate"

NextStatement(p) == at' = [at EXCEPT ![p] = (@ % Len(Statements)) + 1]

Exists(object) == object \in db \cup pending

\* A statement raises: it is skipped when the error is tolerated, and the
\* migration is rolled back otherwise.  Before _run_migrations there is no
\* handler, and the transaction of the stamp stays with the leaked connection.
Error(p, why) ==
    IF pc[p] = "migrate" /\ Tolerated(why)
    THEN /\ NextStatement(p)
         /\ pc' = [pc EXCEPT ![p] = AfterStatement(p)]
         /\ UNCHANGED <<writer, pending, conn>>
    ELSE /\ IF writer = p /\ pc[p] # "commit stamp"
            THEN writer' = "none" /\ pending' = {}
            ELSE UNCHANGED <<writer, pending>>
         /\ pc' = [pc EXCEPT ![p] = Raised(p)]
         /\ conn' = [conn EXCEPT ![p] = IF pc[p] \in Unguarded THEN "leaked" ELSE @]
         /\ UNCHANGED at

Migrate(p) ==
    /\ pc[p] = "migrate"
    /\ ~(Statements[at[p]] \in Columns /\ Exists(Statements[at[p]]))
    /\ pending' = pending \cup ({Statements[at[p]]} \ db)
    /\ NextStatement(p)
    /\ Continue(p, AfterStatement(p))
    /\ UNCHANGED <<db, journal, writer, opens>>

DuplicateColumn(p) ==
    /\ pc[p] = "migrate"
    /\ Statements[at[p]] \in Columns /\ Exists(Statements[at[p]])
    /\ Error(p, "duplicate column name")
    /\ UNCHANGED <<db, journal, hit, faults, opens>>

Bump(p) ==
    /\ pc[p] = "bump"
    /\ pending' = pending \cup {"v2"}
    /\ Continue(p, "commit")
    /\ UNCHANGED <<db, journal, writer, at, opens>>

CommitMigration(p) == pc[p] = "commit" /\ Commit(p, "open")

-----------------------------------------------------------------------------
\* A statement fails for a reason of its own: a full disk, an I/O error.
Fail(p) ==
    /\ faults < MaxFaults
    /\ pc[p] \in Steps
    /\ faults' = faults + 1
    /\ hit' = [hit EXCEPT ![p] = "fault"]
    /\ Error(p, "other")
    /\ UNCHANGED <<db, journal, opens>>

\* "database is locked", which no handler tolerates.
LockedOut(p, why) ==
    /\ hit' = [hit EXCEPT ![p] = why]
    /\ pc' = [pc EXCEPT ![p] = Raised(p)]
    /\ conn' = [conn EXCEPT ![p] = IF pc[p] \in Unguarded THEN "leaked" ELSE @]
    /\ UNCHANGED <<db, journal, writer, pending, at, opens>>

\* The switch to WAL upgrades a read transaction, for which SQLite does not call
\* the busy handler: it may raise at once when another process has the lock.
MeetsSwitch(p) ==
    /\ pc[p] = "pragma" /\ journal = "rollback" /\ writer \notin {"none", p}
    /\ LockedOut(p, "switch")
    /\ UNCHANGED faults

WaitsForLock(p) ==
    \/ pc[p] = "base" /\ Base[at[p]] \notin db
    \/ pc[p] \in {"stamp", "begin"}

\* The busy timeout passes behind a connection that nobody is about to use.
Locked(p) ==
    /\ WaitsForLock(p)
    /\ \E q \in Process \ {p} :
          /\ writer = q /\ pc[q] = "failed"
          /\ LockedOut(p, IF conn[q] = "leaked" THEN "locked" ELSE hit[p])
    /\ UNCHANGED faults

\* Or behind a process at work, whose statement or commit takes longer.
SlowHolder(p) ==
    /\ faults < MaxFaults
    /\ WaitsForLock(p)
    /\ \E q \in Process \ {p} : writer = q /\ pc[q] # "failed"
    /\ LockedOut(p, "locked")
    /\ faults' = faults + 1

Release(p) ==
    IF writer = p THEN writer' = "none" /\ pending' = {}
    ELSE UNCHANGED <<writer, pending>>

\* The handler in open(): conn.close(), then self._conn = None and raise.
CloseFailed(p) ==
    /\ pc[p] = "closing"
    /\ Release(p)
    /\ conn' = [conn EXCEPT ![p] = "none"]
    /\ pc' = [pc EXCEPT ![p] = "failed"]
    /\ UNCHANGED <<db, journal, at, hit, faults, opens>>

Gone(p) ==
    /\ Release(p)
    /\ pc' = [pc EXCEPT ![p] = "closed"]
    /\ conn' = [conn EXCEPT ![p] = "none"]
    /\ UNCHANGED <<db, journal, at, hit, opens>>

\* close(), or the end of the process.
Exit(p) == pc[p] \in {"open", "failed"} /\ Gone(p) /\ UNCHANGED faults

\* The process is killed inside open().
Kill(p) ==
    /\ faults < MaxFaults
    /\ pc[p] \in Steps \cup {"closing"}
    /\ faults' = faults + 1
    /\ Gone(p)

Step(p) ==
    \/ KeepWal(p) \/ BeginSwitch(p) \/ EndSwitch(p) \/ MeetsSwitch(p)
    \/ CreateBase(p) \/ StampOne(p) \/ CommitStamp(p)
    \/ ReadVersion(p) \/ BeginImmediate(p)
    \/ Migrate(p) \/ DuplicateColumn(p) \/ Bump(p) \/ CommitMigration(p)
    \/ Locked(p) \/ CloseFailed(p)

Next == \E p \in Process :
    Step(p) \/ Open(p) \/ Fail(p) \/ SlowHolder(p) \/ Exit(p) \/ Kill(p)

Spec == Init /\ [][Next]_vars /\ \A p \in Process : WF_vars(Step(p))

-----------------------------------------------------------------------------
\* Writes are pending only in the transaction of the process that has the lock.
TypeOK ==
    /\ db \subseteq Objects /\ journal \in {"wal", "rollback", "switched"}
    /\ writer \in Process \cup {"none"}
    /\ pending \subseteq Objects
    /\ writer = "none" => pending = {}
    /\ pc \in [Process -> Steps \cup {"closed", "closing", "failed", "open"}]
    /\ at \in [Process -> Nat \ {0}]
    /\ conn \in [Process -> {"none", "local", "kept", "leaked"}]
    /\ hit \in [Process -> Causes]
    /\ faults \in 0..MaxFaults /\ opens \in 0..MaxOpens

\* A recorded version stays whole after any crash,
\* cancellation or failed statement; and open() returns only at version 2.
SchemaIsWhole ==
    /\ Whole(db)
    /\ \A p \in Process : pc[p] = "open" => "v2" \in db

\* Proxies that race through the same migration do not fail each other.  In a
\* database that is in WAL mode open() raises only when something went wrong
\* somewhere: in the process itself, or in one that holds the write lock and
\* leaked it or was slow.  A proxy that finds another one switching the database
\* to WAL may raise without that, and only then.
RaceIsHarmless ==
    \A p \in Process : pc[p] = "failed" =>
        /\ hit[p] # "none"
        /\ hit[p] = "switch" => journal # "wal"
        /\ hit[p] # "switch" => faults > 0

\* What a failed migration held it gives back when open() raises: no write
\* lock, no connection, so that a later open() starts from nothing.
FailedMigrationReleases ==
    \A p \in Process : pc[p] = "failed" /\ conn[p] # "leaked" =>
        conn[p] = "none" /\ writer # p

\* A call of open() comes to an end, with an open database when nothing hit it.
OpenCompletes ==
    \A p \in Process :
        pc[p] = "pragma" ~> \/ pc[p] \in {"open", "closed"}
                            \/ pc[p] = "failed" /\ hit[p] # "none"
=============================================================================
