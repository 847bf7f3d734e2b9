---------------------------- MODULE MCMigration ----------------------------
(* Two of the base objects, two of the columns and the cache table.         *)
EXTENDS Migration

MCBase       == <<"events", "schema_version">>
MCStatements == <<"det_verdict", "det_action", "classifier_cache">>

\* No file, a version 1 database, one with part of version 2 in it, and a
\* current one.
MCDatabases ==
    LET one == Elements(MCBase) \cup {"v1"}
    IN {{}, one, one \cup {"det_verdict"},
        one \cup Elements(MCStatements) \cup {"v2"}}
=============================================================================
