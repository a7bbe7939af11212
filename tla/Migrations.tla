------------------------------ MODULE Migrations ------------------------------
(***************************************************************************)
(* MigrationRunner (database/migrations.py) in several processes on one    *)
(* database with transactional DDL, PostgreSQL or SQLite: each migration   *)
(* is a transaction that runs the statements of its script and then        *)
(* records the version, or deletes it.  A runner plans from the versions   *)
(* it read once.                                                           *)
(*                                                                         *)
(* Versions are numbers in the order of the version strings.  Statement n  *)
(* of an up script creates what statement n of the down script removes;    *)
(* unless the script says IF [NOT] EXISTS it fails if that is there        *)
(* already, or is not there.  Transactions that change the same objects    *)
(* wait for each other, or fail.                                           *)
(***************************************************************************)
EXTENDS Naturals, Sequences, FiniteSets, SequencesExt

CONSTANTS Versions,   \* the migrations in the directory
          Guarded,    \* those whose scripts say IF [NOT] EXISTS
          Statements, \* how many statements a script has
          Runners     \* processes

ASSUME MigrationAssumption ==
    /\ Versions \subseteq Nat /\ IsFiniteSet(Versions) /\ Guarded \subseteq Versions
    /\ Statements \in Nat \ {0}

VARIABLES
    schema,   \* for each version, the statements whose effect is committed
    recorded, \* the versions in the migrations table
    runners   \* where each runner is and what it plans; its transaction

migrationVars == <<schema, recorded, runners>>

\* A runner that is in no transaction, with what it has still to do.
Outside(at, way, todo) == [at |-> at, way |-> way, todo |-> todo, work |-> {}, next |-> 1]
NotRunning == Outside("idle", "up", <<>>)

MigrationsTypeOK ==
    /\ schema \in [Versions -> SUBSET (1..Statements)]
    /\ recorded \subseteq Versions
    /\ \A r \in Runners :
          /\ runners[r].at \in {"idle", "between", "script", "recorded"}
          /\ runners[r].way \in {"up", "down"}
          /\ runners[r].todo \in Seq(Versions)
          /\ runners[r].work \subseteq 1..Statements
          /\ runners[r].next \in 1..Statements + 1

MigrationsInit ==
    /\ schema = [v \in Versions |-> {}] /\ recorded = {}
    /\ runners = [r \in Runners |-> NotRunning]

Ascending(vs) == SetToSortSeq(vs, <)

Plans(r, way, plan) ==
    /\ runners[r].at = "idle" /\ plan # <<>>
    /\ runners' = [runners EXCEPT ![r] = Outside("between", way, plan)]
    /\ UNCHANGED <<schema, recorded>>

\* migrate(): what is not recorded, up to the target, in the order of versions.
Migrate(r) ==
    \E target \in Versions : Plans(r, "up", Ascending({v \in Versions \ recorded : v <= target}))

\* rollback(): the last steps of what is recorded, the latest first.
Rollback(r) ==
    \E steps \in 1..Cardinality(Versions) :
        LET latest == Reverse(Ascending(recorded))
        IN  Plans(r, "down", SubSeq(latest, 1, IF steps < Len(latest) THEN steps ELSE Len(latest)))

Version(r) == Head(runners[r].todo)
InTransaction(r) == runners[r].at \in {"script", "recorded"}

\* The transaction begins with its first statement, when no other one has
\* changed the same objects and is still open.
BeginMigration(r) ==
    /\ runners[r].at = "between"
    /\ \A q \in Runners : InTransaction(q) => Version(q) # Version(r)
    /\ runners' = [runners EXCEPT ![r].at = "script", ![r].work = schema[Version(r)], ![r].next = 1]
    /\ UNCHANGED <<schema, recorded>>

Succeeds(r) == \/ Version(r) \in Guarded
               \/ runners[r].next \in runners[r].work <=> runners[r].way = "down"
After(r) == IF runners[r].way = "up" THEN runners[r].work \union {runners[r].next}
                                     ELSE runners[r].work \ {runners[r].next}

\* Mutant of Execute: every statement is committed, as the MySQL adapter does.
ExecuteAndCommit(r) ==
    /\ runners[r].at = "script" /\ runners[r].next <= Statements /\ Succeeds(r)
    /\ runners' = [runners EXCEPT ![r].work = After(r), ![r].next = @ + 1]
    /\ schema' = [schema EXCEPT ![Version(r)] = After(r)]
    /\ UNCHANGED recorded

\* A statement of the script.
Execute(r) ==
    /\ runners[r].at = "script" /\ runners[r].next <= Statements /\ Succeeds(r)
    /\ runners' = [runners EXCEPT ![r].work = After(r), ![r].next = @ + 1]
    /\ UNCHANGED <<schema, recorded>>

\* The version is inserted, which fails if it is there, or deleted, there or not.
Record(r) ==
    /\ runners[r].at = "script" /\ runners[r].next > Statements
    /\ runners[r].way = "up" => Version(r) \notin recorded
    /\ runners' = [runners EXCEPT ![r].at = "recorded"]
    /\ UNCHANGED <<schema, recorded>>

CommitMigration(r) ==
    /\ runners[r].at = "recorded"
    /\ schema' = [schema EXCEPT ![Version(r)] = runners[r].work]
    /\ recorded' = IF runners[r].way = "up" THEN recorded \union {Version(r)}
                                            ELSE recorded \ {Version(r)}
    /\ runners' = [runners EXCEPT ![r] =
                      Outside(IF Len(runners[r].todo) = 1 THEN "idle" ELSE "between",
                              runners[r].way, Tail(runners[r].todo))]

\* A statement fails, waits too long for a lock or is cancelled, or the process
\* dies: the transaction is rolled back, and the runner goes no further.
FailMigration(r) ==
    /\ runners[r].at # "idle"
    /\ runners' = [runners EXCEPT ![r] = NotRunning]
    /\ UNCHANGED <<schema, recorded>>

MigrationsNext ==
    \E r \in Runners :
        \/ Migrate(r) \/ Rollback(r) \/ BeginMigration(r) \/ Execute(r) \/ Record(r)
        \/ CommitMigration(r) \/ FailMigration(r)

MigrationsSpec == MigrationsInit /\ [][MigrationsNext]_migrationVars

-----------------------------------------------------------------------------
\* Wherever runners fail, and however many run at once with plans that are out of
\* date, a version is recorded exactly if its whole script has taken effect.
SchemaMatchesRecords ==
    \A v \in Versions : schema[v] = IF v \in recorded THEN 1..Statements ELSE {}
===============================================================================
