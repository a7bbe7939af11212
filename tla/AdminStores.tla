----------------------------- MODULE AdminStores ------------------------------
(***************************************************************************)
(* mutate() of the admin's document stores: AdminStore on SQLite and       *)
(* PostgreSQLAdminStore (admin/services.py), ORMAdminStore                 *)
(* (db/admin_store.py).  It reads one document, changes it in a callback   *)
(* and writes it back in one database transaction; the durable job queue,  *)
(* the audit log and the service registry rely on nothing else for their   *)
(* atomicity.                                                              *)
(*                                                                         *)
(* What differs is what a transaction locks, and when: all of the database *)
(* before it reads (SQLite), the row if there is one (PostgreSQL), the row *)
(* after making sure that there is one (ORM).  The document is represented *)
(* by the set of mutations in it.                                          *)
(***************************************************************************)
EXTENDS Naturals, FiniteSets

CONSTANTS Backends,     \* the stores to consider
          Clients,      \* processes that call mutate()
          MaxMutations  \* bound: calls of mutate()

Nobody == "nobody"

ASSUME StoreAssumption ==
    /\ Backends \subseteq {"SQLite", "PostgreSQL", "ORM"}
    /\ IsFiniteSet(Clients) /\ Nobody \notin Clients
    /\ MaxMutations \in Nat

VARIABLES
    backend,   \* the store of this behaviour
    existed,   \* whether the row was there at its beginning
    row,       \* the committed row
    locked,    \* who holds the lock on the row, or on the database
    mutating,  \* where each client's call is, its number and what it has read
    mutations, \* calls so far
    returned   \* history: the calls that have returned

storeVars == <<backend, existed, row, locked, mutating, mutations, returned>>
storeFixed == <<backend, existed>>

Mutations == 1..MaxMutations
NoRow == [there |-> FALSE, value |-> {}]
NoCall == [at |-> "away", number |-> 0, value |-> {}]

StoreTypeOK ==
    /\ backend \in Backends /\ existed \in BOOLEAN
    /\ row \in [there : BOOLEAN, value : SUBSET Mutations]
    /\ locked \in Clients \union {Nobody}
    /\ mutating \in [Clients -> [at : {"away", "begun", "ensured", "read", "written"},
                                 number : 0..MaxMutations, value : SUBSET Mutations]]
    /\ mutations \in 0..MaxMutations /\ returned \subseteq Mutations

StoreInit ==
    /\ backend \in Backends /\ existed \in BOOLEAN
    /\ row = [NoRow EXCEPT !.there = existed]
    /\ locked = Nobody /\ mutations = 0 /\ returned = {}
    /\ mutating = [c \in Clients |-> NoCall]

FreeFor(c) == locked \in {Nobody, c}
Reaches(c, at) == mutating' = [mutating EXCEPT ![c].at = at]

-----------------------------------------------------------------------------
BeginMutate(c) ==
    /\ mutating[c].at = "away" /\ mutations < MaxMutations
    /\ mutations' = mutations + 1
    /\ mutating' = [mutating EXCEPT ![c] = [at |-> "begun", number |-> mutations', value |-> {}]]
    /\ UNCHANGED <<storeFixed, row, locked, returned>>

\* The document is read: the row, or the default if there is none.
ReadsRow(c) == mutating' = [mutating EXCEPT ![c].at = "read", ![c].value = row.value]

\* Mutant of ReadUnderWriteLock: the transaction begins as a reader.
ReadWithoutLock(c) ==
    /\ backend = "SQLite" /\ mutating[c].at = "begun"
    /\ ReadsRow(c)
    /\ UNCHANGED <<storeFixed, row, locked, mutations, returned>>

\* SQLite: BEGIN IMMEDIATE, then the row.
ReadUnderWriteLock(c) ==
    /\ backend = "SQLite" /\ mutating[c].at = "begun" /\ FreeFor(c)
    /\ locked' = c
    /\ ReadsRow(c)
    /\ UNCHANGED <<storeFixed, row, mutations, returned>>

\* PostgreSQL: SELECT ... FOR UPDATE locks a row.  Where there is none, or none
\* that has been committed, it locks nothing and waits for nobody.
ReadForUpdate(c) ==
    /\ backend = "PostgreSQL" /\ mutating[c].at = "begun"
    /\ row.there => FreeFor(c)
    /\ locked' = IF row.there THEN c ELSE locked
    /\ ReadsRow(c)
    /\ UNCHANGED <<storeFixed, row, mutations, returned>>

\* The ORM: get_or_create() waits for whoever is inserting the row, too.
EnsureRow(c) ==
    /\ backend = "ORM" /\ mutating[c].at = "begun"
    /\ row.there \/ FreeFor(c)
    /\ locked' = IF row.there THEN locked ELSE c
    /\ Reaches(c, "ensured")
    /\ UNCHANGED <<storeFixed, row, mutations, returned>>

\* select_for_update()
LockRow(c) ==
    /\ mutating[c].at = "ensured" /\ FreeFor(c)
    /\ locked' = c
    /\ ReadsRow(c)
    /\ UNCHANGED <<storeFixed, row, mutations, returned>>

\* The callback has returned, and the value it changed is written.
WritesRow(c) ==
    /\ mutating[c].at = "read" /\ FreeFor(c)
    /\ locked' = c
    /\ mutating' = [mutating EXCEPT ![c].at = "written", ![c].value = @ \union {mutating[c].number}]
    /\ UNCHANGED <<storeFixed, row, mutations, returned>>

EndsTransaction(c) ==
    /\ locked' = IF locked = c THEN Nobody ELSE locked
    /\ mutating' = [mutating EXCEPT ![c] = NoCall]

\* The transaction is committed; the answer may be lost with the client.
CommitMutate(c) ==
    /\ mutating[c].at = "written"
    /\ row' = [there |-> TRUE, value |-> mutating[c].value]
    /\ \/ returned' = returned \union {mutating[c].number}
       \/ UNCHANGED returned
    /\ EndsTransaction(c)
    /\ UNCHANGED <<storeFixed, mutations>>

\* The callback raises, the database reports an error or the client dies.
RollbackMutate(c) ==
    /\ mutating[c].at # "away"
    /\ EndsTransaction(c)
    /\ UNCHANGED <<storeFixed, row, mutations, returned>>

StoreNext ==
    \E c \in Clients :
        \/ BeginMutate(c) \/ ReadUnderWriteLock(c) \/ ReadForUpdate(c) \/ EnsureRow(c) \/ LockRow(c)
        \/ WritesRow(c) \/ CommitMutate(c) \/ RollbackMutate(c)

StoreSpec == StoreInit /\ [][StoreNext]_storeVars

-----------------------------------------------------------------------------
\* No mutation takes away what another one has changed, however transactions
\* overlap, fail and lose their answers: mutate() may be taken for one step.  In
\* PostgreSQLAdminStore only once the document is there.
MutationsKept == (backend = "PostgreSQL" => existed) => returned \subseteq row.value
===============================================================================
