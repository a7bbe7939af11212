---------------------------- MODULE Transactions ----------------------------
(***************************************************************************)
(* flaxon's DatabaseManager and Transaction (database/manager.py,          *)
(* database/transactions.py) over ConnectionPool: asyncio tasks that run   *)
(* single calls and nested transactions, against a database server that    *)
(* keeps, per connection, the open transaction and its savepoints.         *)
(*                                                                         *)
(* Which connection a call uses, and whether a transaction is nested, is   *)
(* read from two context variables.  A task created inside a transaction   *)
(* starts with a copy of them.                                             *)
(***************************************************************************)
EXTENDS ConnectionPool

CONSTANTS
    Children,  \* the tasks that are created inside a transaction of another,
    Parent,    \* and the task each of them is created in
    MaxDepth,  \* bound: transactions nested in a task
    MaxUses,   \* bound: calls and transactions each task starts,
    Tireless,  \* except these tasks, which start transactions without end
    MaxWrites, \* bound: writes of a task
    MaxFaults  \* bound: SQL commands that fail or are cancelled

ASSUME TransactionAssumption ==
    /\ Children \subseteq Tasks /\ Parent \in [Children -> Tasks \ Children]
    /\ Tireless \subseteq Tasks
    /\ MaxDepth \in Nat /\ MaxUses \in [Tasks -> Nat] /\ MaxWrites \in Nat /\ MaxFaults \in Nat

VARIABLES
    pc,         \* what each task awaits; "body": its own code runs
    context,    \* _transaction_connection in each task's context
    depth,      \* _transaction_depth in each task's context
    expected,   \* the writes made at each level of a task's own transactions
    uses, writes, faults,
    frames,     \* the server: each connection's transaction and savepoints
    committed,  \* the server: the writes that are durable
    promised,   \* history: the writes the code reported as committed
    revoked,    \* history: the writes the code reported as rolled back
    dirty       \* history: the connections on which a COMMIT or ROLLBACK failed

taskVars == <<pc, context, depth, expected, uses, writes>>
serverVars == <<frames, committed>>
reportVars == <<promised, revoked, dirty>>
vars == <<poolVars, taskVars, faults, serverVars, reportVars>>

Write == Tasks \X (1..MaxWrites)

\* A frame is the transaction itself (name 0) or SAVEPOINT flaxon_tx_<name>.
Frame == [name : Nat, writes : SUBSET Write]

TypeOK ==
    /\ PoolTypeOK
    /\ pc \in [Tasks -> {"absent", "body", "queued for a call", "queued for a transaction",
                         "calling", "beginning", "committing", "rolling back", "finished"}]
    /\ context \in [Tasks -> Conns \union {None}]
    /\ depth \in [Tasks -> Nat]
    /\ expected \in [Tasks -> Seq(SUBSET Write)]
    /\ \A t \in Tasks : uses[t] \in 0..MaxUses[t]
    /\ writes \in [Tasks -> 0..MaxWrites]
    /\ faults \in 0..MaxFaults
    /\ frames \in [Conns -> Seq(Frame)]
    /\ committed \subseteq Write /\ promised \subseteq Write /\ revoked \subseteq Write
    /\ dirty \subseteq Conns

Init ==
    /\ PoolInit
    /\ pc = [t \in Tasks |-> IF t \in Children THEN "absent" ELSE "body"]
    /\ context = [t \in Tasks |-> None]
    /\ depth = [t \in Tasks |-> 0]
    /\ expected = [t \in Tasks |-> <<>>]
    /\ uses = [t \in Tasks |-> 0]
    /\ writes = [t \in Tasks |-> 0]
    /\ faults = 0
    /\ frames = [c \in Conns |-> <<>>]
    /\ committed = {} /\ promised = {} /\ revoked = {}
    /\ dirty = {}

-----------------------------------------------------------------------------
(* The database server, as the code's SQL uses it *)

Pending(c) == UNION {frames[c][i].writes : i \in DOMAIN frames[c]}

Savepoints(c, name) == {i \in DOMAIN frames[c] : frames[c][i].name = name}

NewFrame(name) == [name |-> name, writes |-> {}]

Top(s) == s[Len(s)]

\* A statement joins the connection's transaction, or commits at once.
Executes(c, w) ==
    IF frames[c] = <<>>
    THEN committed' = committed \union {w} /\ UNCHANGED frames
    ELSE /\ frames' = [frames EXCEPT ![c][Len(frames[c])].writes = @ \union {w}]
         /\ UNCHANGED committed

\* BEGIN inside a transaction is only a warning, COMMIT and ROLLBACK outside
\* one as well; a SAVEPOINT needs one.
SqlBegin(c) ==
    /\ frames' = [frames EXCEPT ![c] = IF @ = <<>> THEN <<NewFrame(0)>> ELSE @]
    /\ UNCHANGED committed

SqlSavepoint(c, name) ==
    /\ frames[c] # <<>>
    /\ frames' = [frames EXCEPT ![c] = Append(@, NewFrame(name))]
    /\ UNCHANGED committed

SqlCommit(c) ==
    /\ committed' = committed \union Pending(c)
    /\ frames' = [frames EXCEPT ![c] = <<>>]

SqlRollback(c) ==
    /\ frames' = [frames EXCEPT ![c] = <<>>]
    /\ UNCHANGED committed

\* RELEASE merges the last savepoint of the name, and all after it, into what
\* was before; ROLLBACK TO empties it and keeps it.
SqlRelease(c, name) ==
    LET i == Max(Savepoints(c, name))
        merged == UNION {frames[c][k].writes : k \in i - 1 .. Len(frames[c])} IN
    /\ Savepoints(c, name) # {}
    /\ frames' = [frames EXCEPT ![c] =
                     Append(SubSeq(@, 1, i - 2), [@[i - 1] EXCEPT !.writes = merged])]
    /\ UNCHANGED committed

SqlRollbackTo(c, name) ==
    LET i == Max(Savepoints(c, name)) IN
    /\ Savepoints(c, name) # {}
    /\ frames' = [frames EXCEPT ![c] = Append(SubSeq(@, 1, i - 1), NewFrame(name))]
    /\ UNCHANGED committed

\* Mutant of Commits: a nested transaction commits everything.
CommitsAll(c, d) == SqlCommit(c)

\* Mutant of RollsBack: the outermost block is left without a ROLLBACK.
RollsBackNested(c, d) == IF d = 0 THEN UNCHANGED serverVars ELSE SqlRollbackTo(c, d)

\* begin(), commit() and rollback() of the transaction at a depth.
Begins(c, d) == IF d = 0 THEN SqlBegin(c) ELSE SqlSavepoint(c, d)
Commits(c, d) == IF d = 0 THEN SqlCommit(c) ELSE SqlRelease(c, d)
RollsBack(c, d) == IF d = 0 THEN SqlRollback(c) ELSE SqlRollbackTo(c, d)

-----------------------------------------------------------------------------
(* Using the pool *)

\* The task's innermost transaction began at this depth, and if that is the
\* one that acquired the connection, leaving it gives the connection back.
Level(t) == depth[t] - 1
Owns(t) == lease[t] # None /\ Level(t) = 0

Becomes(t, where) == pc' = [pc EXCEPT ![t] = where]

\* Once the connection is there a call runs on it; a transaction also puts it
\* into the context and starts its BEGIN.
Proceeds(t, goal) ==
    IF goal = "call"
    THEN Becomes(t, "calling") /\ UNCHANGED <<context, depth>>
    ELSE /\ Becomes(t, "beginning")
         /\ context' = [context EXCEPT ![t] = lease'[t]]
         /\ depth' = [depth EXCEPT ![t] = @ + 1]

QueuedFor(goal) == IF goal = "call" THEN "queued for a call" ELSE "queued for a transaction"

CountsUse(t) ==
    IF t \in Tireless THEN UNCHANGED uses
    ELSE uses[t] < MaxUses[t] /\ uses' = [uses EXCEPT ![t] = @ + 1]

Fault == faults < MaxFaults /\ faults' = faults + 1

\* A call or a transaction outside any transaction.
Acquire(t, goal) ==
    /\ pc[t] = "body" /\ context[t] = None
    /\ CountsUse(t)
    /\ goal = "call" => writes[t] < MaxWrites
    /\ \/ AcquireIdle(t) /\ Proceeds(t, goal)
       \/ AcquireQueues(t) /\ Becomes(t, QueuedFor(goal)) /\ UNCHANGED <<context, depth>>
    /\ UNCHANGED <<expected, writes, faults, serverVars, reportVars>>

WaitForLock(t) ==
    /\ GetsLock(t)
    /\ UNCHANGED <<taskVars, faults, serverVars, reportVars>>

Acquired(t, goal) ==
    /\ pc[t] = QueuedFor(goal)
    /\ Connects(t) \/ Gets(t)
    /\ Proceeds(t, goal)
    /\ UNCHANGED <<expected, uses, writes, faults, serverVars, reportVars>>

NotAcquired(t) ==
    /\ Fault
    /\ AcquireFails(t)
    /\ Becomes(t, "body")
    /\ UNCHANGED <<context, depth, expected, uses, writes, serverVars, reportVars>>

-----------------------------------------------------------------------------
(* Statements *)

NextWrite(t) == <<t, writes[t] + 1>>

CountsWrite(t) ==
    /\ writes[t] < MaxWrites
    /\ writes' = [writes EXCEPT ![t] = @ + 1]

\* db.execute outside a transaction: execute, and release whatever happens.
CallReturns(t) ==
    /\ pc[t] = "calling"
    /\ CountsWrite(t)
    /\ Executes(lease[t], NextWrite(t))
    /\ promised' = promised \union {NextWrite(t)}
    /\ Release(t)
    /\ Becomes(t, "body")
    /\ UNCHANGED <<context, depth, expected, uses, faults, revoked, dirty>>

CallFails(t) ==
    /\ pc[t] = "calling"
    /\ CountsWrite(t)
    /\ Executes(lease[t], NextWrite(t)) \/ UNCHANGED serverVars
    /\ Fault
    /\ Release(t)
    /\ Becomes(t, "body")
    /\ UNCHANGED <<context, depth, expected, uses, reportVars>>

\* tx.execute or db.execute where the context has a connection.
Statement(t) ==
    /\ pc[t] = "body" /\ context[t] \in live
    /\ CountsWrite(t)
    /\ Executes(context[t], NextWrite(t))
    /\ expected' = IF expected[t] = <<>> THEN expected
                   ELSE [expected EXCEPT ![t][Len(expected[t])] = @ \union {NextWrite(t)}]
    /\ UNCHANGED <<poolVars, pc, context, depth, uses, faults, reportVars>>

-----------------------------------------------------------------------------
(* Transactions *)

Nest(t) ==
    /\ pc[t] = "body" /\ context[t] # None
    /\ Len(expected[t]) < MaxDepth /\ CountsUse(t)
    /\ depth' = [depth EXCEPT ![t] = @ + 1]
    /\ Becomes(t, "beginning")
    /\ UNCHANGED <<poolVars, context, expected, writes, faults, serverVars, reportVars>>

Began(t) ==
    /\ pc[t] = "beginning" /\ context[t] \in live
    /\ Begins(context[t], Level(t))
    /\ expected' = [expected EXCEPT ![t] = Append(@, {})]
    /\ Becomes(t, "body")
    /\ UNCHANGED <<poolVars, context, depth, uses, writes, faults, reportVars>>

\* Mutant of Leaves: the depth is reset by commit() and again by __aexit__.
LeavesTwice(t) ==
    /\ depth' = [depth EXCEPT ![t] = @ - 2]
    /\ IF Owns(t) THEN Release(t) /\ context' = [context EXCEPT ![t] = None]
                  ELSE UNCHANGED <<poolVars, context>>

\* Mutant of Leaves: the connection is not released.
LeavesLeased(t) ==
    /\ depth' = [depth EXCEPT ![t] = @ - 1]
    /\ context' = IF Owns(t) THEN [context EXCEPT ![t] = None] ELSE context
    /\ UNCHANGED poolVars

\* close() and _reset_depth() of the innermost transaction.
Leaves(t) ==
    /\ depth' = [depth EXCEPT ![t] = @ - 1]
    /\ IF Owns(t) THEN Release(t) /\ context' = [context EXCEPT ![t] = None]
                  ELSE UNCHANGED <<poolVars, context>>

\* Commands that fail without a fault of the server: on a closed connection, a
\* SAVEPOINT outside a transaction, and what refers to a savepoint that is gone.
CannotBegin(t) ==
    \/ context[t] \notin live
    \/ Level(t) > 0 /\ frames[context[t]] = <<>>

CannotExit(t) ==
    \/ context[t] \notin live
    \/ Level(t) > 0 /\ Savepoints(context[t], Level(t)) = {}

BeginRaises(t) ==
    /\ pc[t] = "beginning"
    /\ IF CannotBegin(t) THEN UNCHANGED faults ELSE Fault
    /\ Leaves(t)
    /\ Becomes(t, "body")
    /\ UNCHANGED <<expected, uses, writes, serverVars, reportVars>>

\* CancelledError is not an Exception: begin() cleans nothing up.  An enclosing
\* transaction of the task is rolled back, without one the task ends and takes
\* the connection with it.
BeginCancelled(t) ==
    /\ pc[t] = "beginning" /\ context[t] \in live
    /\ Fault
    /\ Begins(context[t], Level(t)) \/ UNCHANGED serverVars
    /\ IF expected[t] = <<>>
       THEN Becomes(t, "finished") /\ UNCHANGED depth
       ELSE Becomes(t, "rolling back") /\ depth' = [depth EXCEPT ![t] = @ - 1]
    /\ UNCHANGED <<poolVars, context, expected, uses, writes, reportVars>>

\* __aexit__ commits, or rolls back if the block raised.
Exit(t, how) ==
    /\ pc[t] = "body" /\ expected[t] # <<>>
    /\ Becomes(t, how)
    /\ UNCHANGED <<poolVars, context, depth, expected, uses, writes, faults, serverVars, reportVars>>

\* The writes of the block, and the levels around it.
Inner(t) == Top(expected[t])
Outer(t) == SubSeq(expected[t], 1, Len(expected[t]) - 1)

Commit(t) ==
    /\ pc[t] = "committing" /\ context[t] \in live
    /\ Commits(context[t], Level(t))
    /\ IF Level(t) = 0 THEN promised' = promised \union Inner(t) ELSE UNCHANGED promised
    /\ expected' = [expected EXCEPT ![t] =
          IF Outer(t) = <<>> THEN <<>>
          ELSE [Outer(t) EXCEPT ![Len(Outer(t))] = @ \union Inner(t)]]
    /\ Leaves(t)
    /\ Becomes(t, "body")
    /\ UNCHANGED <<uses, writes, faults, revoked, dirty>>

Rollback(t) ==
    /\ pc[t] = "rolling back" /\ context[t] \in live
    /\ RollsBack(context[t], Level(t))
    /\ revoked' = revoked \union Inner(t)
    /\ expected' = [expected EXCEPT ![t] = Outer(t)]
    /\ Leaves(t)
    /\ Becomes(t, "body")
    /\ UNCHANGED <<uses, writes, faults, promised, dirty>>

\* The command fails or is cancelled: the transaction is left all the same and
\* its connection goes back to the pool as it is.
ExitFails(t) ==
    /\ pc[t] \in {"committing", "rolling back"}
    /\ IF CannotExit(t) THEN UNCHANGED <<faults, serverVars>>
       ELSE /\ Fault
            /\ \/ UNCHANGED serverVars
               \/ pc[t] = "committing" /\ Commits(context[t], Level(t))
               \/ pc[t] = "rolling back" /\ RollsBack(context[t], Level(t))
    /\ dirty' = IF Level(t) = 0 THEN dirty \union {context[t]} ELSE dirty
    /\ expected' = [expected EXCEPT ![t] = Outer(t)]
    /\ Leaves(t)
    /\ Becomes(t, "body")
    /\ UNCHANGED <<uses, writes, promised, revoked>>

\* asyncio.create_task inside a transaction copies the context.
Spawn(child) ==
    LET t == Parent[child] IN
    /\ pc[t] = "body" /\ context[t] # None
    /\ pc[child] = "absent"
    /\ Becomes(child, "body")
    /\ context' = [context EXCEPT ![child] = context[t]]
    /\ depth' = [depth EXCEPT ![child] = depth[t]]
    /\ UNCHANGED <<poolVars, expected, uses, writes, faults, serverVars, reportVars>>

PoolStep ==
    /\ InitializeConnects \/ InitializeFails \/ DrainOne \/ DrainEnds
    /\ UNCHANGED <<taskVars, faults, serverVars, reportVars>>

ClosePool ==
    /\ Close
    /\ UNCHANGED <<taskVars, faults, serverVars, reportVars>>

-----------------------------------------------------------------------------
Goals == {"call", "transaction"}

Acquiring(t) == WaitForLock(t) \/ \E goal \in Goals : Acquired(t, goal)
Calling(t) == CallReturns(t) \/ CallFails(t)
Beginning(t) == Began(t) \/ BeginRaises(t) \/ BeginCancelled(t)
Exiting(t) == Commit(t) \/ Rollback(t) \/ ExitFails(t)
Exits(t) == Exit(t, "committing") \/ Exit(t, "rolling back")

\* What ends what task t has under way.
Progress(t) == Acquiring(t) \/ Calling(t) \/ Beginning(t) \/ Exiting(t) \/ Exits(t)

Next ==
    \/ PoolStep \/ ClosePool
    \/ \E t \in Tasks :
          \/ \E goal \in Goals : Acquire(t, goal)
          \/ NotAcquired(t) \/ Statement(t) \/ Nest(t)
          \/ Progress(t)
    \/ \E child \in Children : Spawn(child)

Spec == Init /\ [][Next]_vars

\* The event loop and the server answer, and no block runs for ever.
Fairness == WF_vars(PoolStep) /\ \A t \in Tasks : WF_vars(Progress(t))

FairSpec == Spec /\ Fairness

-----------------------------------------------------------------------------
\* A connection goes back to the pool with its transaction over, whichever way
\* the block, its savepoints and its BEGIN ended, unless a COMMIT or a ROLLBACK
\* on it failed.
IdleIsClean == \A i \in DOMAIN idle : frames[idle[i]] # <<>> => idle[i] \in dirty

NothingShared == dirty = {} /\ \A child \in Children : pc[child] = "absent"

\* All or nothing, through savepoints and connections that change hands: what
\* a block that committed wrote is durable, what one that was rolled back wrote
\* never is, as long as each transaction has its connection to itself.
AllOrNothing ==
    NothingShared => promised \subseteq committed /\ revoked \intersect committed = {}

\* On the connection of each task, what an inner block wrote that was left by neither
\* RELEASE nor ROLLBACK TO.
InDoubt ==
    [t \in Tasks |-> IF expected[t] = <<>> THEN {}
                     ELSE Pending(context[t]) \ UNION {expected[t][i] : i \in DOMAIN expected[t]}]

Service == INSTANCE BlockService WITH
    Users <- Tasks, durable <- committed, blocks <- expected, doubt <- InDoubt, given <- writes

\* Connections, savepoints, faults and cancellations do not show: every step is one of
\* a service that knows blocks and writes only, or none, up to the one that creates
\* a task in a transaction or in which a COMMIT or ROLLBACK fails; and what the
\* service has reported stays true.
BlocksAreAtomic ==
    /\ Service!Init
    /\ [][Service!Next \/ ~NothingShared']_(Service!serviceVars)
    /\ []AllOrNothing

\* The code's claim that transaction state belongs to one task: the transaction
\* open on a connection holds only writes of the task that acquired it and of
\* tasks created in it.
Isolated ==
    \A t \in Tasks : lease[t] # None =>
        \A w \in Pending(lease[t]) :
            w[1] = t \/ (w[1] \in Children /\ Parent[w[1]] = t)

Queued(t) == pc[t] \in {QueuedFor(goal) : goal \in Goals}

\* A cancelled BEGIN has left a connection with no one to release it.
Leaked == \E t \in Tasks : pc[t] = "finished" /\ lease[t] # None

\* While t waits, another task takes an idle connection without the lock.
Overtakes(t) == Queued(t) /\ \E u \in Tasks \ {t} : AcquireIdle(u)

\* Whoever asks for a connection gets one or an error, as long as the pool is
\* not closed meanwhile and no cancelled BEGIN has lost a connection.  The lock is
\* fair but acquire() is not: a task that gives its connection back and asks
\* again before the one that waits has run takes it at once, and nothing in the
\* code bounds how often.  Only overtaking without end starves a task: no
\* failure or cancellation in acquire(), and no order of the lock, does.
AcquireEnds ==
    \A t \in Tasks :
        \/ Queued(t) ~> ~Queued(t) \/ closed \/ Leaked
        \/ []<><<Overtakes(t)>>_vars
=============================================================================
