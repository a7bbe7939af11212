--------------------------- MODULE ConnectionPool ---------------------------
(***************************************************************************)
(* flaxon's database ConnectionPool (database/connections.py): a FIFO of   *)
(* idle connections, a count of those that were opened, and an asyncio     *)
(* lock under which a task that found no idle connection opens a new one   *)
(* or, with the pool at its maximum, waits for one to be released.  The    *)
(* lock is held across both awaits, and taking an idle connection does not *)
(* need it: a newcomer may overtake the task that waits.                   *)
(*                                                                         *)
(* Connections are numbered in the order they are opened.                  *)
(***************************************************************************)
EXTENDS Integers, Sequences, FiniteSets, SequencesExt

CONSTANTS Tasks,    \* the asyncio tasks that use the pool
          MinSize,  \* min_size
          MaxSize,  \* max_size
          MaxConns, \* bound: connections opened in a behaviour
          Starter,  \* the task that runs initialize()
          None

ASSUME PoolAssumption ==
    /\ IsFiniteSet(Tasks)
    /\ MaxSize \in Nat \ {0} /\ MinSize \in 0..MaxSize
    /\ MaxConns \in Nat
    /\ Starter \notin Tasks /\ None \notin Tasks /\ Starter # None
    /\ None \notin 1..MaxConns

VARIABLES
    idle,     \* _pool
    size,     \* _size
    closed,   \* _closed
    draining, \* close() is disconnecting the idle connections
    toOpen,   \* the connections initialize() has still to open
    holder,   \* the task that holds _lock
    doing,    \* what the holder does: "connecting", or "getting" from _pool
    queue,    \* the tasks waiting for _lock
    opened,   \* how many connections were opened
    live,     \* the connections that are connected
    lease     \* the connection each task has acquired and not released

poolVars == <<idle, size, closed, draining, toOpen, holder, doing, queue,
              opened, live, lease>>

Conns == 1..MaxConns

PoolTypeOK ==
    /\ idle \in Seq(Conns)
    /\ size \in Nat
    /\ closed \in BOOLEAN /\ draining \in BOOLEAN
    /\ toOpen \in 0..MinSize
    /\ holder \in Tasks \union {Starter, None}
    /\ doing \in {"connecting", "getting"}
    /\ queue \in Seq(Tasks)
    /\ opened \in 0..MaxConns
    /\ live \subseteq Conns
    /\ lease \in [Tasks -> Conns \union {None}]

\* initialize() has taken the lock; requests may come in already.
PoolInit ==
    /\ idle = <<>> /\ size = 0
    /\ closed = FALSE /\ draining = FALSE
    /\ toOpen = MinSize
    /\ holder = IF MinSize = 0 THEN None ELSE Starter
    /\ doing = "connecting"
    /\ queue = <<>>
    /\ opened = 0 /\ live = {}
    /\ lease = [t \in Tasks |-> None]

\* A new connection is connected.
Opens ==
    /\ opened < MaxConns
    /\ opened' = opened + 1
    /\ live' = live \union {opened'}
    /\ size' = size + 1

InitializeConnects ==
    /\ toOpen > 0
    /\ Opens
    /\ idle' = Append(idle, opened')
    /\ toOpen' = toOpen - 1
    /\ holder' = IF toOpen' = 0 THEN None ELSE Starter
    /\ UNCHANGED <<closed, draining, doing, queue, lease>>

InitializeFails ==
    /\ toOpen > 0
    /\ toOpen' = 0
    /\ holder' = None
    /\ UNCHANGED <<idle, size, closed, draining, doing, queue, opened, live, lease>>

-----------------------------------------------------------------------------
(* acquire() by task t *)

AcquireIdle(t) ==
    /\ ~closed /\ idle # <<>>
    /\ lease' = [lease EXCEPT ![t] = Head(idle)]
    /\ idle' = Tail(idle)
    /\ UNCHANGED <<size, closed, draining, toOpen, holder, doing, queue, opened, live>>

AcquireQueues(t) ==
    /\ ~closed /\ idle = <<>>
    /\ queue' = Append(queue, t)
    /\ UNCHANGED <<idle, size, closed, draining, toOpen, holder, doing, opened, live, lease>>

\* Mutant of NextForLock: the size is looked at without the lock.
NextWithoutLock(t) == queue # <<>> /\ t = Head(queue)

\* The lock goes to the tasks in the order they asked for it.
NextForLock(t) == holder = None /\ queue # <<>> /\ t = Head(queue)

\* With the lock, the size is looked at, but not whether the pool was closed.
GetsLock(t) ==
    /\ NextForLock(t)
    /\ holder' = t
    /\ doing' = IF size < MaxSize THEN "connecting" ELSE "getting"
    /\ queue' = Tail(queue)
    /\ UNCHANGED <<idle, size, closed, draining, toOpen, opened, live, lease>>

Connects(t) ==
    /\ holder = t /\ doing = "connecting"
    /\ Opens
    /\ lease' = [lease EXCEPT ![t] = opened']
    /\ holder' = None
    /\ UNCHANGED <<idle, closed, draining, toOpen, doing, queue>>

Gets(t) ==
    /\ holder = t /\ doing = "getting" /\ idle # <<>>
    /\ lease' = [lease EXCEPT ![t] = Head(idle)]
    /\ idle' = Tail(idle)
    /\ holder' = None
    /\ UNCHANGED <<size, closed, draining, toOpen, doing, queue, opened, live>>

\* connect() raises, or the task is cancelled while it waits.
AcquireFails(t) ==
    /\ \/ holder = t /\ holder' = None /\ UNCHANGED queue
       \/ /\ \E i \in DOMAIN queue : queue[i] = t /\ queue' = RemoveAt(queue, i)
          /\ UNCHANGED holder
    /\ UNCHANGED <<idle, size, closed, draining, toOpen, doing, opened, live, lease>>

-----------------------------------------------------------------------------
\* Mutant of Release: the task goes on using the connection it gave back.
ReleaseKeeps(t) ==
    /\ idle' = IF closed THEN idle ELSE Append(idle, lease[t])
    /\ UNCHANGED <<size, closed, draining, toOpen, holder, doing, queue, opened, live, lease>>

\* release(): a closed pool disconnects what comes back.
Release(t) ==
    /\ lease' = [lease EXCEPT ![t] = None]
    /\ IF closed THEN live' = live \ {lease[t]} /\ UNCHANGED idle
                 ELSE idle' = Append(idle, lease[t]) /\ UNCHANGED live
    /\ UNCHANGED <<size, closed, draining, toOpen, holder, doing, queue, opened>>

\* close(), once initialize() is done: it disconnects the idle connections one
\* by one, then forgets how many there are, those still leased included.
Close ==
    /\ ~closed /\ toOpen = 0
    /\ closed' = TRUE /\ draining' = TRUE
    /\ UNCHANGED <<idle, size, toOpen, holder, doing, queue, opened, live, lease>>

DrainOne ==
    /\ draining /\ idle # <<>>
    /\ live' = live \ {Head(idle)}
    /\ idle' = Tail(idle)
    /\ UNCHANGED <<size, closed, draining, toOpen, holder, doing, queue, opened, lease>>

DrainEnds ==
    /\ draining /\ idle = <<>>
    /\ draining' = FALSE
    /\ size' = 0
    /\ UNCHANGED <<idle, closed, toOpen, holder, doing, queue, opened, live, lease>>

-----------------------------------------------------------------------------
\* A connection is idle or in the hands of one task, and while the pool is open
\* every connected one is accounted for: no overtaking, failure or cancellation
\* in acquire() hands a connection out twice or drops it.
LeasesExclusive ==
    /\ \A t, u \in Tasks : lease[t] = lease[u] /\ lease[t] # None => t = u
    /\ \A t \in Tasks : lease[t] \notin Range(idle)
    /\ Cardinality(Range(idle)) = Len(idle)
    /\ Range(idle) \union ({lease[t] : t \in Tasks} \ {None}) = live

\* Until it is closed the pool never has more than max_size connections open,
\* though a task looks at the size before an await and adds to it after.
WithinMaxSize == ~closed => Cardinality(live) = size /\ size <= MaxSize

\* After close() no connection is, or comes to be, left in the pool.
ClosedIsEmpty == closed /\ ~draining => idle = <<>>

\* In each of its lives the pool holds what it should: its count is that of the
\* connections, within max_size, until close(), and nothing after it, whoever
\* connects, hands back or waits for the lock meanwhile.
PoolAccounts == WithinMaxSize /\ ClosedIsEmpty
=============================================================================
