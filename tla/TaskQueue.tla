------------------------------ MODULE TaskQueue ------------------------------
(***************************************************************************)
(* flaxon's in-process TaskQueue (tasks/queue.py): a bounded heap ordered  *)
(* by priority and then by arrival, the table of tasks it was given, and   *)
(* the consumers suspended in pop() on the queue's asyncio condition.      *)
(*                                                                         *)
(* Every method body runs under the queue's lock and never suspends while  *)
(* it holds it, except in the condition's wait, which gives the lock up:   *)
(* each call is one action, and a pop() that has to wait is three (it      *)
(* waits; it is notified or its timeout fires; it looks again).            *)
(***************************************************************************)
EXTENDS Integers, FiniteSets

CONSTANTS Tasks,     \* the Task objects
          Consumers, \* the worker loops that may be suspended in pop()
          Priority,  \* each task's priority: the smallest is served first
          MaxSize,   \* max_size
          MaxPushes  \* bound: pushes accepted in a behaviour

ASSUME QueueAssumption ==
    /\ IsFiniteSet(Tasks) /\ IsFiniteSet(Consumers)
    /\ Priority \in [Tasks -> Int]
    /\ MaxSize \in Nat
    /\ MaxPushes \in Nat

VARIABLES heap,     \* _queue: the entries <<priority, counter, task>>, as records
          counter,  \* _counter
          known,    \* the tasks in the table _tasks
          waiting,  \* the consumers suspended in the condition's wait()
          notified  \* those of them a notify() has chosen

queueVars == <<heap, counter, known, waiting, notified>>

Entry == [priority : Int, order : Nat, task : Tasks]

QueueTypeOK ==
    /\ heap \subseteq Entry
    /\ IsFiniteSet(heap)
    /\ counter \in 0..MaxPushes
    /\ known \subseteq Tasks
    /\ waiting \subseteq Consumers
    /\ notified \subseteq waiting

QueueInit ==
    /\ heap = {}
    /\ counter = 0
    /\ known = {}
    /\ waiting = {}
    /\ notified = {}

Entries(t) == {e \in heap : e.task = t}

Full == Cardinality(heap) >= MaxSize

\* Mutant of Notify: a push wakes nobody.
NotifyNobody == UNCHANGED notified

\* Condition.notify() wakes one waiter that was not woken yet, if there is one.
Notify ==
    IF waiting \ notified = {} THEN UNCHANGED notified
    ELSE \E c \in waiting \ notified : notified' = notified \union {c}

Push(t) ==
    /\ ~Full
    /\ counter < MaxPushes
    /\ counter' = counter + 1
    /\ heap' = heap \union {[priority |-> Priority[t], order |-> counter + 1, task |-> t]}
    /\ known' = known \union {t}
    /\ Notify
    /\ UNCHANGED waiting

\* The entry a heap of (priority, counter) pairs gives out next.
Least(e) ==
    /\ e \in heap
    /\ \A f \in heap \ {e} : \/ e.priority < f.priority
                             \/ e.priority = f.priority /\ e.order < f.order

Awake(c) == c \in Consumers /\ c \notin waiting \ notified

\* Mutant of PopTakes: the entry is read but stays in the heap.
PopPeeks(c, e) ==
    /\ Awake(c)
    /\ Least(e)
    /\ waiting' = waiting \ {c}
    /\ notified' = notified \ {c}
    /\ UNCHANGED <<heap, counter, known>>

\* pop() that finds an entry, at once or after it was notified.
PopTakes(c, e) ==
    /\ Awake(c)
    /\ Least(e)
    /\ heap' = heap \ {e}
    /\ waiting' = waiting \ {c}
    /\ notified' = notified \ {c}
    /\ UNCHANGED <<counter, known>>

\* pop() that finds none: it waits, or waits again if others were faster.
PopWaits(c) ==
    /\ Awake(c)
    /\ heap = {}
    /\ waiting' = waiting \union {c}
    /\ notified' = notified \ {c}
    /\ UNCHANGED <<heap, counter, known>>

\* The timeout of a pop() fires, be it notified or not: it returns None.
PopTimesOut(c) ==
    /\ c \in waiting
    /\ waiting' = waiting \ {c}
    /\ notified' = notified \ {c}
    /\ UNCHANGED <<heap, counter, known>>

\* The consumers in pop() are cancelled.
PopsCancelled ==
    /\ waiting' = {}
    /\ notified' = {}
    /\ UNCHANGED <<heap, counter, known>>

\* remove() forgets the task and takes its first entry out of the list, where
\* several can stand when the same task was pushed more than once.
Remove(t) ==
    /\ t \in known
    /\ known' = known \ {t}
    /\ IF Entries(t) = {} THEN UNCHANGED heap
       ELSE \E e \in Entries(t) : heap' = heap \ {e}
    /\ UNCHANGED <<counter, waiting, notified>>

Clear ==
    /\ heap' = {}
    /\ known' = {}
    /\ UNCHANGED <<counter, waiting, notified>>
=============================================================================
