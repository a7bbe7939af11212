----------------------------- MODULE TaskWorkers -----------------------------
(***************************************************************************)
(* Background tasks in one process: the consumers of a Worker              *)
(* (tasks/worker.py), the Task objects they run (tasks/task.py) and the    *)
(* Scheduler that pushes due items (tasks/scheduler.py), over TaskQueue.   *)
(*                                                                         *)
(* A Task is one mutable object: whoever pushed it, the queue, and every   *)
(* consumer running it share its status and its retry count, and nothing   *)
(* stops the same object from being queued, or run, more than once.        *)
(***************************************************************************)
EXTENDS TaskQueue

CONSTANTS
    Registered,   \* the tasks whose name the TaskRegistry knows
    MaxAttempts,  \* each task's RetryPolicy.max_retries
    Items,        \* what was given to Scheduler.schedule
    TaskOf,       \* the task of each item
    Repeats,      \* the items with an interval
    Null,         \* no task
    MaxStops      \* bound: shutdowns in a behaviour

ASSUME WorkerAssumption ==
    /\ Registered \subseteq Tasks
    /\ MaxAttempts \in [Tasks -> Nat]
    /\ TaskOf \in [Items -> Tasks]
    /\ Repeats \subseteq Items
    /\ Null \notin Tasks
    /\ MaxStops \in Nat

VARIABLES
    status,       \* each task's status
    retryCount,   \* each task's retry_count
    pc,           \* each consumer: stopped, in its loop, in the task, or asleep
    current,      \* the task each consumer executes
    running,      \* Worker._running
    scheduled,    \* the scheduler's list
    due,          \* the items of the pass in progress, not pushed yet
    halted,       \* Scheduler.stop was called
    stops,
    accepted,     \* history: how often the queue accepted each task
    interrupted   \* history: the tasks a shutdown cut off

workerVars == <<status, retryCount, pc, current, running>>
schedulerVars == <<scheduled, due, halted>>
historyVars == <<stops, accepted, interrupted>>
vars == <<queueVars, workerVars, schedulerVars, historyVars>>

Statuses == {"pending", "running", "completed", "failed", "retry", "cancelled", "timeout"}

\* A task that several consumers run at once, or that is pushed again, is retried
\* as often as its policy allows and no more: they all share one retry count.
RetriesBounded == \A t \in Tasks : retryCount[t] <= MaxAttempts[t]

TypeOK ==
    /\ QueueTypeOK
    /\ status \in [Tasks -> Statuses]
    /\ retryCount \in [Tasks -> Nat] /\ RetriesBounded
    /\ pc \in [Consumers -> {"stopped", "loop", "executing", "asleep"}]
    /\ current \in [Consumers -> Tasks \union {Null}]
    /\ running \in BOOLEAN
    /\ scheduled \subseteq Items
    /\ due \subseteq Items
    /\ halted \in BOOLEAN
    /\ stops \in 0..MaxStops
    /\ accepted \in [Tasks -> 0..MaxPushes]
    /\ interrupted \subseteq Tasks

Init ==
    /\ QueueInit
    /\ status = [t \in Tasks |-> "pending"]
    /\ retryCount = [t \in Tasks |-> 0]
    /\ pc = [c \in Consumers |-> "stopped"]
    /\ current = [c \in Consumers |-> Null]
    /\ running = FALSE
    /\ scheduled = Items
    /\ due = {}
    /\ halted = FALSE
    /\ stops = 0
    /\ accepted = [t \in Tasks |-> 0]
    /\ interrupted = {}

-----------------------------------------------------------------------------
(* Callers *)

Accept(t) ==
    /\ Push(t)
    /\ accepted' = [accepted EXCEPT ![t] = @ + 1]

PushTask(t) ==
    /\ Accept(t)
    /\ UNCHANGED <<workerVars, schedulerVars, stops, interrupted>>

\* TaskQueue.cancel() and Task.cancel(): the status of a task that is pending
\* or running is set; its entry and its execution stay.
CancelTask(t) ==
    /\ t \in known
    /\ status[t] \in {"pending", "running"}
    /\ status' = [status EXCEPT ![t] = "cancelled"]
    /\ UNCHANGED <<queueVars, retryCount, pc, current, running, schedulerVars, historyVars>>

RemoveTask(t) ==
    /\ Remove(t)
    /\ UNCHANGED <<workerVars, schedulerVars, historyVars>>

ClearQueue ==
    /\ known # {}
    /\ Clear
    /\ UNCHANGED <<workerVars, schedulerVars, historyVars>>

\* Worker.start() creates the consumers.
Start ==
    /\ ~running
    /\ running' = TRUE
    /\ pc' = [c \in Consumers |-> "loop"]
    /\ UNCHANGED <<queueVars, status, retryCount, current, schedulerVars, historyVars>>

Executing(t) == {c \in Consumers : current[c] = t}

\* shutdown(): the next thing every consumer sees is its cancellation, in pop,
\* in the task or in the pause before a retry; it leaves the status as it is.
Shutdown ==
    /\ running /\ stops < MaxStops
    /\ stops' = stops + 1
    /\ running' = FALSE
    /\ PopsCancelled
    /\ pc' = [c \in Consumers |-> "stopped"]
    /\ current' = [c \in Consumers |-> Null]
    /\ interrupted' = interrupted \union {t \in Tasks : Executing(t) # {}}
    /\ UNCHANGED <<status, retryCount, schedulerVars, accepted>>

-----------------------------------------------------------------------------
(* Consumers *)

\* The pop that finds a task runs on into _execute_task and Task.run, up to
\* the first await of the task's function; an unregistered name fails at once.
Take(c, e) ==
    /\ pc[c] = "loop"
    /\ PopTakes(c, e)
    /\ IF e.task \in Registered
       THEN /\ status' = [status EXCEPT ![e.task] = "running"]
            /\ pc' = [pc EXCEPT ![c] = "executing"]
            /\ current' = [current EXCEPT ![c] = e.task]
       ELSE /\ status' = [status EXCEPT ![e.task] = "failed"]
            /\ UNCHANGED <<pc, current>>
    /\ UNCHANGED <<retryCount, running, schedulerVars, historyVars>>

Wait(c) ==
    /\ pc[c] = "loop" /\ (c \in waiting => c \in notified)
    /\ PopWaits(c)
    /\ UNCHANGED <<workerVars, schedulerVars, historyVars>>

TimeOutPop(c) ==
    /\ pc[c] = "loop"
    /\ PopTimesOut(c)
    /\ UNCHANGED <<workerVars, schedulerVars, historyVars>>

\* Task.run leaves FAILED, or TIMEOUT, and raises; before anyone else runs,
\* _execute_task's except clause puts FAILED over either.  So no task that a
\* worker runs keeps the status TIMEOUT.
AfterExecute(outcome) == IF outcome = "completed" THEN "completed" ELSE "failed"

\* The task ends and its consumer goes back to its loop.
EndsAs(c, outcome) ==
    /\ status' = [status EXCEPT ![current[c]] = AfterExecute(outcome)]
    /\ pc' = [pc EXCEPT ![c] = "loop"]
    /\ current' = [current EXCEPT ![c] = Null]
    /\ UNCHANGED <<queueVars, retryCount, running, schedulerVars, historyVars>>

Completes(c) ==
    /\ pc[c] = "executing"
    /\ EndsAs(c, "completed")

TimesOut(c) ==
    /\ pc[c] = "executing"
    /\ EndsAs(c, "timeout")

\* Mutant of RetriesLeft: the limit is compared one too late.
RetriesLeftOnceMore(t) == retryCount[t] <= MaxAttempts[t]

RetriesLeft(t) == retryCount[t] < MaxAttempts[t]

Raises(c) ==
    /\ pc[c] = "executing"
    /\ ~RetriesLeft(current[c])
    /\ EndsAs(c, "failed")

\* Mutant of RaisesAndSleeps: the retry is not counted.
RaisesUncounted(c) ==
    /\ pc[c] = "executing"
    /\ RetriesLeft(current[c])
    /\ status' = [status EXCEPT ![current[c]] = "retry"]
    /\ pc' = [pc EXCEPT ![c] = "asleep"]
    /\ UNCHANGED <<queueVars, retryCount, current, running, schedulerVars, historyVars>>

RaisesAndSleeps(c) ==
    LET t == current[c] IN
    /\ pc[c] = "executing"
    /\ RetriesLeft(t)
    /\ status' = [status EXCEPT ![t] = "retry"]
    /\ retryCount' = [retryCount EXCEPT ![t] = @ + 1]
    /\ pc' = [pc EXCEPT ![c] = "asleep"]
    /\ UNCHANGED <<queueVars, current, running, schedulerVars, historyVars>>

RunsAgain(c) ==
    /\ pc[c] = "asleep"
    /\ status' = [status EXCEPT ![current[c]] = "running"]
    /\ pc' = [pc EXCEPT ![c] = "executing"]
    /\ UNCHANGED <<queueVars, retryCount, current, running, schedulerVars, historyVars>>

-----------------------------------------------------------------------------
(* The scheduler *)

\* run_once collects the due items; those without an interval leave the list.
CollectDue(S) ==
    /\ due = {} /\ S # {} /\ S \subseteq scheduled
    /\ due' = S
    /\ scheduled' = scheduled \ (S \ Repeats)
    /\ UNCHANGED <<queueVars, workerVars, halted, historyVars>>

PushDue(i) ==
    /\ i \in due
    /\ due' = due \ {i}
    /\ Accept(TaskOf[i])
    /\ UNCHANGED <<workerVars, scheduled, halted, stops, interrupted>>

\* A full queue raises TaskQueueError, which run_once suppresses.
DropDue(i) ==
    /\ i \in due /\ Full
    /\ due' = due \ {i}
    /\ UNCHANGED <<queueVars, workerVars, scheduled, halted, historyVars>>

\* stop() cancels the loop: the rest of a pass that waits for the queue's lock
\* is lost.  Passes after a new start() are passes like any others.
StopScheduler ==
    /\ ~halted
    /\ halted' = TRUE
    /\ due' = {}
    /\ UNCHANGED <<queueVars, workerVars, scheduled, historyVars>>

-----------------------------------------------------------------------------
Loop(c) == (\E e \in heap : Take(c, e)) \/ Wait(c)

Work(c) == Completes(c) \/ TimesOut(c) \/ Raises(c) \/ RaisesAndSleeps(c)

Next ==
    \/ \E t \in Tasks : PushTask(t) \/ CancelTask(t) \/ RemoveTask(t)
    \/ ClearQueue \/ Start \/ Shutdown
    \/ \E c \in Consumers : Loop(c) \/ TimeOutPop(c) \/ Work(c) \/ RunsAgain(c)
    \/ \E S \in SUBSET Items : CollectDue(S)
    \/ \E i \in Items : PushDue(i) \/ DropDue(i)
    \/ StopScheduler

Spec == Init /\ [][Next]_vars

\* The event loop runs every ready consumer; task functions end; sleeps end.
Fairness ==
    \A c \in Consumers : WF_vars(Loop(c)) /\ WF_vars(Work(c)) /\ WF_vars(RunsAgain(c))

FairSpec == Spec /\ Fairness

-----------------------------------------------------------------------------
Idle(c) == pc[c] = "loop" /\ (c \in waiting => c \in notified)

\* No wake-up is lost: while a consumer sleeps in pop(), there are at least as
\* many others on their way to an entry as there are entries, whatever pushes,
\* timeouts and faster consumers did to the condition's notifications.
NoLostWakeup ==
    waiting \ notified # {} =>
        Cardinality(heap) <= Cardinality({c \in Consumers : Idle(c)})

\* A task is recorded as running or about to retry only while a consumer has
\* it; the one exception is a task a shutdown cut off, which stays so.
RunningIsExecuted ==
    \A t \in Tasks : status[t] \in {"running", "retry"} =>
        Executing(t) # {} \/ t \in interrupted

\* A task is in the hands of at most one consumer per push the queue accepted:
\* no entry is given out twice, and none both given out and kept.
OneExecutionPerPush ==
    \A t \in Tasks : Cardinality(Executing(t)) + Cardinality(Entries(t)) <= accepted[t]

\* Statuses, executions and pushes agree: both of the above.
ExecutionsAreAccounted == RunningIsExecuted /\ OneExecutionPerPush

\* While the worker runs, every queued entry is taken (or removed) in the end,
\* whatever its priority, once callers stop pushing (MaxPushes): an unending
\* stream of urgent tasks does starve the others.
QueueDrains ==
    \A t \in Tasks : Entries(t) # {} ~> Entries(t) = {} \/ ~running

\* Every execution ends, through all its retries.
ExecutionsEnd ==
    \A t \in Tasks : Executing(t) # {} ~> Executing(t) = {}

\* A cancelled task stays cancelled.
CancelledIsFinal ==
    [][\A t \in Tasks : status[t] = "cancelled" => status'[t] = "cancelled"]_vars
=============================================================================
