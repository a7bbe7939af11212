--------------------------- MODULE TaskWorkers_proofs ---------------------------
(***************************************************************************)
(* What the task queue and its workers guarantee, for any number of tasks, *)
(* consumers and scheduled items and a queue of any size: no wake-up of    *)
(* the queue's condition is lost, and statuses, executions and pushes      *)
(* agree.                                                                  *)
(***************************************************************************)
EXTENDS TaskWorkers, FiniteSetTheorems, TLAPS

-----------------------------------------------------------------------------
(* The invariant *)

\* A consumer waits only in its loop.
WaitsInLoop == \A c \in waiting : pc[c] = "loop"

\* A consumer has a task exactly while it executes it or sleeps before a retry.
HasTask == \A c \in Consumers : current[c] # Null <=> pc[c] \in {"executing", "asleep"}

\* A worker that does not run has no consumer.
StoppedAlone == ~running => \A c \in Consumers : pc[c] = "stopped"

\* A task was accepted at most as often as all tasks together.
AcceptedIsCounted == \A t \in Tasks : accepted[t] <= counter

WorkTypeOK ==
    /\ QueueTypeOK
    /\ status \in [Tasks -> Statuses] /\ retryCount \in [Tasks -> Nat] /\ RetriesBounded
    /\ pc \in [Consumers -> {"stopped", "loop", "executing", "asleep"}]
    /\ current \in [Consumers -> Tasks \union {Null}]
    /\ running \in BOOLEAN
    /\ accepted \in [Tasks -> 0..MaxPushes] /\ interrupted \subseteq Tasks

WorkersInv ==
    /\ WorkTypeOK /\ WaitsInLoop /\ HasTask /\ StoppedAlone /\ AcceptedIsCounted
    /\ NoLostWakeup /\ RunningIsExecuted /\ OneExecutionPerPush

-----------------------------------------------------------------------------
(* Counting consumers and entries *)

Idlers == {c \in Consumers : Idle(c)}

Asleep == waiting \ notified

LEMMA ConsumersAreFinite ==
  ASSUME NEW S \in SUBSET Consumers
  PROVE  IsFiniteSet(S) /\ Cardinality(S) \in Nat
  BY QueueAssumption, FS_Subset, FS_CardinalityType

LEMMA HeapIsFinite ==
  ASSUME WorkTypeOK, NEW S \in SUBSET heap
  PROVE  IsFiniteSet(S) /\ Cardinality(S) \in Nat
  BY FS_Subset, FS_CardinalityType DEF WorkTypeOK, QueueTypeOK, RetriesBounded

LEMMA WakeupMeans == NoLostWakeup <=> (Asleep # {} => Cardinality(heap) <= Cardinality(Idlers))
  BY DEF NoLostWakeup, Asleep, Idlers

\* No wake-up is lost by a step that adds no entry, takes no consumer off its way
\* and puts none to sleep.
LEMMA WakeupsStay ==
  ASSUME WorkTypeOK, NoLostWakeup, heap' \subseteq heap, Asleep' \subseteq Asleep, Idlers \subseteq Idlers'
  PROVE  NoLostWakeup'
  <1>1. /\ Cardinality(heap') <= Cardinality(heap)
        /\ Cardinality(heap) \in Nat /\ Cardinality(heap') \in Nat
    BY HeapIsFinite, FS_Subset
  <1>2. /\ Cardinality(Idlers) <= Cardinality(Idlers')
        /\ Cardinality(Idlers) \in Nat /\ Cardinality(Idlers') \in Nat
    <2>1. Idlers' \in SUBSET Consumers /\ Idlers \in SUBSET Consumers
      BY DEF Idlers
    <2>2. QED
      BY <2>1, ConsumersAreFinite, FS_Subset
  <1>3. (Asleep # {} => Cardinality(heap) <= Cardinality(Idlers))
    BY WakeupMeans
  <1>4. Asleep' # {} => Cardinality(heap') <= Cardinality(Idlers')
    BY <1>1, <1>2, <1>3
  <1>5. QED
    BY <1>4 DEF NoLostWakeup, Asleep, Idlers

LEMMA OneMore ==
  ASSUME NEW S, NEW x, IsFiniteSet(S)
  PROVE  /\ IsFiniteSet(S \union {x})
         /\ Cardinality(S \union {x}) \in Nat /\ Cardinality(S) \in Nat
         /\ Cardinality(S \union {x}) <= Cardinality(S) + 1
         /\ x \notin S => Cardinality(S \union {x}) = Cardinality(S) + 1
  <1>1. IsFiniteSet(S \union {x}) /\ Cardinality(S) \in Nat
    BY FS_AddElement, FS_CardinalityType
  <1>2. Cardinality(S \union {x}) = IF x \in S THEN Cardinality(S) ELSE Cardinality(S) + 1
    BY FS_AddElement
  <1>3. QED
    BY <1>1, <1>2

\* The entries and executions of one task.
LEMMA CountsOfTask ==
  ASSUME WorkTypeOK, NEW t \in Tasks
  PROVE  /\ IsFiniteSet(Entries(t)) /\ Cardinality(Entries(t)) \in Nat
         /\ IsFiniteSet(Executing(t)) /\ Cardinality(Executing(t)) \in Nat
         /\ accepted[t] \in Nat /\ accepted[t] <= MaxPushes
  <1>1. Entries(t) \in SUBSET heap /\ Executing(t) \in SUBSET Consumers
    BY DEF Entries, Executing
  <1>2. QED
    BY <1>1, HeapIsFinite, ConsumersAreFinite, QueueAssumption DEF WorkTypeOK

\* A step that adds neither an entry nor an execution keeps the account.
LEMMA AccountStays ==
  ASSUME WorkTypeOK, OneExecutionPerPush, heap' \subseteq heap, accepted' = accepted,
         \A t \in Tasks : Executing(t)' \subseteq Executing(t)
  PROVE  OneExecutionPerPush'
  <1> SUFFICES ASSUME NEW t \in Tasks
               PROVE  Cardinality(Executing(t)') + Cardinality(Entries(t)') <= accepted'[t]
    BY DEF OneExecutionPerPush
  <1>1. Entries(t)' \subseteq Entries(t)
    BY DEF Entries
  <1>2. /\ Cardinality(Entries(t)') <= Cardinality(Entries(t)) /\ Cardinality(Entries(t)') \in Nat
        /\ Cardinality(Executing(t)') <= Cardinality(Executing(t))
        /\ Cardinality(Executing(t)') \in Nat
    BY <1>1, CountsOfTask, FS_Subset, FS_CardinalityType
  <1>3. Cardinality(Executing(t)) + Cardinality(Entries(t)) <= accepted[t]
    BY DEF OneExecutionPerPush
  <1>4. QED
    BY <1>2, <1>3, CountsOfTask

-----------------------------------------------------------------------------
(* Callers *)

LEMMA WorkersParts ==
  ASSUME WorkersInv
  PROVE  /\ WorkTypeOK /\ QueueTypeOK /\ NoLostWakeup /\ OneExecutionPerPush /\ RunningIsExecuted
         /\ heap \subseteq Entry /\ IsFiniteSet(heap) /\ counter \in 0..MaxPushes
         /\ waiting \subseteq Consumers /\ notified \subseteq waiting
         /\ WaitsInLoop /\ HasTask /\ StoppedAlone /\ AcceptedIsCounted
  BY DEF WorkersInv, WorkTypeOK, QueueTypeOK

\* A push adds one entry, and sends one more consumer on its way if any sleeps.
LEMMA AcceptKeeps ==
  ASSUME WorkersInv, NEW t \in Tasks, Accept(t), UNCHANGED <<workerVars, interrupted>>
  PROVE  WorkersInv'
  <1> DEFINE e == [priority |-> Priority[t], order |-> counter + 1, task |-> t]
  <1>1. /\ counter < MaxPushes /\ counter' = counter + 1 /\ waiting' = waiting
        /\ heap' = heap \union {e} /\ known' = known \union {t}
        /\ accepted' = [accepted EXCEPT ![t] = @ + 1] /\ Notify
    BY DEF Accept, Push
  <1>2. e \in Entry /\ e.task = t
    BY QueueAssumption, WorkersParts DEF Entry
  <1> HIDE DEF e
  <1>3. notified' \subseteq waiting /\ notified \subseteq notified'
    BY <1>1, WorkersParts DEF Notify
  <1>4. IsFiniteSet(heap') /\ Cardinality(heap') <= Cardinality(heap) + 1
        /\ Cardinality(heap') \in Nat /\ Cardinality(heap) \in Nat
    BY <1>1, WorkersParts, OneMore
  <1>5. QueueTypeOK'
    BY <1>1, <1>2, <1>3, <1>4, QueueAssumption, WorkersParts DEF QueueTypeOK
  <1>6. /\ accepted[t] \in Nat /\ accepted[t] <= counter /\ accepted'[t] = accepted[t] + 1
        /\ \A u \in Tasks : u # t => accepted'[u] = accepted[u]
        /\ accepted' \in [Tasks -> 0..MaxPushes]
    <2>1. accepted \in [Tasks -> 0..MaxPushes] /\ accepted[t] <= counter
      BY DEF WorkersInv, WorkTypeOK, AcceptedIsCounted
    <2>2. accepted[t] + 1 \in 0..MaxPushes
      BY <2>1, <1>1, WorkersParts, QueueAssumption
    <2>3. QED
      BY <2>1, <2>2, <1>1, QueueAssumption
  <1>7. WorkTypeOK'
    BY <1>5, <1>6 DEF WorkersInv, WorkTypeOK, workerVars, RetriesBounded
  <1>8. WaitsInLoop' /\ HasTask' /\ StoppedAlone' /\ RunningIsExecuted'
    BY <1>1, WorkersParts
    DEF WaitsInLoop, HasTask, StoppedAlone, RunningIsExecuted, Executing, workerVars
  <1>9. AcceptedIsCounted'
    BY <1>1, <1>6, WorkersParts, QueueAssumption DEF AcceptedIsCounted, WorkersInv, WorkTypeOK
  <1>10. NoLostWakeup'
    <2> SUFFICES ASSUME Asleep' # {} PROVE Cardinality(heap') <= Cardinality(Idlers')
      BY DEF NoLostWakeup, Asleep, Idlers
    <2>1. waiting \ notified # {}
      BY <1>1, <1>3 DEF Asleep
    <2>2. PICK c \in waiting \ notified : notified' = notified \union {c}
      BY <1>1, <2>1 DEF Notify
    <2>3. Cardinality(heap) <= Cardinality(Idlers)
      BY <2>1, WorkersParts, WakeupMeans DEF Asleep
    <2>4. c \notin Idlers /\ Idlers \union {c} \subseteq Idlers'
      BY <1>1, <2>2, WorkersParts DEF Idlers, Idle, WaitsInLoop, workerVars
    <2>5. Cardinality(Idlers \union {c}) = Cardinality(Idlers) + 1
      BY <2>4, ConsumersAreFinite, FS_AddElement DEF Idlers
    <2>6. /\ Cardinality(Idlers \union {c}) <= Cardinality(Idlers')
          /\ Cardinality(Idlers') \in Nat /\ Cardinality(Idlers) \in Nat
      <3>1. Idlers' \in SUBSET Consumers /\ Idlers \in SUBSET Consumers
        BY DEF Idlers
      <3>2. QED
        BY <2>4, <3>1, ConsumersAreFinite, FS_Subset
    <2>7. QED
      BY <1>4, <2>3, <2>5, <2>6
  <1>11. OneExecutionPerPush'
    <2> SUFFICES ASSUME NEW u \in Tasks
                 PROVE  Cardinality(Executing(u)') + Cardinality(Entries(u)') <= accepted'[u]
      BY DEF OneExecutionPerPush
    <2>1. Executing(u)' = Executing(u)
      BY DEF Executing, workerVars
    <2>2. Cardinality(Executing(u)) + Cardinality(Entries(u)) <= accepted[u]
      BY WorkersParts DEF OneExecutionPerPush
    <2>3. CASE u = t
      <3>1. Entries(u)' = Entries(u) \union {e}
        BY <1>1, <1>2, <2>3 DEF Entries
      <3>2. Cardinality(Entries(u)') <= Cardinality(Entries(u)) + 1 /\ Cardinality(Entries(u)') \in Nat
        BY <3>1, WorkersParts, CountsOfTask, OneMore
      <3>3. QED
        BY <1>6, <2>1, <2>2, <2>3, <3>2, WorkersParts, CountsOfTask
    <2>4. CASE u # t
      <3>1. Entries(u)' = Entries(u)
        BY <1>1, <1>2, <2>4 DEF Entries
      <3>2. QED
        BY <1>6, <2>1, <2>2, <2>4, <3>1
    <2>5. QED
      BY <2>3, <2>4
  <1>12. QED
    BY <1>7, <1>8, <1>9, <1>10, <1>11 DEF WorkersInv

LEMMA CancelKeeps ==
  ASSUME WorkersInv, NEW t \in Tasks, CancelTask(t)
  PROVE  WorkersInv'
  <1>1. /\ status' = [status EXCEPT ![t] = "cancelled"]
        /\ UNCHANGED <<heap, counter, known, waiting, notified, retryCount, pc, current, running,
                       accepted, interrupted>>
    BY DEF CancelTask, queueVars, historyVars
  <1>2. WorkTypeOK'
    BY <1>1, WorkersParts DEF WorkTypeOK, QueueTypeOK, RetriesBounded, Statuses
  <1>3. WaitsInLoop' /\ HasTask' /\ StoppedAlone' /\ AcceptedIsCounted'
    BY <1>1, WorkersParts DEF WaitsInLoop, HasTask, StoppedAlone, AcceptedIsCounted
  <1>4. NoLostWakeup' /\ OneExecutionPerPush'
    BY <1>1, WorkersParts DEF NoLostWakeup, OneExecutionPerPush, Executing, Entries, Idle
  <1>5. RunningIsExecuted'
    BY <1>1, WorkersParts DEF RunningIsExecuted, Executing, WorkTypeOK
  <1>6. QED
    BY <1>2, <1>3, <1>4, <1>5 DEF WorkersInv

\* A step that only takes entries out or stops consumers' waiting.
LEMMA QueueShrinks ==
  ASSUME WorkersInv, heap' \subseteq heap, known' \subseteq Tasks, waiting' \subseteq waiting,
         notified' \subseteq waiting', Asleep' \subseteq Asleep,
         UNCHANGED <<counter, status, retryCount, pc, current, running, accepted, interrupted>>
  PROVE  WorkersInv'
  <1>1. IsFiniteSet(heap')
    BY WorkersParts, FS_Subset
  <1>2. WorkTypeOK'
    BY <1>1, WorkersParts DEF WorkTypeOK, QueueTypeOK, RetriesBounded
  <1>3. WaitsInLoop' /\ HasTask' /\ StoppedAlone' /\ AcceptedIsCounted' /\ RunningIsExecuted'
    BY WorkersParts
    DEF WaitsInLoop, HasTask, StoppedAlone, AcceptedIsCounted, RunningIsExecuted, Executing
  <1>4. Idlers \subseteq Idlers'
    BY DEF Idlers, Idle, Asleep
  <1>5. NoLostWakeup'
    BY <1>4, WorkersParts, WakeupsStay
  <1>6. OneExecutionPerPush'
    BY WorkersParts, AccountStays DEF Executing
  <1>7. QED
    BY <1>2, <1>3, <1>5, <1>6 DEF WorkersInv

LEMMA RemoveKeeps ==
  ASSUME WorkersInv, NEW t \in Tasks, RemoveTask(t)
  PROVE  WorkersInv'
  <1>1. /\ heap' \subseteq heap /\ known' \subseteq Tasks
        /\ UNCHANGED <<counter, waiting, notified, status, retryCount, pc, current, running,
                       accepted, interrupted>>
    BY WorkersParts DEF RemoveTask, Remove, Entries, workerVars, historyVars, QueueTypeOK
  <1>2. QED
    BY <1>1, QueueShrinks, WorkersParts DEF Asleep

LEMMA ClearKeeps ==
  ASSUME WorkersInv, ClearQueue
  PROVE  WorkersInv'
  <1>1. /\ heap' = {} /\ known' = {}
        /\ UNCHANGED <<counter, waiting, notified, status, retryCount, pc, current, running,
                       accepted, interrupted>>
    BY DEF ClearQueue, Clear, workerVars, historyVars
  <1>2. QED
    BY <1>1, QueueShrinks, WorkersParts DEF Asleep

LEMMA TimeOutPopKeeps ==
  ASSUME WorkersInv, NEW c \in Consumers, TimeOutPop(c)
  PROVE  WorkersInv'
  <1>1. /\ waiting' = waiting \ {c} /\ notified' = notified \ {c}
        /\ UNCHANGED <<heap, known, counter, status, retryCount, pc, current, running,
                       accepted, interrupted>>
    BY DEF TimeOutPop, PopTimesOut, workerVars, historyVars
  <1>2. QED
    BY <1>1, QueueShrinks, WorkersParts DEF Asleep, QueueTypeOK

LEMMA StartKeeps ==
  ASSUME WorkersInv, Start
  PROVE  WorkersInv'
  <1>1. /\ running = FALSE /\ running' = TRUE /\ pc' = [c \in Consumers |-> "loop"]
        /\ UNCHANGED <<heap, known, counter, waiting, notified, status, retryCount, current,
                       accepted, interrupted>>
    BY WorkersParts DEF Start, queueVars, historyVars, WorkTypeOK
  <1>2. \A c \in Consumers : pc[c] = "stopped" /\ current[c] = Null
    BY <1>1, WorkersParts DEF StoppedAlone, HasTask
  <1>3. WorkTypeOK'
    BY <1>1, WorkersParts DEF WorkTypeOK, QueueTypeOK, RetriesBounded
  <1>4. WaitsInLoop' /\ HasTask' /\ StoppedAlone' /\ AcceptedIsCounted' /\ RunningIsExecuted'
    BY <1>1, <1>2, WorkersParts
    DEF WaitsInLoop, HasTask, StoppedAlone, AcceptedIsCounted, RunningIsExecuted, Executing
  <1>5. NoLostWakeup'
    BY <1>1, WorkersParts, WakeupsStay DEF Idlers, Idle, Asleep
  <1>6. OneExecutionPerPush'
    BY <1>1, WorkersParts, AccountStays DEF Executing
  <1>7. QED
    BY <1>3, <1>4, <1>5, <1>6 DEF WorkersInv

LEMMA ShutdownKeeps ==
  ASSUME WorkersInv, Shutdown
  PROVE  WorkersInv'
  <1>1. /\ running' = FALSE /\ waiting' = {} /\ notified' = {}
        /\ pc' = [c \in Consumers |-> "stopped"] /\ current' = [c \in Consumers |-> Null]
        /\ interrupted' = interrupted \union {t \in Tasks : Executing(t) # {}}
        /\ UNCHANGED <<heap, known, counter, status, retryCount, accepted>>
    BY DEF Shutdown, PopsCancelled
  <1>2. WorkTypeOK'
    BY <1>1, WorkersParts DEF WorkTypeOK, QueueTypeOK, RetriesBounded
  <1>3. WaitsInLoop' /\ HasTask' /\ StoppedAlone' /\ AcceptedIsCounted' /\ NoLostWakeup'
    BY <1>1, WorkersParts DEF WaitsInLoop, HasTask, StoppedAlone, AcceptedIsCounted, NoLostWakeup
  <1>4. RunningIsExecuted'
    BY <1>1, WorkersParts DEF RunningIsExecuted
  <1>5. \A t \in Tasks : Executing(t)' = {}
    BY <1>1, WorkerAssumption DEF Executing
  <1>6. OneExecutionPerPush'
    BY <1>1, <1>5, WorkersParts, AccountStays
  <1>7. QED
    BY <1>2, <1>3, <1>4, <1>6 DEF WorkersInv

-----------------------------------------------------------------------------
(* Consumers *)

\* A step of one consumer: what it has and where it is.
ConsumerHas(c, place, t) ==
    /\ pc' \in [Consumers -> {"stopped", "loop", "executing", "asleep"}] /\ pc'[c] = place
    /\ current' \in [Consumers -> Tasks \union {Null}] /\ current'[c] = t
    /\ \A d \in Consumers : d # c => pc'[d] = pc[d] /\ current'[d] = current[d]

\* A step that gives one task a status.
TaskBecomes(t, outcome) ==
    /\ status' \in [Tasks -> Statuses] /\ status'[t] = outcome
    /\ \A u \in Tasks : u # t => status'[u] = status[u]

\* A worker that has a consumer in its loop or with a task is running.
LEMMA BusyRuns ==
  ASSUME WorkersInv, NEW c \in Consumers, pc[c] # "stopped"
  PROVE  running = TRUE
  BY WorkersParts DEF StoppedAlone, WorkTypeOK

LEMMA TakeKeeps ==
  ASSUME WorkersInv, NEW c \in Consumers, NEW e \in heap, Take(c, e)
  PROVE  WorkersInv'
  <1> DEFINE t == e.task
  <1>1. /\ pc[c] = "loop" /\ current[c] = Null /\ t \in Tasks /\ t # Null /\ c \notin Asleep
        /\ heap' = heap \ {e} /\ waiting' = waiting \ {c} /\ notified' = notified \ {c}
        /\ UNCHANGED <<counter, known, retryCount, running, accepted, interrupted>>
    BY WorkersParts, WorkerAssumption
    DEF Take, PopTakes, Awake, HasTask, Entry, historyVars, Asleep
  <1>2. \/ TaskBecomes(t, "running") /\ ConsumerHas(c, "executing", t)
        \/ TaskBecomes(t, "failed") /\ ConsumerHas(c, "loop", Null) /\ UNCHANGED <<pc, current>>
    <2>1. CASE t \in Registered
      BY <1>1, <2>1, WorkersParts DEF Take, WorkTypeOK, TaskBecomes, ConsumerHas, Statuses
    <2>2. CASE t \notin Registered
      BY <1>1, <2>2, WorkersParts DEF Take, WorkTypeOK, TaskBecomes, ConsumerHas, Statuses
    <2>3. QED
      BY <2>1, <2>2
  <1> HIDE DEF t
  <1>3. running = TRUE
    BY <1>1, BusyRuns
  <1>4. IsFiniteSet(heap')
    BY <1>1, WorkersParts, FS_Subset
  <1>5. WorkTypeOK'
    BY <1>1, <1>2, <1>4, WorkersParts
    DEF WorkTypeOK, QueueTypeOK, RetriesBounded, TaskBecomes, ConsumerHas
  <1>6. WaitsInLoop' /\ HasTask' /\ StoppedAlone' /\ AcceptedIsCounted'
    BY <1>1, <1>2, <1>3, WorkersParts
    DEF WaitsInLoop, HasTask, StoppedAlone, AcceptedIsCounted, ConsumerHas
  <1>7. RunningIsExecuted'
    <2> SUFFICES ASSUME NEW u \in Tasks, status'[u] \in {"running", "retry"}
                 PROVE  Executing(u)' # {} \/ u \in interrupted'
      BY DEF RunningIsExecuted
    <2>1. CASE u = t
      <3>1. TaskBecomes(t, "running") /\ ConsumerHas(c, "executing", t)
        BY <1>1, <1>2, <2>1 DEF TaskBecomes
      <3>2. c \in Executing(u)'
        BY <1>1, <2>1, <3>1 DEF Executing, ConsumerHas
      <3>3. QED
        BY <3>2
    <2>2. CASE u # t
      <3>1. status'[u] = status[u]
        BY <1>2, <2>2 DEF TaskBecomes
      <3>2. Executing(u) # {} \/ u \in interrupted
        BY <3>1, WorkersParts DEF RunningIsExecuted
      <3>3. Executing(u) \subseteq Executing(u)'
        BY <1>1, <1>2, <2>2, WorkerAssumption DEF Executing, ConsumerHas
      <3>4. QED
        BY <1>1, <3>2, <3>3
    <2>3. QED
      BY <2>1, <2>2
  <1>8. NoLostWakeup'
    <2>1. Asleep' \subseteq Asleep
      BY <1>1 DEF Asleep
    <2>2. Cardinality(heap') = Cardinality(heap) - 1 /\ Cardinality(heap) \in Nat
          /\ Cardinality(heap') \in Nat
      BY <1>1, WorkersParts, FS_RemoveElement, FS_CardinalityType
    <2>3. Idlers \ {c} \subseteq Idlers' /\ c \in Idlers
      BY <1>1, <1>2, WorkersParts DEF Idlers, Idle, ConsumerHas, Asleep
    <2>4. Cardinality(Idlers \ {c}) = Cardinality(Idlers) - 1
      BY <2>3, ConsumersAreFinite, FS_RemoveElement DEF Idlers
    <2>5. /\ Cardinality(Idlers \ {c}) <= Cardinality(Idlers')
          /\ Cardinality(Idlers') \in Nat /\ Cardinality(Idlers) \in Nat
      <3>1. Idlers' \in SUBSET Consumers /\ Idlers \in SUBSET Consumers
        BY DEF Idlers
      <3>2. QED
        BY <2>3, <3>1, ConsumersAreFinite, FS_Subset
    <2>6. Asleep # {} => Cardinality(heap) <= Cardinality(Idlers)
      BY WorkersParts, WakeupMeans
    <2>7. Asleep' # {} => Cardinality(heap') <= Cardinality(Idlers')
      BY <2>1, <2>2, <2>4, <2>5, <2>6
    <2>8. QED
      BY <2>7 DEF NoLostWakeup, Asleep, Idlers
  <1>9. OneExecutionPerPush'
    <2> SUFFICES ASSUME NEW u \in Tasks
                 PROVE  Cardinality(Executing(u)') + Cardinality(Entries(u)') <= accepted'[u]
      BY DEF OneExecutionPerPush
    <2>1. Cardinality(Executing(u)) + Cardinality(Entries(u)) <= accepted[u] /\ accepted'[u] = accepted[u]
      BY <1>1, WorkersParts DEF OneExecutionPerPush
    <2>2. CASE u = t
      <3>1. e \in Entries(u) /\ Entries(u)' = Entries(u) \ {e}
        BY <1>1, <2>2 DEF Entries, t
      <3>2. /\ Cardinality(Entries(u)') = Cardinality(Entries(u)) - 1
            /\ Cardinality(Entries(u)) \in Nat
        BY <3>1, WorkersParts, CountsOfTask, FS_RemoveElement
      <3>3. Executing(u)' \subseteq Executing(u) \union {c}
        BY <1>1, <1>2 DEF Executing, ConsumerHas
      <3>4. /\ Cardinality(Executing(u)') <= Cardinality(Executing(u)) + 1
            /\ Cardinality(Executing(u)') \in Nat /\ Cardinality(Executing(u)) \in Nat
        <4>1. /\ IsFiniteSet(Executing(u) \union {c})
              /\ Cardinality(Executing(u) \union {c}) <= Cardinality(Executing(u)) + 1
              /\ Cardinality(Executing(u) \union {c}) \in Nat /\ Cardinality(Executing(u)) \in Nat
          BY WorkersParts, CountsOfTask, OneMore
        <4>2. /\ Cardinality(Executing(u)') <= Cardinality(Executing(u) \union {c})
              /\ Cardinality(Executing(u)') \in Nat
          BY <3>3, <4>1, FS_Subset, FS_CardinalityType
        <4>3. QED
          BY <4>1, <4>2
      <3>5. QED
        BY <2>1, <3>2, <3>4, WorkersParts, CountsOfTask
    <2>3. CASE u # t
      <3>1. Entries(u)' = Entries(u)
        BY <1>1, <2>3 DEF Entries, t
      <3>2. Executing(u)' = Executing(u)
        BY <1>1, <1>2, <2>3, WorkerAssumption DEF Executing, ConsumerHas
      <3>3. QED
        BY <2>1, <3>1, <3>2
    <2>4. QED
      BY <2>2, <2>3
  <1>10. QED
    BY <1>5, <1>6, <1>7, <1>8, <1>9 DEF WorkersInv

LEMMA WaitKeeps ==
  ASSUME WorkersInv, NEW c \in Consumers, Wait(c)
  PROVE  WorkersInv'
  <1>1. /\ pc[c] = "loop" /\ heap = {} /\ heap' = heap
        /\ waiting' = waiting \union {c} /\ notified' = notified \ {c}
        /\ UNCHANGED <<counter, known, status, retryCount, pc, current, running, accepted, interrupted>>
    BY DEF Wait, PopWaits, workerVars, historyVars
  <1>2. WorkTypeOK'
    BY <1>1, WorkersParts DEF WorkTypeOK, QueueTypeOK, RetriesBounded
  <1>3. WaitsInLoop' /\ HasTask' /\ StoppedAlone' /\ AcceptedIsCounted' /\ RunningIsExecuted'
    BY <1>1, WorkersParts
    DEF WaitsInLoop, HasTask, StoppedAlone, AcceptedIsCounted, RunningIsExecuted, Executing
  <1>4. NoLostWakeup'
    <2>1. Cardinality(heap') = 0 /\ Cardinality(Idlers') \in Nat
      BY <1>1, FS_EmptySet, ConsumersAreFinite DEF Idlers
    <2>2. Cardinality(heap') <= Cardinality(Idlers')
      BY <2>1
    <2>3. QED
      BY <2>2 DEF NoLostWakeup, Idlers
  <1>5. OneExecutionPerPush'
    BY <1>1, WorkersParts, AccountStays DEF Executing
  <1>6. QED
    BY <1>2, <1>3, <1>4, <1>5 DEF WorkersInv

\* A consumer that has a task, and the task.
LEMMA Holders ==
  ASSUME WorkersInv, NEW c \in Consumers, pc[c] \in {"executing", "asleep"}
  PROVE  /\ current[c] \in Tasks /\ current[c] # Null /\ c \notin waiting
         /\ running = TRUE
  BY WorkersParts, BusyRuns DEF HasTask, WorkTypeOK, WaitsInLoop

\* A consumer that has a task changes the task's status and where it is itself:
\* it keeps the task, or gives it up once its status says that it ended.
LEMMA HolderKeeps ==
  ASSUME WorkersInv, NEW c \in Consumers, NEW t \in Tasks, current[c] = t,
         pc[c] \in {"executing", "asleep"},
         NEW outcome, TaskBecomes(t, outcome),
         \/ ConsumerHas(c, "executing", t) \/ ConsumerHas(c, "asleep", t)
         \/ ConsumerHas(c, "loop", Null) /\ outcome \notin {"running", "retry"},
         retryCount' \in [Tasks -> Nat], RetriesBounded',
         UNCHANGED <<heap, counter, known, waiting, notified, running, accepted, interrupted>>
  PROVE  WorkersInv'
  <1>1. t # Null /\ c \notin waiting /\ running = TRUE
    BY Holders
  <1>2. WorkTypeOK'
    BY WorkersParts DEF WorkTypeOK, QueueTypeOK, RetriesBounded, TaskBecomes, ConsumerHas
  <1>3. WaitsInLoop' /\ HasTask' /\ StoppedAlone' /\ AcceptedIsCounted'
    BY <1>1, WorkersParts DEF WaitsInLoop, HasTask, StoppedAlone, AcceptedIsCounted, ConsumerHas
  <1>4. \A u \in Tasks : /\ Executing(u)' \subseteq Executing(u)
                         /\ u # t => Executing(u)' = Executing(u)
    BY <1>1, WorkerAssumption DEF Executing, ConsumerHas
  <1>5. RunningIsExecuted'
    <2> SUFFICES ASSUME NEW u \in Tasks, status'[u] \in {"running", "retry"}
                 PROVE  Executing(u)' # {} \/ u \in interrupted
      BY DEF RunningIsExecuted
    <2>1. CASE u = t
      BY <2>1 DEF TaskBecomes, Executing, ConsumerHas
    <2>2. CASE u # t
      BY <1>4, <2>2, WorkersParts DEF TaskBecomes, RunningIsExecuted
    <2>3. QED
      BY <2>1, <2>2
  <1>6. NoLostWakeup'
    <2>1. Idlers \subseteq Idlers'
      BY <1>1 DEF Idlers, Idle, ConsumerHas
    <2>2. QED
      BY <2>1, WorkersParts, WakeupsStay DEF Asleep
  <1>7. OneExecutionPerPush'
    <2>1. \A u \in Tasks : Executing(u)' \subseteq Executing(u)
      BY <1>1, WorkerAssumption DEF Executing, ConsumerHas
    <2>2. heap' \subseteq heap /\ accepted' = accepted
      OBVIOUS
    <2>3. WorkTypeOK /\ OneExecutionPerPush
      BY WorkersParts
    <2>4. QED
      BY <2>1, <2>2, <2>3, AccountStays
  <1>8. QED
    BY <1>2, <1>3, <1>5, <1>6, <1>7 DEF WorkersInv

LEMMA EndsKeeps ==
  ASSUME WorkersInv, NEW c \in Consumers, Completes(c) \/ TimesOut(c) \/ Raises(c)
  PROVE  WorkersInv'
  <1>1. /\ pc[c] = "executing"
        /\ EndsAs(c, "completed") \/ EndsAs(c, "timeout") \/ EndsAs(c, "failed")
    BY DEF Completes, TimesOut, Raises
  <1>2. PICK outcome \in {"completed", "timeout", "failed"} : EndsAs(c, outcome)
    BY <1>1
  <1>3. current[c] \in Tasks
    BY <1>1, Holders
  <1>4. /\ TaskBecomes(current[c], AfterExecute(outcome)) /\ ConsumerHas(c, "loop", Null)
        /\ AfterExecute(outcome) \notin {"running", "retry"}
    BY <1>2, <1>3, WorkersParts
    DEF EndsAs, AfterExecute, TaskBecomes, ConsumerHas, WorkTypeOK, Statuses
  <1>5. /\ retryCount' \in [Tasks -> Nat] /\ RetriesBounded'
        /\ UNCHANGED <<heap, counter, known, waiting, notified, running, accepted, interrupted>>
    BY <1>2, WorkersParts DEF EndsAs, queueVars, historyVars, WorkTypeOK, RetriesBounded
  <1>6. QED
    BY <1>1, <1>3, <1>4, <1>5, HolderKeeps

LEMMA RetryKeeps ==
  ASSUME WorkersInv, NEW c \in Consumers, RaisesAndSleeps(c) \/ RunsAgain(c)
  PROVE  WorkersInv'
  <1>1. pc[c] \in {"executing", "asleep"}
    BY DEF RaisesAndSleeps, RunsAgain
  <1>2. current[c] \in Tasks
    BY <1>1, Holders
  <1>3. \/ TaskBecomes(current[c], "retry") /\ ConsumerHas(c, "asleep", current[c])
        \/ TaskBecomes(current[c], "running") /\ ConsumerHas(c, "executing", current[c])
    BY <1>2, WorkersParts
    DEF RaisesAndSleeps, RunsAgain, TaskBecomes, ConsumerHas, WorkTypeOK, Statuses
  <1>4. UNCHANGED <<heap, counter, known, waiting, notified, running, accepted, interrupted>>
    BY DEF RaisesAndSleeps, RunsAgain, queueVars, historyVars
  <1>5. retryCount' \in [Tasks -> Nat] /\ RetriesBounded'
    <2>1. retryCount \in [Tasks -> Nat] /\ RetriesBounded
      BY WorkersParts DEF WorkTypeOK
    <2>2. \/ retryCount' = retryCount
          \/ /\ retryCount[current[c]] < MaxAttempts[current[c]]
             /\ retryCount' = [retryCount EXCEPT ![current[c]] = @ + 1]
      BY DEF RaisesAndSleeps, RunsAgain, RetriesLeft
    <2>3. QED
      BY <1>2, <2>1, <2>2, WorkerAssumption DEF RetriesBounded
  <1>6. QED
    BY <1>1, <1>2, <1>3, <1>4, <1>5, HolderKeeps

-----------------------------------------------------------------------------
(* The specification *)

SchedulerTypeOK ==
    scheduled \subseteq Items /\ due \subseteq Items /\ halted \in BOOLEAN /\ stops \in 0..MaxStops

LEMMA IdleStepKeeps ==
  ASSUME WorkersInv, UNCHANGED <<queueVars, workerVars, accepted, interrupted>>
  PROVE  WorkersInv'
  BY QueueShrinks, WorkersParts DEF queueVars, workerVars, Asleep, QueueTypeOK

LEMMA SchedulerKeeps ==
  ASSUME WorkersInv, SchedulerTypeOK, NEW i \in Items, PushDue(i) \/ DropDue(i)
  PROVE  WorkersInv'
  <1>1. TaskOf[i] \in Tasks
    BY WorkerAssumption
  <1>2. CASE PushDue(i)
    BY <1>1, <1>2, AcceptKeeps DEF PushDue
  <1>3. CASE DropDue(i)
    BY <1>3, IdleStepKeeps DEF DropDue, historyVars
  <1>4. QED
    BY <1>2, <1>3

LEMMA WorkersNext ==
  ASSUME WorkersInv, SchedulerTypeOK, [Next]_vars
  PROVE  WorkersInv'
  <1>1. ASSUME NEW t \in Tasks, PushTask(t) \/ CancelTask(t) \/ RemoveTask(t) PROVE WorkersInv'
    BY <1>1, AcceptKeeps, CancelKeeps, RemoveKeeps DEF PushTask
  <1>2. CASE ClearQueue \/ Start \/ Shutdown
    BY <1>2, ClearKeeps, StartKeeps, ShutdownKeeps
  <1>3. ASSUME NEW c \in Consumers, Loop(c) \/ TimeOutPop(c) \/ Work(c) \/ RunsAgain(c)
        PROVE  WorkersInv'
    BY <1>3, TakeKeeps, WaitKeeps, TimeOutPopKeeps, EndsKeeps, RetryKeeps DEF Loop, Work
  <1>4. ASSUME NEW i \in Items, PushDue(i) \/ DropDue(i) PROVE WorkersInv'
    BY <1>4, SchedulerKeeps
  <1>5. CASE StopScheduler \/ UNCHANGED vars \/ \E S \in SUBSET Items : CollectDue(S)
    BY <1>5, IdleStepKeeps DEF StopScheduler, CollectDue, vars, historyVars
  <1>6. QED
    BY <1>1, <1>2, <1>3, <1>4, <1>5 DEF Next

LEMMA SchedulerNext ==
  ASSUME SchedulerTypeOK, [Next]_vars
  PROVE  SchedulerTypeOK'
  <1>1. ASSUME NEW t \in Tasks, PushTask(t) \/ CancelTask(t) \/ RemoveTask(t)
        PROVE  SchedulerTypeOK'
    BY <1>1 DEF PushTask, CancelTask, RemoveTask, schedulerVars, historyVars, SchedulerTypeOK
  <1>2. CASE ClearQueue \/ Start \/ UNCHANGED vars
    BY <1>2 DEF ClearQueue, Start, vars, schedulerVars, historyVars, SchedulerTypeOK
  <1>3. CASE Shutdown
    BY <1>3, WorkerAssumption DEF Shutdown, schedulerVars, SchedulerTypeOK
  <1>4. ASSUME NEW c \in Consumers, Loop(c) \/ TimeOutPop(c) \/ Work(c) \/ RunsAgain(c)
        PROVE  SchedulerTypeOK'
    <2>1. UNCHANGED schedulerVars /\ UNCHANGED historyVars
      BY <1>4 DEF Loop, Take, Wait, TimeOutPop, Work, Completes, TimesOut, Raises, EndsAs,
                  RaisesAndSleeps, RunsAgain
    <2>2. QED
      BY <2>1 DEF schedulerVars, historyVars, SchedulerTypeOK
  <1>5. ASSUME NEW S \in SUBSET Items, CollectDue(S) PROVE SchedulerTypeOK'
    BY <1>5 DEF CollectDue, historyVars, SchedulerTypeOK
  <1>6. ASSUME NEW i \in Items, PushDue(i) \/ DropDue(i) PROVE SchedulerTypeOK'
    BY <1>6 DEF PushDue, DropDue, historyVars, SchedulerTypeOK
  <1>7. CASE StopScheduler
    BY <1>7 DEF StopScheduler, historyVars, SchedulerTypeOK
  <1>8. QED
    BY <1>1, <1>2, <1>3, <1>4, <1>5, <1>6, <1>7 DEF Next

LEMMA WorkersInit == Init => WorkersInv /\ SchedulerTypeOK
  <1> SUFFICES ASSUME Init PROVE WorkersInv /\ SchedulerTypeOK
    OBVIOUS
  <1>1. /\ heap = {} /\ counter = 0 /\ known = {} /\ waiting = {} /\ notified = {}
        /\ current = [c \in Consumers |-> Null] /\ running = FALSE /\ interrupted = {}
        /\ retryCount = [t \in Tasks |-> 0] /\ accepted = [t \in Tasks |-> 0]
    BY DEF Init, QueueInit
  <1>2. /\ status \in [Tasks -> Statuses] /\ \A t \in Tasks : status[t] \notin {"running", "retry"}
        /\ pc \in [Consumers -> {"stopped", "loop", "executing", "asleep"}]
        /\ \A c \in Consumers : pc[c] = "stopped"
    BY DEF Init, Statuses
  <1>3. WorkTypeOK
    <2>5. RetriesBounded
      BY <1>1, WorkerAssumption DEF RetriesBounded
    <2>1. QueueTypeOK
      BY <1>1, FS_EmptySet, QueueAssumption DEF QueueTypeOK
    <2>2. /\ retryCount \in [Tasks -> Nat] /\ accepted \in [Tasks -> 0..MaxPushes]
          /\ current \in [Consumers -> Tasks \union {Null}] /\ interrupted \subseteq Tasks
      BY <1>1, QueueAssumption
    <2>3. running \in BOOLEAN
      BY <1>1
    <2>4. QED
      BY <1>2, <2>1, <2>2, <2>3, <2>5 DEF WorkTypeOK
  <1>4. WaitsInLoop /\ HasTask /\ StoppedAlone /\ NoLostWakeup /\ RunningIsExecuted
    BY <1>1, <1>2 DEF WaitsInLoop, HasTask, StoppedAlone, NoLostWakeup, RunningIsExecuted
  <1>5. AcceptedIsCounted
    BY <1>1 DEF AcceptedIsCounted
  <1>6. OneExecutionPerPush
    <2>1. \A t \in Tasks : Executing(t) = {} /\ Entries(t) = {} /\ accepted[t] = 0
      BY <1>1, WorkerAssumption DEF Executing, Entries
    <2>2. QED
      BY <2>1, FS_EmptySet DEF OneExecutionPerPush
  <1>7. SchedulerTypeOK
    <2>1. scheduled = Items /\ due = {} /\ halted = FALSE /\ stops = 0
      BY DEF Init
    <2>2. halted \in BOOLEAN
      BY <2>1
    <2>3. scheduled \subseteq Items /\ due \subseteq Items /\ stops \in 0..MaxStops
      BY <2>1, WorkerAssumption
    <2>4. QED
      BY <2>2, <2>3 DEF SchedulerTypeOK
  <1>8. QED
    BY <1>3, <1>4, <1>5, <1>6, <1>7 DEF WorkersInv

LEMMA AlwaysWorkersInv == Spec => [](WorkersInv /\ SchedulerTypeOK)
  <1>1. WorkersInv /\ SchedulerTypeOK /\ [Next]_vars => (WorkersInv /\ SchedulerTypeOK)'
    BY WorkersNext, SchedulerNext
  <1>2. QED
    BY WorkersInit, <1>1, PTL DEF Spec

\* The queue, the tasks, the consumers and the scheduler keep their types, and no
\* task is retried more often than its policy allows.
THEOREM WorkersTypeCorrect == Spec => []TypeOK
  <1>1. WorkersInv /\ SchedulerTypeOK => TypeOK
    BY DEF WorkersInv, WorkTypeOK, SchedulerTypeOK, TypeOK
  <1>2. QED
    BY AlwaysWorkersInv, <1>1, PTL

\* While a consumer sleeps in pop(), as many others are on their way to an entry as
\* there are entries: no order of pushes, timeouts, cancellations and faster
\* consumers loses a wake-up of the queue's condition.
THEOREM WakeupsAreNotLost == Spec => []NoLostWakeup
  <1>1. WorkersInv => NoLostWakeup
    BY DEF WorkersInv
  <1>2. QED
    BY AlwaysWorkersInv, <1>1, PTL

\* A task recorded as running is in a consumer's hands or was cut off by a shutdown,
\* and a task has at no time more executions going on and entries queued, taken
\* together, than the queue accepted pushes of it.
THEOREM ExecutionsStayAccounted == Spec => []ExecutionsAreAccounted
  <1>1. WorkersInv => ExecutionsAreAccounted
    BY DEF WorkersInv, ExecutionsAreAccounted
  <1>2. QED
    BY AlwaysWorkersInv, <1>1, PTL
=============================================================================
