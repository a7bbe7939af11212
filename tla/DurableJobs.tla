----------------------------- MODULE DurableJobs -----------------------------
(***************************************************************************)
(* The durable job queue of flaxon's admin package (admin/production.py):  *)
(* DurableJobStore keeps every job in one JSON document that AdminStore's  *)
(* mutate() rewrites under a database write lock, so each store operation  *)
(* is one atomic action; any number of DurableJobWorker loops share it.    *)
(*                                                                         *)
(* A worker reads the clock, claims a batch of due jobs under one lease,   *)
(* runs their handlers one after the other and settles each with           *)
(* complete() or fail().  Nothing ties a settlement to the lease it was    *)
(* claimed under.  Workers crash, restart, and outlive their leases.       *)
(*                                                                         *)
(* Timestamps are kept as timers, their distance from the present, so that *)
(* the model has no time horizon: 0 is now, and values are only exact down *)
(* to Past, below which every comparison of the code comes out the same.   *)
(***************************************************************************)
EXTENDS Integers, FiniteSets

CONSTANTS
    Jobs,           \* the job ids callers may enqueue
    Workers,        \* the DurableJobWorker loops, in one process or several
    MaxAttempts,    \* max_attempts each job is enqueued with
    RunAfters,      \* the run_after timers callers enqueue with
    Limit,          \* the limit given to run_once
    LeaseSeconds,   \* DurableJobStore.lease_seconds
    RetryDelay,     \* fail()'s retry_delay
    RetryDelays,    \* the delays an operator gives to retry_failed
    MaxLag,         \* bound: how long claim_due may wait for the write lock
    MaxCrashes,     \* bound: worker crashes in a behaviour
    MaxRetries,     \* bound: operator retries in a behaviour
    NoWorker        \* worker_id of a job nobody claimed yet

ASSUME JobsAssumption ==
    /\ IsFiniteSet(Jobs)
    /\ MaxAttempts \in [Jobs -> Nat]
    /\ Limit \in Nat
    /\ LeaseSeconds \in Nat \ {0}
    /\ RetryDelay \in Nat
    /\ MaxLag \in Nat
    /\ RunAfters \subseteq {t \in Int : t >= -MaxLag}
    /\ RetryDelays \subseteq Nat
    /\ MaxCrashes \in Nat
    /\ MaxRetries \in Nat
    /\ NoWorker \notin Workers

VARIABLES
    job,       \* the stored document: one record per job id
    pc,        \* of each worker: where run_once stands
    lag,       \* of each worker in claim_due: the age of the clock it read
    batch,     \* of each worker: the claimed jobs it has not settled yet
    held,      \* of each worker: the lease_until of that batch, as a timer
    returned,  \* history: the jobs whose handler has returned
    crashes, retries

vars == <<job, pc, lag, batch, held, returned, crashes, retries>>

Statuses == {"absent", "queued", "running", "completed", "failed"}

\* The event names the code appends to a job's history, the ones a property
\* needs; a job's history is kept as the set of events it has seen.
Events == {"lease_expired", "manual_retry"}

\* A timestamp this far back or further is past for every worker.
Past == -MaxLag

JobRecord == [status : Statuses, attempts : Nat, run_after : Int,
              lease_until : Int, worker_id : Workers \union {NoWorker},
              created : Nat, history : SUBSET Events]

TypeOK ==
    /\ job \in [Jobs -> JobRecord]
    /\ pc \in [Workers -> {"idle", "claiming", "handling", "completing", "failing"}]
    /\ lag \in [Workers -> 0..MaxLag]
    /\ batch \in [Workers -> SUBSET Jobs]
    /\ held \in [Workers -> Int]
    /\ returned \subseteq Jobs
    /\ crashes \in 0..MaxCrashes
    /\ retries \in 0..MaxRetries

-----------------------------------------------------------------------------
AtLeast(n, x) == IF x < n THEN n ELSE x

\* enqueue() raises max_attempts to one, claim_due its limit.
AttemptLimit == [j \in Jobs |-> AtLeast(1, MaxAttempts[j])]
ClaimLimit == AtLeast(1, Limit)

Stored(j) == job[j].status # "absent"

\* Mutant of Recoverable: the job of a dead worker is never recovered.
NeverRecoverable(w, j) == FALSE

\* A running job whose lease is over at the time worker w read.
Recoverable(w, j) ==
    /\ job[j].status = "running"
    /\ job[j].lease_until <= -lag[w]

\* Mutant of Due: running jobs are due whatever their lease says.
DueWithoutLease(w, j) ==
    /\ job[j].status \in {"queued", "running"}
    /\ job[j].run_after <= -lag[w]

Due(w, j) ==
    /\ job[j].status = "queued" \/ Recoverable(w, j)
    /\ job[j].run_after <= -lag[w]

\* The loop of claim_due goes through the jobs by age and stops at the limit.
Visited(w, j) ==
    /\ Stored(j)
    /\ Cardinality({k \in Jobs : Due(w, k) /\ job[k].created < job[j].created})
         < ClaimLimit

Claimable(w) == {j \in Jobs : Due(w, j) /\ Visited(w, j)}

\* The count is exact up to one past the limit, which is all fail() can tell.
NextAttempt(j) ==
    IF job[j].attempts <= AttemptLimit[j] THEN job[j].attempts + 1
                                          ELSE job[j].attempts

ExpiryEvent(w, j) == IF Recoverable(w, j) THEN {"lease_expired"} ELSE {}

\* Mutant of Claimed: the claim does not record who made it.
ClaimedAnonymously(w, j) ==
    [job[j] EXCEPT !.status = "running", !.attempts = NextAttempt(j),
                   !.lease_until = LeaseSeconds - lag[w]]

Claimed(w, j) ==
    [job[j] EXCEPT !.status = "running",
                   !.attempts = NextAttempt(j),
                   !.worker_id = w,
                   !.lease_until = LeaseSeconds - lag[w],
                   !.history = @ \union ExpiryEvent(w, j)]

\* What the loop leaves of a job it went past: a recovered job is queued
\* even when it is not claimed.
Passed(w, j) ==
    IF Visited(w, j) /\ Recoverable(w, j)
    THEN [job[j] EXCEPT !.status = "queued", !.history = @ \union {"lease_expired"}]
    ELSE job[j]

\* Mutant of AlreadySettled: a late fail() also takes back a completed job.
OnlyGone(j) == job[j].status = "absent"

\* complete() and fail() do not look at who settles, nor at the lease: only a
\* job that is gone or completed is left alone.
AlreadySettled(j) == job[j].status \in {"absent", "completed"}

\* Mutant of Retrying: off by one, a job gets one attempt too many.
RetryingOnceMore(j) == job[j].attempts <= AttemptLimit[j]

Retrying(j) == job[j].attempts < AttemptLimit[j]

Completed(j) ==
    IF AlreadySettled(j) THEN job[j]
    ELSE [job[j] EXCEPT !.status = "completed", !.lease_until = Past]

Failed(j) ==
    IF AlreadySettled(j) THEN job[j]
    ELSE IF Retrying(j)
    THEN [job[j] EXCEPT !.status = "queued", !.lease_until = Past,
                        !.run_after = RetryDelay * AtLeast(1, job[j].attempts)]
    ELSE [job[j] EXCEPT !.status = "failed", !.lease_until = Past,
                        !.run_after = Past]

Enqueued(j, run_after) ==
    [job[j] EXCEPT !.status = "queued", !.run_after = run_after,
                   !.created = Cardinality({k \in Jobs : Stored(k)})]

\* Mutant of Retried: the event's name is stored as the status.
RetriedAsEvent(j, delay) == [job[j] EXCEPT !.status = "manual_retry", !.run_after = delay]

Retried(j, delay) ==
    [job[j] EXCEPT !.status = "queued", !.run_after = delay, !.lease_until = Past,
                   !.history = @ \union {"manual_retry"}]

\* Timers after one more unit of time.
Later(timer) == AtLeast(Past, timer - 1)

Aged(j) == [job[j] EXCEPT !.run_after = Later(@), !.lease_until = Later(@)]

\* run_once takes its batch in the order claim_due returned it.
First(w, j) ==
    /\ j \in batch[w]
    /\ \A k \in batch[w] : job[j].created <= job[k].created

-----------------------------------------------------------------------------
NewJob == [status |-> "absent", attempts |-> 0, run_after |-> Past,
           lease_until |-> Past, worker_id |-> NoWorker, created |-> 0,
           history |-> {}]

Init ==
    /\ job = [j \in Jobs |-> NewJob]
    /\ pc = [w \in Workers |-> "idle"]
    /\ lag = [w \in Workers |-> 0]
    /\ batch = [w \in Workers |-> {}]
    /\ held = [w \in Workers |-> Past]
    /\ returned = {}
    /\ crashes = 0
    /\ retries = 0

\* enqueue(): a job id that exists already is returned unchanged.
Enqueue(j, run_after) ==
    /\ ~Stored(j)
    /\ job' = [job EXCEPT ![j] = Enqueued(j, run_after)]
    /\ UNCHANGED <<pc, lag, batch, held, returned, crashes, retries>>

\* claim_due() reads the clock before it asks for the write lock ...
ReadClock(w) ==
    /\ pc[w] = "idle"
    /\ pc' = [pc EXCEPT ![w] = "claiming"]
    /\ UNCHANGED <<job, lag, batch, held, returned, crashes, retries>>

\* ... and claims every due job it comes to, all under one lease.
Claim(w) ==
    LET claimed == Claimable(w) IN
    /\ pc[w] = "claiming"
    /\ job' = [j \in Jobs |-> IF j \in claimed THEN Claimed(w, j) ELSE Passed(w, j)]
    /\ batch' = [batch EXCEPT ![w] = claimed]
    /\ held' = [held EXCEPT ![w] = IF claimed = {} THEN Past ELSE LeaseSeconds - lag[w]]
    /\ pc' = [pc EXCEPT ![w] = IF claimed = {} THEN "idle" ELSE "handling"]
    /\ lag' = [lag EXCEPT ![w] = 0]
    /\ UNCHANGED <<returned, crashes, retries>>

HandlerReturns(w, j) ==
    /\ pc[w] = "handling" /\ First(w, j)
    /\ pc' = [pc EXCEPT ![w] = "completing"]
    /\ returned' = returned \union {j}
    /\ UNCHANGED <<job, lag, batch, held, crashes, retries>>

\* The handler raises, or no handler has the job's name.
HandlerRaises(w, j) ==
    /\ pc[w] = "handling" /\ First(w, j)
    /\ pc' = [pc EXCEPT ![w] = "failing"]
    /\ UNCHANGED <<job, lag, batch, held, returned, crashes, retries>>

\* The rest of run_once after job j is settled.
NextInBatch(w, j) ==
    LET rest == batch[w] \ {j} IN
    /\ batch' = [batch EXCEPT ![w] = rest]
    /\ held' = [held EXCEPT ![w] = IF rest = {} THEN Past ELSE @]
    /\ pc' = [pc EXCEPT ![w] = IF rest = {} THEN "idle" ELSE "handling"]

Complete(w, j) ==
    /\ pc[w] = "completing" /\ First(w, j)
    /\ job' = [job EXCEPT ![j] = Completed(j)]
    /\ NextInBatch(w, j)
    /\ UNCHANGED <<lag, returned, crashes, retries>>

\* The store refuses complete(): run_once's except clause fails the job.
CompleteRaises(w, j) ==
    /\ pc[w] = "completing" /\ First(w, j)
    /\ pc' = [pc EXCEPT ![w] = "failing"]
    /\ UNCHANGED <<job, lag, batch, held, returned, crashes, retries>>

Fail(w, j) ==
    /\ pc[w] = "failing" /\ First(w, j)
    /\ job' = [job EXCEPT ![j] = Failed(j)]
    /\ NextInBatch(w, j)
    /\ UNCHANGED <<lag, returned, crashes, retries>>

\* The process dies, run_once is cancelled, or fail() itself raises: what is
\* left of the batch is neither completed nor failed.  The worker restarts.
Crash(w) ==
    /\ crashes < MaxCrashes
    /\ pc[w] # "idle"
    /\ pc' = [pc EXCEPT ![w] = "idle"]
    /\ lag' = [lag EXCEPT ![w] = 0]
    /\ batch' = [batch EXCEPT ![w] = {}]
    /\ held' = [held EXCEPT ![w] = Past]
    /\ crashes' = crashes + 1
    /\ UNCHANGED <<job, returned, retries>>

\* retry_failed(): whatever the job's status is.
RetryFailed(j, delay) ==
    /\ retries < MaxRetries
    /\ Stored(j)
    /\ job' = [job EXCEPT ![j] = Retried(j, delay)]
    /\ retries' = retries + 1
    /\ UNCHANGED <<pc, lag, batch, held, returned, crashes>>

Tick ==
    /\ \A w \in Workers : pc[w] = "claiming" => lag[w] < MaxLag
    /\ job' = [j \in Jobs |-> Aged(j)]
    /\ held' = [w \in Workers |-> Later(held[w])]
    /\ lag' = [w \in Workers |-> IF pc[w] = "claiming" THEN lag[w] + 1 ELSE lag[w]]
    /\ UNCHANGED <<pc, batch, returned, crashes, retries>>

-----------------------------------------------------------------------------
Handling(w) == \E j \in Jobs : HandlerReturns(w, j) \/ HandlerRaises(w, j)
Settling(w) == \E j \in Jobs : Complete(w, j) \/ CompleteRaises(w, j) \/ Fail(w, j)

Next ==
    \/ \E j \in Jobs, t \in RunAfters : Enqueue(j, t)
    \/ \E w \in Workers : ReadClock(w) \/ Claim(w) \/ Handling(w) \/ Settling(w) \/ Crash(w)
    \/ \E j \in Jobs, d \in RetryDelays : RetryFailed(j, d)
    \/ Tick

Spec == Init /\ [][Next]_vars

\* run_forever polls for ever, handlers end, the store answers.  Time passes
\* whatever the workers do; Tick's guard only bounds their lag.
Fairness ==
    /\ SF_vars(Tick)
    /\ \A w \in Workers : /\ WF_vars(ReadClock(w)) /\ WF_vars(Claim(w))
                          /\ WF_vars(Handling(w)) /\ WF_vars(Settling(w))

FairSpec == Spec /\ Fairness

-----------------------------------------------------------------------------
\* Two workers have the same job in hand only after its lease ran out or an
\* operator put it back: claim_due's atomic claim is exclusive until then.
ExclusiveUntilExpiry ==
    \A j \in Jobs : \A v, w \in Workers :
        v # w /\ j \in batch[v] /\ j \in batch[w] => job[j].history # {}

\* A job is claimed more often than its max_attempts only if a lease of it ran
\* out (claim_due does not look at max_attempts) or an operator put it back.
AttemptsWithinLimit ==
    \A j \in Jobs : job[j].attempts > AttemptLimit[j] => job[j].history # {}

\* Until then, a job in hand is also stored as running, for the worker that has
\* it and under the lease that worker was given: no settlement, failure or
\* claim of anyone else slips in between.
InHandIsRunning ==
    \A j \in Jobs : \A w \in Workers :
        j \in batch[w] /\ job[j].history = {} =>
            /\ job[j].status = "running"
            /\ job[j].worker_id = w
            /\ job[j].lease_until = held[w]

\* What the queue promises its callers (the abstract specification): a job
\* stays open until its handler has returned or its attempts are used up, and
\* only an operator opens it again.
PhaseOf(status) ==
    CASE status \in {"queued", "running"} -> "open"
      [] status = "completed" -> "done"
      [] status = "failed" -> "dead"
      [] OTHER -> "absent"

Ledger == INSTANCE JobLedger WITH
    AttemptLimit <- AttemptLimit,
    phase <- [j \in Jobs |-> PhaseOf(job[j].status)],
    attempts <- [j \in Jobs |-> job[j].attempts],
    returned <- returned,
    reopened <- retries

LedgerSpec == Ledger!Spec

\* Every job that was enqueued is eventually completed or failed, through
\* crashes, expired leases and late settlements.  TLC checks it where no operator
\* puts jobs back: retries multiply the states beyond what liveness allows.
EventuallySettled ==
    \A j \in Jobs : Stored(j) ~> job[j].status \in {"completed", "failed"}

\* The lease of the batch worker w is working on is not over yet.
LiveLease(w, j) == j \in batch[w] /\ held[w] > 0

\* Two workers never hold a live lease on the same job.
OneLiveLease ==
    \A j \in Jobs : \A v, w \in Workers :
        LiveLease(v, j) /\ LiveLease(w, j) => v = w
=============================================================================
