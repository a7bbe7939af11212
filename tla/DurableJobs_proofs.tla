-------------------------- MODULE DurableJobs_proofs --------------------------
(***************************************************************************)
(* What the durable job queue guarantees for every set of jobs, workers    *)
(* and times: its type, the exclusiveness of a claim until its lease runs  *)
(* out, the bound on attempts, and that it implements JobLedger.           *)
(***************************************************************************)
EXTENDS DurableJobs, FiniteSetTheorems, TLAPS

StoredJobs == {j \in Jobs : Stored(j)}

\* What a worker has in hand was enqueued and claimed.
InHandWasClaimed ==
    \A w \in Workers : \A j \in batch[w] : Stored(j) /\ job[j].attempts > 0

\* The attempts of a job that never lost a lease: the next claim is allowed.
AttemptsLeft ==
    \A j \in Jobs : job[j].history = {} =>
        /\ job[j].attempts <= AttemptLimit[j]
        /\ job[j].status \in {"absent", "queued"} => job[j].attempts < AttemptLimit[j]

\* A job is failed only when its attempts are used up.
FailedIsUsedUp ==
    \A j \in Jobs : job[j].status = "failed" => job[j].attempts >= AttemptLimit[j]

\* No two stored jobs have the same age.
AgesDiffer ==
    /\ \A j \in StoredJobs : job[j].created < Cardinality(StoredJobs)
    /\ \A j, k \in StoredJobs : job[j].created = job[k].created => j = k

\* run_once calls complete only for the job whose handler just returned.
CompletingReturned ==
    \A w \in Workers : \A j \in Jobs :
        pc[w] = "completing" /\ First(w, j) => j \in returned

\* The inductive invariant.
Inv ==
    /\ TypeOK
    /\ ExclusiveUntilExpiry
    /\ InHandIsRunning
    /\ InHandWasClaimed
    /\ AttemptsLeft
    /\ FailedIsUsedUp

-----------------------------------------------------------------------------
\* The limit in force is a positive number, whatever max_attempts was given.
LEMMA LimitType == AttemptLimit \in [Jobs -> Nat \ {0}]
  BY JobsAssumption DEF AttemptLimit, AtLeast

\* The constants that are numbers.
LEMMA Numbers ==
  /\ LeaseSeconds \in Nat \ {0} /\ MaxLag \in Nat
  /\ RetryDelay \in Nat /\ Past \in Int
  BY JobsAssumption DEF Past

\* A stored job, field by field.
LEMMA FieldTypes ==
  ASSUME TypeOK, NEW j \in Jobs
  PROVE  /\ job[j] \in JobRecord
         /\ job[j].status \in Statuses /\ job[j].attempts \in Nat
         /\ job[j].run_after \in Int /\ job[j].lease_until \in Int
         /\ job[j].worker_id \in Workers \union {NoWorker}
         /\ job[j].created \in Nat /\ job[j].history \in SUBSET Events
  <1>1. job[j] \in JobRecord
    BY DEF TypeOK
  <1>2. QED
    BY <1>1 DEF JobRecord

\* claim_due writes a well-formed record for each job it claims.
LEMMA ClaimedType ==
  ASSUME TypeOK, NEW w \in Workers, NEW j \in Jobs
  PROVE  Claimed(w, j) \in JobRecord
  <1>1. lag[w] \in Int
    BY Numbers DEF TypeOK
  <1>2. NextAttempt(j) \in Nat
    BY FieldTypes, LimitType DEF NextAttempt
  <1>3. job[j].history \union ExpiryEvent(w, j) \in SUBSET Events
    BY FieldTypes DEF ExpiryEvent, Events
  <1>4. LeaseSeconds - lag[w] \in Int
    BY <1>1, Numbers
  <1>5. QED
    BY FieldTypes, <1>2, <1>3, <1>4 DEF Claimed, JobRecord, Statuses

\* So does the loop for a job it goes past.
LEMMA PassedType ==
  ASSUME TypeOK, NEW w \in Workers, NEW j \in Jobs
  PROVE  Passed(w, j) \in JobRecord
  <1>1. job[j].history \union {"lease_expired"} \in SUBSET Events
    BY FieldTypes DEF Events
  <1>2. QED
    BY FieldTypes, <1>1 DEF Passed, JobRecord, Statuses

\* Each settlement writes a well-formed record.
LEMMA SettledType ==
  ASSUME TypeOK, NEW j \in Jobs
  PROVE  Completed(j) \in JobRecord /\ Failed(j) \in JobRecord
  <1>1. Completed(j) \in JobRecord
    BY FieldTypes, Numbers DEF JobRecord, Statuses, Completed, AlreadySettled
  <1>2. RetryDelay * AtLeast(1, job[j].attempts) \in Int
    BY FieldTypes, Numbers DEF AtLeast
  <1>3. Failed(j) \in JobRecord
    BY <1>2, FieldTypes, Numbers DEF JobRecord, Statuses, Failed, AlreadySettled, Retrying
  <1>4. QED BY <1>1, <1>3

\* Init establishes the inductive invariant.
LEMMA InitInv == Init => Inv
  <1> SUFFICES ASSUME Init PROVE Inv
    OBVIOUS
  <1> USE JobsAssumption, LimitType
  <1>1. TypeOK
    BY DEF Init, TypeOK, NewJob, JobRecord, Statuses, Past
  <1>2. QED
    BY <1>1 DEF Init, Inv, NewJob, ExclusiveUntilExpiry, InHandIsRunning, InHandWasClaimed,
                AttemptsLeft, FailedIsUsedUp

\* Every step keeps the state well formed.
LEMMA TypeStep == TypeOK /\ [Next]_vars => TypeOK'
  <1> SUFFICES ASSUME TypeOK, [Next]_vars PROVE TypeOK'
    OBVIOUS
  <1>1. ASSUME NEW j \in Jobs, NEW t \in RunAfters, Enqueue(j, t) PROVE TypeOK'
    <2>1. t \in Int /\ Cardinality({k \in Jobs : Stored(k)}) \in Nat
      <3>1. IsFiniteSet({k \in Jobs : Stored(k)})
        BY JobsAssumption, FS_Subset
      <3>2. QED BY <3>1, FS_CardinalityType, JobsAssumption
    <2>2. Enqueued(j, t) \in JobRecord
      BY <2>1, FieldTypes DEF Enqueued, JobRecord, Statuses
    <2>3. QED BY <1>1, <2>2 DEF Enqueue, TypeOK
  <1>2. ASSUME NEW w \in Workers, ReadClock(w) PROVE TypeOK'
    BY <1>2 DEF ReadClock, TypeOK
  <1>3. ASSUME NEW w \in Workers, Claim(w) PROVE TypeOK'
    <2>1. job' \in [Jobs -> JobRecord]
      BY <1>3, ClaimedType, PassedType DEF Claim
    <2>2. Claimable(w) \in SUBSET Jobs
      BY DEF Claimable
    <2>3. LeaseSeconds - lag[w] \in Int /\ 0 \in 0..MaxLag
      BY Numbers DEF TypeOK
    <2>4. lag' \in [Workers -> 0..MaxLag]
      BY <1>3, <2>3 DEF Claim, TypeOK
    <2>5. held' \in [Workers -> Int]
      BY <1>3, <2>3, Numbers DEF Claim, TypeOK
    <2>6. QED
      BY <1>3, <2>1, <2>2, <2>4, <2>5 DEF Claim, TypeOK
  <1>4. ASSUME NEW w \in Workers, Handling(w) PROVE TypeOK'
    BY <1>4 DEF Handling, HandlerReturns, HandlerRaises, TypeOK
  <1>5. ASSUME NEW w \in Workers, Settling(w) PROVE TypeOK'
    <2> PICK j \in Jobs : Complete(w, j) \/ CompleteRaises(w, j) \/ Fail(w, j)
      BY <1>5 DEF Settling
    <2>1. CASE Complete(w, j) \/ Fail(w, j)
      <3>1. job' \in [Jobs -> JobRecord]
        BY <2>1, SettledType DEF Complete, Fail, TypeOK
      <3>2. held' \in [Workers -> Int]
        BY <2>1, Numbers DEF Complete, Fail, NextInBatch, TypeOK
      <3>3. QED
        BY <2>1, <3>1, <3>2 DEF Complete, Fail, NextInBatch, TypeOK
    <2>2. CASE CompleteRaises(w, j)
      BY <2>2 DEF CompleteRaises, TypeOK
    <2>3. QED BY <2>1, <2>2
  <1>6. ASSUME NEW w \in Workers, Crash(w) PROVE TypeOK'
    <2>1. crashes' \in 0..MaxCrashes /\ 0 \in 0..MaxLag
      BY <1>6, JobsAssumption DEF Crash, TypeOK
    <2>2. held' \in [Workers -> Int]
      BY <1>6, Numbers DEF Crash, TypeOK
    <2>3. QED BY <1>6, <2>1, <2>2 DEF Crash, TypeOK
  <1>7. ASSUME NEW j \in Jobs, NEW d \in RetryDelays, RetryFailed(j, d) PROVE TypeOK'
    <2>1. d \in Int /\ job[j].history \union {"manual_retry"} \in SUBSET Events
      BY FieldTypes, JobsAssumption DEF Events
    <2>2. Retried(j, d) \in JobRecord
      BY <2>1, FieldTypes, Numbers DEF Retried, JobRecord, Statuses
    <2>3. retries' \in 0..MaxRetries
      BY <1>7, JobsAssumption DEF RetryFailed, TypeOK
    <2>4. QED BY <1>7, <2>2, <2>3 DEF RetryFailed, TypeOK
  <1>8. ASSUME Tick PROVE TypeOK'
    <2>1. \A t \in Int : Later(t) \in Int
      BY Numbers DEF Later, AtLeast
    <2>2. job' \in [Jobs -> JobRecord]
      <3>1. ASSUME NEW j \in Jobs PROVE Aged(j) \in JobRecord
        BY <2>1, FieldTypes DEF Aged, JobRecord
      <3>2. QED BY <1>8, <3>1 DEF Tick
    <2>3. held' \in [Workers -> Int]
      BY <1>8, <2>1 DEF Tick, TypeOK
    <2>4. lag' \in [Workers -> 0..MaxLag]
      BY <1>8, Numbers DEF Tick, TypeOK
    <2>5. QED BY <1>8, <2>2, <2>3, <2>4 DEF Tick, TypeOK
  <1>9. CASE UNCHANGED vars
    BY <1>9 DEF vars, TypeOK
  <1>10. QED
    BY <1>1, <1>2, <1>3, <1>4, <1>5, <1>6, <1>7, <1>8, <1>9 DEF Next

\* A new job has all its attempts left.
LEMMA EnqueueInv ==
  ASSUME Inv, TypeOK', NEW j \in Jobs, NEW t \in RunAfters, Enqueue(j, t)
  PROVE  Inv'
  <1> USE DEF Inv
  <1>1. /\ job' = [job EXCEPT ![j] = Enqueued(j, t)]
        /\ batch' = batch /\ held' = held /\ ~Stored(j)
    BY DEF Enqueue
  <1>2. /\ job'[j].status = "queued" /\ job'[j].attempts = job[j].attempts
        /\ job'[j].history = job[j].history
    BY <1>1, FieldTypes DEF Enqueued, TypeOK, JobRecord
  <1>3. \A k \in Jobs \ {j} : job'[k] = job[k]
    BY <1>1 DEF TypeOK
  <1>4. \A w \in Workers : j \notin batch[w]
    BY <1>1 DEF InHandWasClaimed
  <1>5. ExclusiveUntilExpiry' /\ InHandIsRunning'
    BY <1>1, <1>2, <1>3, <1>4 DEF ExclusiveUntilExpiry, InHandIsRunning
  <1>6. InHandWasClaimed'
    BY <1>1, <1>3, <1>4 DEF InHandWasClaimed, Stored, TypeOK
  <1>7. AttemptsLeft'
    BY <1>1, <1>2, <1>3 DEF AttemptsLeft, Stored
  <1>8. FailedIsUsedUp'
    BY <1>1, <1>2, <1>3 DEF FailedIsUsedUp
  <1>9. QED BY <1>5, <1>6, <1>7, <1>8

\* What a claim writes into a job.
LEMMA ClaimedFields ==
  ASSUME NEW w \in Workers, NEW j \in Jobs, job \in [Jobs -> JobRecord]
  PROVE  /\ Claimed(w, j).status = "running" /\ Claimed(w, j).attempts = NextAttempt(j)
         /\ Claimed(w, j).worker_id = w
         /\ Claimed(w, j).lease_until = LeaseSeconds - lag[w]
         /\ Claimed(w, j).history = job[j].history \union ExpiryEvent(w, j)
  <1>1. job[j] \in JobRecord
    OBVIOUS
  <1>2. QED BY <1>1 DEF Claimed, JobRecord

\* A claim takes queued jobs, and running jobs only with a note in their
\* history, so a clean job never gets into two hands.
LEMMA ClaimInv ==
  ASSUME Inv, TypeOK', NEW w \in Workers, Claim(w)
  PROVE  Inv'
  <1> USE DEF Inv
  <1> DEFINE claimed == Claimable(w)
  <1>1. /\ \A j \in claimed : job'[j] = Claimed(w, j)
        /\ \A j \in Jobs \ claimed : job'[j] = Passed(w, j)
        /\ claimed \subseteq Jobs
    BY DEF Claim, Claimable
  <1>2. /\ batch' = [batch EXCEPT ![w] = claimed]
        /\ \A v \in Workers \ {w} : held'[v] = held[v] /\ batch'[v] = batch[v]
        /\ claimed # {} => held'[w] = LeaseSeconds - lag[w]
        /\ batch'[w] = claimed
    BY DEF Claim, TypeOK
  <1>3. ASSUME NEW j \in claimed
        PROVE  /\ job'[j].status = "running" /\ job'[j].attempts = NextAttempt(j)
               /\ job'[j].worker_id = w /\ job'[j].lease_until = LeaseSeconds - lag[w]
               /\ job'[j].history = job[j].history \union ExpiryEvent(w, j)
    <2>1. job'[j] = Claimed(w, j) /\ j \in Jobs
      BY <1>1, <1>3
    <2>2. QED BY <2>1, ClaimedFields DEF TypeOK
  <1>4. ASSUME NEW j \in claimed, job'[j].history = {}
        PROVE  job[j].history = {} /\ job[j].status = "queued"
    BY <1>3, <1>4 DEF Claimable, Due, ExpiryEvent
  <1>5. ASSUME NEW j \in claimed, job'[j].history = {}, NEW v \in Workers
        PROVE  j \notin batch[v]
    BY <1>1, <1>4, <1>5 DEF InHandIsRunning
  <1>6. ASSUME NEW j \in Jobs \ claimed
        PROVE  \/ job'[j] = job[j]
               \/ /\ job[j].status = "running" /\ job'[j].status = "queued"
                  /\ job'[j].attempts = job[j].attempts
                  /\ job'[j].history # {}
    BY <1>1, <1>6, FieldTypes DEF Passed, JobRecord, Recoverable
  <1>7. ExclusiveUntilExpiry'
    BY <1>2, <1>5, <1>6 DEF ExclusiveUntilExpiry, TypeOK
  <1>8. InHandIsRunning'
    <2> SUFFICES ASSUME NEW j \in Jobs, NEW v \in Workers, j \in batch'[v], job'[j].history = {}
                 PROVE  /\ job'[j].status = "running" /\ job'[j].worker_id = v
                        /\ job'[j].lease_until = held'[v]
      BY DEF InHandIsRunning
    <2>1. CASE j \in claimed
      BY <1>2, <1>3, <1>5, <2>1
    <2>2. CASE j \notin claimed
      BY <1>2, <1>6, <2>2 DEF InHandIsRunning
    <2>3. QED BY <2>1, <2>2
  <1>9. InHandWasClaimed'
    <2> SUFFICES ASSUME NEW v \in Workers, NEW j \in batch'[v]
                 PROVE  job'[j].status # "absent" /\ job'[j].attempts > 0
      BY DEF InHandWasClaimed, Stored
    <2>1. CASE j \in claimed
      BY <1>1, <1>3, <2>1, FieldTypes, LimitType DEF NextAttempt
    <2>2. CASE j \notin claimed
      BY <1>2, <1>6, <2>2 DEF InHandWasClaimed, Stored, TypeOK
    <2>3. QED BY <2>1, <2>2
  <1>10. AttemptsLeft'
    <2> SUFFICES ASSUME NEW j \in Jobs, job'[j].history = {}
                 PROVE  /\ job'[j].attempts <= AttemptLimit[j]
                        /\ job'[j].status \in {"absent", "queued"}
                             => job'[j].attempts < AttemptLimit[j]
      BY DEF AttemptsLeft
    <2>1. CASE j \in claimed
      BY <1>3, <1>4, <2>1, FieldTypes, LimitType DEF NextAttempt, AttemptsLeft
    <2>2. CASE j \notin claimed
      BY <1>6, <2>2 DEF AttemptsLeft
    <2>3. QED BY <2>1, <2>2
  <1>11. FailedIsUsedUp'
    BY <1>3, <1>6 DEF FailedIsUsedUp
  <1>12. QED BY <1>7, <1>8, <1>9, <1>10, <1>11

\* A settlement drops the job from the batch; a clean job was in no other.
LEMMA SettleInv ==
  ASSUME Inv, TypeOK', NEW w \in Workers, NEW j \in Jobs, Complete(w, j) \/ Fail(w, j)
  PROVE  Inv'
  <1> USE DEF Inv
  <1>1. /\ j \in batch[w]
        /\ batch' = [batch EXCEPT ![w] = batch[w] \ {j}]
        /\ \A v \in Workers \ {w} : held'[v] = held[v]
        /\ batch[w] \ {j} # {} => held'[w] = held[w]
    BY DEF Complete, Fail, First, NextInBatch, TypeOK
  <1>2. \A k \in Jobs \ {j} : job'[k] = job[k]
    BY DEF Complete, Fail, TypeOK
  <1>3. /\ job'[j].history = job[j].history /\ job'[j].attempts = job[j].attempts
        /\ job'[j].status # "absent" \/ job'[j] = job[j]
        /\ job'[j].status = "queued" => job[j].status = "queued"
                                           \/ job[j].attempts < AttemptLimit[j]
        /\ job'[j].status = "failed" => job[j].status = "failed"
                                           \/ job[j].attempts >= AttemptLimit[j]
    <2>1. CASE Complete(w, j)
      BY <2>1, FieldTypes DEF Complete, Completed, AlreadySettled, TypeOK, JobRecord
    <2>2. CASE Fail(w, j)
      <3>1. job'[j] = Failed(j)
        BY <2>2 DEF Fail, TypeOK
      <3>2. job[j].attempts \in Nat /\ AttemptLimit[j] \in Nat /\ job[j] \in JobRecord
        BY FieldTypes, LimitType
      <3>3. CASE job[j].status \in {"absent", "completed"}
        BY <3>1, <3>3 DEF Failed, AlreadySettled, Retrying
      <3>4. CASE /\ job[j].status \notin {"absent", "completed"}
                 /\ job[j].attempts < AttemptLimit[j]
        BY <3>1, <3>2, <3>4 DEF Failed, AlreadySettled, Retrying, JobRecord
      <3>5. CASE /\ job[j].status \notin {"absent", "completed"}
                 /\ ~(job[j].attempts < AttemptLimit[j])
        BY <3>1, <3>2, <3>5 DEF Failed, AlreadySettled, Retrying, JobRecord
      <3>6. QED BY <3>3, <3>4, <3>5
    <2>3. QED BY <2>1, <2>2
  <1>4. \A v \in Workers : batch'[v] \subseteq batch[v] /\ (v = w => j \notin batch'[v])
    BY <1>1 DEF TypeOK
  <1>5. ExclusiveUntilExpiry'
    BY <1>2, <1>3, <1>4 DEF ExclusiveUntilExpiry
  <1>6. InHandIsRunning'
    <2> SUFFICES ASSUME NEW k \in Jobs, NEW v \in Workers, k \in batch'[v], job'[k].history = {}
                 PROVE  /\ job'[k].status = "running" /\ job'[k].worker_id = v
                        /\ job'[k].lease_until = held'[v]
      BY DEF InHandIsRunning
    <2>1. k # j
      BY <1>1, <1>3, <1>4 DEF ExclusiveUntilExpiry
    <2>2. held'[v] = held[v]
      BY <1>1, <2>1, <1>4 DEF TypeOK
    <2>3. QED BY <1>2, <1>4, <2>1, <2>2 DEF InHandIsRunning
  <1>7. InHandWasClaimed'
    BY <1>2, <1>3, <1>4 DEF InHandWasClaimed, Stored, TypeOK
  <1>8. AttemptsLeft'
    BY <1>2, <1>3, <1>1 DEF AttemptsLeft, InHandWasClaimed, Stored
  <1>9. FailedIsUsedUp'
    BY <1>2, <1>3 DEF FailedIsUsedUp
  <1>10. QED BY <1>5, <1>6, <1>7, <1>8, <1>9

\* An operator retry leaves its note in the history.
LEMMA RetryInv ==
  ASSUME Inv, TypeOK', NEW j \in Jobs, NEW d \in RetryDelays, RetryFailed(j, d)
  PROVE  Inv'
  <1> USE DEF Inv
  <1>1. batch' = batch /\ held' = held /\ Stored(j)
    BY DEF RetryFailed
  <1>2. /\ job'[j].status = "queued" /\ job'[j].history # {}
        /\ job'[j].attempts = job[j].attempts
    BY FieldTypes DEF RetryFailed, Retried, TypeOK, JobRecord
  <1>3. \A k \in Jobs \ {j} : job'[k] = job[k]
    BY DEF RetryFailed, TypeOK
  <1>4. ExclusiveUntilExpiry' /\ InHandIsRunning'
    BY <1>1, <1>2, <1>3 DEF ExclusiveUntilExpiry, InHandIsRunning
  <1>5. InHandWasClaimed'
    BY <1>1, <1>2, <1>3 DEF InHandWasClaimed, Stored, TypeOK
  <1>6. AttemptsLeft' /\ FailedIsUsedUp'
    BY <1>1, <1>2, <1>3 DEF AttemptsLeft, FailedIsUsedUp
  <1>7. QED BY <1>4, <1>5, <1>6

\* The lease of a job and of the batch it is in run down together.
LEMMA TickInv == ASSUME Inv, TypeOK', Tick PROVE Inv'
  <1> USE DEF Inv
  <1>1. batch' = batch /\ \A w \in Workers : held'[w] = Later(held[w])
    BY DEF Tick
  <1>2. \A j \in Jobs : /\ job'[j].status = job[j].status
                        /\ job'[j].attempts = job[j].attempts
                        /\ job'[j].worker_id = job[j].worker_id
                        /\ job'[j].history = job[j].history
                        /\ job'[j].lease_until = Later(job[j].lease_until)
    BY FieldTypes DEF Tick, Aged, JobRecord
  <1>3. ExclusiveUntilExpiry' /\ InHandIsRunning'
    BY <1>1, <1>2 DEF ExclusiveUntilExpiry, InHandIsRunning
  <1>4. InHandWasClaimed'
    BY <1>1, <1>2 DEF InHandWasClaimed, Stored, TypeOK
  <1>5. AttemptsLeft' /\ FailedIsUsedUp'
    BY <1>2 DEF AttemptsLeft, FailedIsUsedUp
  <1>6. QED BY <1>3, <1>4, <1>5

\* Steps that leave the document alone and take no job in hand.
LEMMA QuietInv ==
  ASSUME Inv, TypeOK', job' = job,
         \A w \in Workers : batch'[w] = {} \/ (batch'[w] = batch[w] /\ held'[w] = held[w])
  PROVE  Inv'
  BY DEF Inv, TypeOK, ExclusiveUntilExpiry, InHandIsRunning, InHandWasClaimed, Stored,
         AttemptsLeft, FailedIsUsedUp

\* Every step keeps the inductive invariant.
LEMMA InvStep == Inv /\ [Next]_vars => Inv'
  <1> SUFFICES ASSUME Inv, [Next]_vars PROVE Inv'
    OBVIOUS
  <1>0. TypeOK'
    BY TypeStep DEF Inv
  <1>1. ASSUME NEW j \in Jobs, NEW t \in RunAfters, Enqueue(j, t) PROVE Inv'
    BY <1>0, <1>1, EnqueueInv
  <1>2. ASSUME NEW w \in Workers, ReadClock(w) PROVE Inv'
    BY <1>0, <1>2, QuietInv DEF ReadClock
  <1>3. ASSUME NEW w \in Workers, Claim(w) PROVE Inv'
    BY <1>0, <1>3, ClaimInv
  <1>4. ASSUME NEW w \in Workers, Handling(w) PROVE Inv'
    BY <1>0, <1>4, QuietInv DEF Handling, HandlerReturns, HandlerRaises
  <1>5. ASSUME NEW w \in Workers, Settling(w) PROVE Inv'
    <2>1. ASSUME NEW j \in Jobs, Complete(w, j) \/ Fail(w, j) PROVE Inv'
      BY <1>0, <2>1, SettleInv
    <2>2. ASSUME NEW j \in Jobs, CompleteRaises(w, j) PROVE Inv'
      BY <1>0, <2>2, QuietInv DEF CompleteRaises
    <2>3. QED BY <1>5, <2>1, <2>2 DEF Settling
  <1>6. ASSUME NEW w \in Workers, Crash(w) PROVE Inv'
    <2>1. \A v \in Workers : batch'[v] = {} \/ (batch'[v] = batch[v] /\ held'[v] = held[v])
      BY <1>6 DEF Crash, Inv, TypeOK
    <2>2. QED BY <1>0, <1>6, <2>1, QuietInv DEF Crash
  <1>7. ASSUME NEW j \in Jobs, NEW d \in RetryDelays, RetryFailed(j, d) PROVE Inv'
    BY <1>0, <1>7, RetryInv
  <1>8. ASSUME Tick PROVE Inv'
    BY <1>0, <1>8, TickInv
  <1>9. CASE UNCHANGED vars
    BY <1>0, <1>9, QuietInv DEF vars
  <1>10. QED
    BY <1>1, <1>2, <1>3, <1>4, <1>5, <1>6, <1>7, <1>8, <1>9 DEF Next

-----------------------------------------------------------------------------
\* The inductive invariant holds in every reachable state.
LEMMA InvHolds == Spec => []Inv
  BY InitInv, InvStep, PTL DEF Spec

\* Type correctness of the store and of every worker, for all constants.
THEOREM TypeCorrect == Spec => []TypeOK
  <1>1. Inv => TypeOK
    BY DEF Inv
  <1>2. QED BY InvHolds, <1>1, PTL

\* However many workers share the store, two of them have the same job in hand
\* only after a lease of it ran out or an operator put it back.
THEOREM ClaimsAreExclusive == Spec => []ExclusiveUntilExpiry
  <1>1. Inv => ExclusiveUntilExpiry
    BY DEF Inv
  <1>2. QED BY InvHolds, <1>1, PTL

\* Until then the store agrees with the worker that has the job.
THEOREM StoreAgreesWithHolder == Spec => []InHandIsRunning
  <1>1. Inv => InHandIsRunning
    BY DEF Inv
  <1>2. QED BY InvHolds, <1>1, PTL

\* max_attempts bounds the claims of every job that never lost a lease.
THEOREM AttemptsBounded == Spec => []AttemptsWithinLimit
  <1>1. Inv => AttemptsWithinLimit
    BY FieldTypes, LimitType DEF Inv, AttemptsLeft, AttemptsWithinLimit
  <1>2. QED BY InvHolds, <1>1, PTL

-----------------------------------------------------------------------------
\* A step after which the same jobs are stored, each with its age.
AgesKeep ==
    \A j \in Jobs : /\ job'[j].created = job[j].created
                    /\ (job'[j].status # "absent") <=> (job[j].status # "absent")

\* No step forgets a job or changes its age, except enqueue for a new one.
LEMMA AgesKept ==
  ASSUME Inv, [Next]_vars
  PROVE  \/ \E j \in Jobs, t \in RunAfters : Enqueue(j, t)
         \/ AgesKeep
  <1> USE DEF Inv, AgesKeep, Stored
  <1>1. ASSUME NEW w \in Workers, Claim(w) PROVE AgesKeep
    <2>1. ASSUME NEW j \in Jobs
          PROVE  /\ Claimed(w, j).created = job[j].created
                 /\ Claimed(w, j).status = "running"
                 /\ Passed(w, j).created = job[j].created
                 /\ Passed(w, j).status # "absent" <=> Stored(j)
      BY FieldTypes DEF Claimed, Passed, Recoverable, JobRecord
    <2>2. \A j \in Claimable(w) : Stored(j)
      BY DEF Claimable, Visited
    <2>3. QED BY <1>1, <2>1, <2>2 DEF Claim
  <1>2. ASSUME NEW w \in Workers, NEW j \in Jobs, Complete(w, j) \/ Fail(w, j) PROVE AgesKeep
    <2>1. /\ Completed(j).created = job[j].created
          /\ Completed(j).status # "absent" <=> Stored(j)
      BY FieldTypes DEF Completed, AlreadySettled, JobRecord
    <2>2. /\ Failed(j).created = job[j].created
          /\ Failed(j).status # "absent" <=> Stored(j)
      <3>1. CASE job[j].status \in {"absent", "completed"}
        BY <3>1 DEF Failed, AlreadySettled, Retrying
      <3>2. CASE job[j].status \notin {"absent", "completed"}
        BY <3>2, FieldTypes DEF Failed, AlreadySettled, Retrying, JobRecord
      <3>3. QED BY <3>1, <3>2
    <2>3. QED BY <1>2, <2>1, <2>2 DEF Complete, Fail, TypeOK
  <1>3. ASSUME NEW j \in Jobs, NEW d \in RetryDelays, RetryFailed(j, d) PROVE AgesKeep
    <2>1. Retried(j, d).created = job[j].created /\ Retried(j, d).status = "queued"
      BY FieldTypes DEF Retried, JobRecord
    <2>2. QED BY <1>3, <2>1 DEF RetryFailed, TypeOK
  <1>4. ASSUME Tick PROVE AgesKeep
    <2>1. \A j \in Jobs : Aged(j).created = job[j].created /\ Aged(j).status = job[j].status
      BY FieldTypes DEF Aged, JobRecord
    <2>2. QED BY <1>4, <2>1 DEF Tick
  <1>5. ASSUME job' = job PROVE AgesKeep
    BY <1>5
  <1>6. QED
    BY <1>1, <1>2, <1>3, <1>4, <1>5
       DEF Next, vars, ReadClock, Handling, HandlerReturns, HandlerRaises, Settling,
           CompleteRaises, Crash

\* A new job is younger than all others.
LEMMA AgesStep == Inv /\ AgesDiffer /\ [Next]_vars => AgesDiffer'
  <1> SUFFICES ASSUME Inv, AgesDiffer, [Next]_vars PROVE AgesDiffer'
    OBVIOUS
  <1> DEFINE size == Cardinality(StoredJobs)
  <1>0. IsFiniteSet(StoredJobs) /\ size \in Nat
    BY JobsAssumption, FS_Subset, FS_CardinalityType DEF StoredJobs
  <1>1. ASSUME NEW j \in Jobs, NEW t \in RunAfters, Enqueue(j, t) PROVE AgesDiffer'
    <2>1. /\ job' = [job EXCEPT ![j] = Enqueued(j, t)]
          /\ j \notin StoredJobs
      BY <1>1 DEF Enqueue, StoredJobs
    <2>2. job'[j].status = "queued" /\ job'[j].created = size
      BY <2>1, FieldTypes DEF Inv, TypeOK, Enqueued, JobRecord, StoredJobs
    <2>3. \A k \in Jobs \ {j} : job'[k] = job[k]
      BY <2>1 DEF Inv, TypeOK
    <2>4. StoredJobs' = StoredJobs \union {j}
      BY <2>2, <2>3 DEF StoredJobs, Stored
    <2>5. Cardinality(StoredJobs') = size + 1
      BY <1>0, <2>1, <2>4, FS_AddElement
    <2>6. \A k \in StoredJobs : k # j /\ k \in Jobs /\ job'[k].created = job[k].created
      BY <2>1, <2>3 DEF StoredJobs
    <2>7. \A k \in StoredJobs : job[k].created < size /\ job[k].created \in Nat
      BY FieldTypes DEF AgesDiffer, StoredJobs, Inv
    <2>8. QED
      BY <1>0, <2>2, <2>4, <2>5, <2>6, <2>7 DEF AgesDiffer
  <1>2. CASE AgesKeep
    <2>1. StoredJobs' = StoredJobs
      BY <1>2 DEF StoredJobs, Stored, AgesKeep
    <2>2. \A j \in StoredJobs : job'[j].created = job[j].created
      BY <1>2 DEF StoredJobs, AgesKeep
    <2>3. QED BY <2>1, <2>2 DEF AgesDiffer
  <1>3. QED BY <1>1, <1>2, AgesKept

\* The job complete() is called for is the one whose handler returned.
LEMMA CompletingStep ==
  Inv /\ AgesDiffer /\ CompletingReturned /\ [Next]_vars => CompletingReturned'
  <1> SUFFICES ASSUME Inv, AgesDiffer, CompletingReturned, [Next]_vars,
                      NEW w \in Workers, NEW j \in Jobs, pc'[w] = "completing", First(w, j)'
               PROVE  j \in returned'
    BY DEF CompletingReturned
  <1>1. CASE \E k \in Jobs : HandlerReturns(w, k)
    <2> PICK k \in Jobs : HandlerReturns(w, k)
      BY <1>1
    <2>1. First(w, j) /\ First(w, k) /\ returned' = returned \union {k}
      BY DEF HandlerReturns, First
    <2>2. j \in StoredJobs /\ k \in StoredJobs
      BY <2>1 DEF First, Inv, InHandWasClaimed, StoredJobs
    <2>3. job[j].created = job[k].created
      BY <2>1, FieldTypes DEF First, Inv
    <2>4. QED BY <2>1, <2>2, <2>3 DEF AgesDiffer
  <1>2. CASE ~ \E k \in Jobs : HandlerReturns(w, k)
    <2>1. pc[w] = "completing" /\ batch'[w] = batch[w] /\ returned \subseteq returned'
      BY <1>2 DEF Next, vars, Enqueue, ReadClock, Claim, Handling, HandlerReturns,
                  HandlerRaises, Settling, Complete, CompleteRaises, Fail, NextInBatch, Crash,
                  RetryFailed, Tick, Inv, TypeOK
    <2>2. \A k \in batch[w] : job'[k].created = job[k].created
      <3>1. ASSUME NEW i \in Jobs, NEW t \in RunAfters, Enqueue(i, t),
                   NEW k \in batch[w]
            PROVE  job'[k] = job[k]
        BY <3>1 DEF Enqueue, Inv, InHandWasClaimed, TypeOK
      <3>2. CASE AgesKeep
        BY <3>2 DEF AgesKeep, Inv, TypeOK
      <3>3. QED BY <3>1, <3>2, AgesKept
    <2>3. First(w, j)
      BY <2>1, <2>2 DEF First
    <2>4. QED BY <2>1, <2>3 DEF CompletingReturned
  <1>3. QED BY <1>1, <1>2

-----------------------------------------------------------------------------
\* The abstract state as functions of the stored document.
Phases == [j \in Jobs |-> PhaseOf(job[j].status)]
Starts == [j \in Jobs |-> job[j].attempts]

\* A step that changes no phase, no count, no return and no retry stutters.
LEMMA Stutter ==
  ASSUME Phases' = Phases, Starts' = Starts, returned' = returned, retries' = retries
  PROVE  UNCHANGED Ledger!ledgerVars
  BY DEF Ledger!ledgerVars, Phases, Starts

\* claim_due starts the batch it claims, and leaves other jobs in their phase.
LEMMA ClaimRefines ==
  ASSUME TypeOK, NEW w \in Workers, Claim(w)
  PROVE  Ledger!Next \/ UNCHANGED Ledger!ledgerVars
  <1> DEFINE claimed == Claimable(w)
  <1>1. returned' = returned /\ retries' = retries /\ claimed \subseteq Jobs
    BY DEF Claim, Claimable
  <1>2. ASSUME NEW j \in Jobs, j \in claimed
        PROVE  /\ job[j].status \in {"queued", "running"}
               /\ job'[j].status = "running" /\ job'[j].attempts = NextAttempt(j)
    <2>1. job'[j] = Claimed(w, j)
      BY <1>2 DEF Claim
    <2>2. job[j].status \in {"queued", "running"}
      BY <1>2 DEF Claimable, Due, Recoverable
    <2>3. QED BY <2>1, <2>2, FieldTypes DEF Claimed, JobRecord
  <1>3. ASSUME NEW j \in Jobs, j \notin claimed
        PROVE  /\ job'[j].attempts = job[j].attempts
               /\ \/ job'[j].status = job[j].status
                  \/ job[j].status = "running" /\ job'[j].status = "queued"
    <2>1. job'[j] = Passed(w, j)
      BY <1>3 DEF Claim
    <2>2. QED BY <2>1, FieldTypes DEF Passed, Recoverable, JobRecord
  <1>4. Phases' = Phases
    BY <1>2, <1>3 DEF Phases, PhaseOf
  <1>5. CASE claimed = {}
    <2>1. Starts' = Starts
      BY <1>3, <1>5 DEF Starts
    <2>2. QED BY <1>1, <1>4, <2>1, Stutter
  <1>6. CASE claimed # {}
    <2>1. \A j \in claimed : Phases[j] = "open"
      BY <1>1, <1>2 DEF Phases, PhaseOf
    <2>2. Starts' = [j \in Jobs |-> IF j \in claimed /\ Starts[j] <= AttemptLimit[j]
                                   THEN Starts[j] + 1 ELSE Starts[j]]
      BY <1>2, <1>3 DEF Starts, NextAttempt
    <2>3. Ledger!Start(claimed)
      BY <1>1, <1>4, <1>6, <2>1, <2>2 DEF Ledger!Start, Phases, Starts
    <2>4. \E S \in SUBSET Jobs : Ledger!Start(S)
      BY <1>1, <2>3 DEF Ledger!Start
    <2>5. QED BY <2>4 DEF Ledger!Next
  <1>7. QED BY <1>5, <1>6

\* complete() finishes a job whose handler has returned.
LEMMA CompleteRefines ==
  ASSUME Inv, CompletingReturned, NEW w \in Workers, NEW j \in Jobs, Complete(w, j)
  PROVE  Ledger!Next \/ UNCHANGED Ledger!ledgerVars
  <1>0. TypeOK
    BY DEF Inv
  <1>1. /\ job' = [job EXCEPT ![j] = Completed(j)]
        /\ returned' = returned /\ retries' = retries /\ j \in returned
    BY DEF Complete, CompletingReturned
  <1>2. CASE job[j].status \in {"absent", "completed"}
    <2>1. job' = job
      BY <1>0, <1>1, <1>2 DEF Completed, AlreadySettled, TypeOK
    <2>2. QED BY <1>1, <2>1, Stutter DEF Phases, Starts
  <1>3. CASE job[j].status \notin {"absent", "completed"}
    <2>1. job'[j].status = "completed" /\ job'[j].attempts = job[j].attempts
      BY <1>0, <1>1, <1>3, FieldTypes DEF Completed, AlreadySettled, TypeOK, JobRecord
    <2>2. \A k \in Jobs \ {j} : job'[k] = job[k]
      BY <1>0, <1>1 DEF TypeOK
    <2>3. Starts' = Starts
      BY <2>1, <2>2 DEF Starts
    <2>4. Phases' = [Phases EXCEPT ![j] = "done"]
      BY <2>1, <2>2 DEF Phases, PhaseOf
    <2>5. Phases[j] \in {"open", "dead"}
      BY <1>0, <1>3, FieldTypes DEF Phases, PhaseOf, Statuses
    <2>6. Ledger!Finish(j)
      BY <1>1, <2>3, <2>4, <2>5 DEF Ledger!Finish, Phases, Starts
    <2>7. QED BY <2>6 DEF Ledger!Next
  <1>4. QED BY <1>2, <1>3

\* fail() leaves the job open or, its attempts used up, gives it up.
LEMMA FailRefines ==
  ASSUME Inv, NEW w \in Workers, NEW j \in Jobs, Fail(w, j)
  PROVE  Ledger!Next \/ UNCHANGED Ledger!ledgerVars
  <1>0. TypeOK /\ FailedIsUsedUp
    BY DEF Inv
  <1>1. /\ job' = [job EXCEPT ![j] = Failed(j)]
        /\ returned' = returned /\ retries' = retries
    BY DEF Fail
  <1>2. /\ \A k \in Jobs \ {j} : job'[k] = job[k]
        /\ job'[j] = Failed(j)
    BY <1>0, <1>1 DEF TypeOK
  <1>3. job[j].attempts \in Nat /\ AttemptLimit[j] \in Nat /\ job[j] \in JobRecord
    BY <1>0, FieldTypes, LimitType
  <1>4. CASE job[j].status \in {"absent", "completed"}
    <2>1. job' = job
      BY <1>0, <1>1, <1>4 DEF Failed, AlreadySettled, Retrying, TypeOK
    <2>2. QED BY <1>1, <2>1, Stutter DEF Phases, Starts
  <1>5. CASE job[j].status \notin {"absent", "completed"} /\ job[j].attempts < AttemptLimit[j]
    <2>1. job'[j].status = "queued" /\ job'[j].attempts = job[j].attempts
      BY <1>2, <1>3, <1>5 DEF Failed, AlreadySettled, Retrying, JobRecord
    <2>2. job[j].status \in {"queued", "running"}
      BY <1>0, <1>3, <1>5 DEF JobRecord, Statuses, FailedIsUsedUp
    <2>3. Phases' = Phases /\ Starts' = Starts
      BY <1>2, <2>1, <2>2 DEF Phases, Starts, PhaseOf
    <2>4. QED BY <1>1, <2>3, Stutter
  <1>6. CASE job[j].status \notin {"absent", "completed"} /\ ~(job[j].attempts < AttemptLimit[j])
    <2>1. job'[j].status = "failed" /\ job'[j].attempts = job[j].attempts
      BY <1>2, <1>3, <1>6 DEF Failed, AlreadySettled, Retrying, JobRecord
    <2>2. Starts' = Starts
      BY <1>2, <2>1 DEF Starts
    <2>3. Phases' = [Phases EXCEPT ![j] = "dead"]
      BY <1>2, <2>1 DEF Phases, PhaseOf
    <2>4. CASE job[j].status = "failed"
      <3>1. Phases' = Phases
        BY <2>3, <2>4 DEF Phases, PhaseOf
      <3>2. QED BY <1>1, <2>2, <3>1, Stutter
    <2>5. CASE job[j].status # "failed"
      <3>1. Phases[j] = "open" /\ Starts[j] >= AttemptLimit[j]
        BY <1>3, <1>6, <2>5 DEF Phases, Starts, PhaseOf, JobRecord, Statuses
      <3>2. Ledger!GiveUp(j)
        BY <1>1, <2>2, <2>3, <3>1 DEF Ledger!GiveUp, Phases, Starts
      <3>3. QED BY <3>2 DEF Ledger!Next
    <2>6. QED BY <2>4, <2>5
  <1>7. QED BY <1>4, <1>5, <1>6

\* Every step of the queue is a step of the ledger, or changes nothing in it.
LEMMA StepRefines ==
  Inv /\ CompletingReturned /\ [Next]_vars => [Ledger!Next]_(Ledger!ledgerVars)
  <1> SUFFICES ASSUME Inv, CompletingReturned, [Next]_vars
               PROVE  Ledger!Next \/ UNCHANGED Ledger!ledgerVars
    OBVIOUS
  <1>0. TypeOK
    BY DEF Inv
  <1>1. ASSUME NEW j \in Jobs, NEW t \in RunAfters, Enqueue(j, t) PROVE Ledger!Next
    <2>1. job' = [job EXCEPT ![j] = Enqueued(j, t)] /\ job[j].status = "absent"
      BY <1>1 DEF Enqueue, Stored
    <2>2. job'[j].status = "queued" /\ job'[j].attempts = job[j].attempts
      BY <1>0, <2>1, FieldTypes DEF Enqueued, TypeOK, JobRecord
    <2>3. \A k \in Jobs \ {j} : job'[k] = job[k]
      BY <1>0, <2>1 DEF TypeOK
    <2>4. Phases' = [Phases EXCEPT ![j] = "open"] /\ Phases[j] = "absent"
      BY <2>1, <2>2, <2>3 DEF Phases, PhaseOf
    <2>5. Starts' = Starts
      BY <2>2, <2>3 DEF Starts
    <2>6. Ledger!Submit(j)
      BY <1>1, <2>4, <2>5 DEF Enqueue, Ledger!Submit, Phases, Starts
    <2>7. QED BY <2>6 DEF Ledger!Next
  <1>2. ASSUME NEW w \in Workers, NEW j \in Jobs, HandlerReturns(w, j) PROVE Ledger!Next
    <2>1. Starts[j] > 0
      BY <1>2 DEF Starts, HandlerReturns, First, Inv, InHandWasClaimed
    <2>2. Ledger!Return(j)
      BY <1>2, <2>1 DEF HandlerReturns, Ledger!Return, Phases, Starts
    <2>3. QED BY <2>2 DEF Ledger!Next
  <1>3. ASSUME NEW j \in Jobs, NEW d \in RetryDelays, RetryFailed(j, d) PROVE Ledger!Next
    <2>1. job' = [job EXCEPT ![j] = Retried(j, d)] /\ job[j].status # "absent"
      BY <1>3 DEF RetryFailed, Stored
    <2>2. job'[j].status = "queued" /\ job'[j].attempts = job[j].attempts
      BY <1>0, <2>1, FieldTypes DEF Retried, TypeOK, JobRecord
    <2>3. \A k \in Jobs \ {j} : job'[k] = job[k]
      BY <1>0, <2>1 DEF TypeOK
    <2>4. Phases' = [Phases EXCEPT ![j] = "open"] /\ Phases[j] # "absent"
      BY <1>0, <2>1, <2>2, <2>3, FieldTypes DEF Phases, PhaseOf, Statuses
    <2>5. Starts' = Starts
      BY <2>2, <2>3 DEF Starts
    <2>6. Ledger!Reopen(j)
      BY <1>3, <2>4, <2>5 DEF RetryFailed, Ledger!Reopen, Phases, Starts
    <2>7. QED BY <2>6 DEF Ledger!Next
  <1>4. ASSUME Tick PROVE UNCHANGED Ledger!ledgerVars
    <2>1. \A j \in Jobs : job'[j].status = job[j].status /\ job'[j].attempts = job[j].attempts
      BY <1>0, <1>4, FieldTypes DEF Tick, Aged, JobRecord
    <2>2. Phases' = Phases /\ Starts' = Starts
      BY <2>1 DEF Phases, Starts
    <2>3. QED BY <1>4, <2>2, Stutter DEF Tick
  <1>5. ASSUME job' = job, returned' = returned, retries' = retries
        PROVE  UNCHANGED Ledger!ledgerVars
    BY <1>5, Stutter DEF Phases, Starts
  <1>6. QED
    BY <1>0, <1>1, <1>2, <1>3, <1>4, <1>5, ClaimRefines, CompleteRefines, FailRefines
       DEF Next, vars, ReadClock, Handling, HandlerRaises, Settling, CompleteRaises, Crash

\* The durable queue, with all its workers, leases and late settlements, keeps
\* the promise of the ledger: no job is completed whose handler never returned,
\* none is given up with attempts left, and only an operator reopens one.
THEOREM ImplementsLedger == Spec => LedgerSpec
  <1>1. Init => Ledger!Init
    BY DEF Init, NewJob, Ledger!Init, PhaseOf
  <1>2. Init => AgesDiffer /\ CompletingReturned
    BY DEF Init, NewJob, AgesDiffer, CompletingReturned, StoredJobs, Stored
  <1>3. QED
    BY <1>1, <1>2, InitInv, InvStep, AgesStep, CompletingStep, StepRefines, PTL
       DEF Spec, LedgerSpec, Ledger!Spec
=============================================================================
