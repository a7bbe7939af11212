------------------------------ MODULE JobLedger ------------------------------
(***************************************************************************)
(* What flaxon's durable job queue promises to the code that enqueues      *)
(* jobs, with no store, worker, lease or clock: a job that was submitted   *)
(* stays open until a handler has returned for it (it is done) or its      *)
(* attempts are used up (it is given up), and after that only an operator  *)
(* opens it again.                                                         *)
(***************************************************************************)
EXTENDS Integers

CONSTANTS Jobs,         \* the job ids
          AttemptLimit  \* the number of attempts each job is allowed

VARIABLES phase,     \* of each job: "absent", "open", "done" or "dead"
          attempts,  \* how often each job was started (exact up to the limit)
          returned,  \* the jobs whose handler has returned at least once
          reopened   \* how often an operator opened a job again

ledgerVars == <<phase, attempts, returned, reopened>>

Init ==
    /\ phase = [j \in Jobs |-> "absent"]
    /\ attempts = [j \in Jobs |-> 0]
    /\ returned = {}
    /\ reopened = 0

Submit(j) ==
    /\ phase[j] = "absent"
    /\ phase' = [phase EXCEPT ![j] = "open"]
    /\ UNCHANGED <<attempts, returned, reopened>>

\* A batch of open jobs is started; the count saturates one past the limit.
Start(S) ==
    /\ S # {}
    /\ \A j \in S : phase[j] = "open"
    /\ attempts' = [j \in Jobs |->
                       IF j \in S /\ attempts[j] <= AttemptLimit[j]
                       THEN attempts[j] + 1 ELSE attempts[j]]
    /\ UNCHANGED <<phase, returned, reopened>>

\* The handler of a job that was started returns.
Return(j) ==
    /\ attempts[j] > 0
    /\ returned' = returned \union {j}
    /\ UNCHANGED <<phase, attempts, reopened>>

\* A late success also settles a job that was given up meanwhile.
Finish(j) ==
    /\ phase[j] \in {"open", "dead"}
    /\ j \in returned
    /\ phase' = [phase EXCEPT ![j] = "done"]
    /\ UNCHANGED <<attempts, returned, reopened>>

GiveUp(j) ==
    /\ phase[j] = "open"
    /\ attempts[j] >= AttemptLimit[j]
    /\ phase' = [phase EXCEPT ![j] = "dead"]
    /\ UNCHANGED <<attempts, returned, reopened>>

\* The operator puts a job back.
Reopen(j) ==
    /\ phase[j] # "absent"
    /\ phase' = [phase EXCEPT ![j] = "open"]
    /\ reopened' = reopened + 1
    /\ UNCHANGED <<attempts, returned>>

Next ==
    \/ \E j \in Jobs : Submit(j) \/ Return(j) \/ Finish(j) \/ GiveUp(j) \/ Reopen(j)
    \/ \E S \in SUBSET Jobs : Start(S)

Spec == Init /\ [][Next]_ledgerVars
=============================================================================
