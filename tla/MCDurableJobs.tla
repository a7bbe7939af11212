---------------------------- MODULE MCDurableJobs ----------------------------
(* Instances of DurableJobs for TLC: a job that may be tried Attempts times *)
(* and a job enqueued with max_attempts=0, which the code raises to one.    *)
EXTENDS DurableJobs, TLC

CONSTANTS j1, j2, Attempts

MCMaxAttempts == [j \in Jobs |-> IF j = j1 THEN Attempts ELSE 0]
MCRunAfters == {-MaxLag}

\* The workers differ in nothing but their name.
MCSymmetry == Permutations(Workers)
=============================================================================
