----------------------------- MODULE RateLimiter -----------------------------
(***************************************************************************)
(* The two rate limiters of flaxon (security/rate_limit.py), for one key.  *)
(*                                                                         *)
(* RateLimiter keeps a deque of the times of the requests it admitted.     *)
(* Its lock is free whenever check() asks for it, so that check() is one   *)
(* step.  DistributedRateLimiter keeps every attempt in a sorted set in    *)
(* Redis, in one transaction per check.                                    *)
(*                                                                         *)
(* Times are ages, in ticks; a clock has TicksPerSecond of them, windows   *)
(* and answers are in seconds.                                             *)
(***************************************************************************)
EXTENDS Integers, Sequences, FiniteSets

CONSTANTS Limit,          \* requests admitted per window
          WindowSeconds,  \* window_seconds
          TicksPerSecond, \* the resolution of the clock
          MaxAttempts     \* bound: attempts the distributed limiter remembers

ASSUME RateAssumption ==
    /\ Limit \in Nat \ {0} /\ WindowSeconds \in Nat \ {0}
    /\ TicksPerSecond \in Nat \ {0} /\ MaxAttempts \in Nat

VARIABLES
    bucket,      \* ages of the requests in the deque, in the order of the deque
    admissions,  \* history: ages of all that were admitted in the last window
    attempts,    \* ages of the attempts in the sorted set
    grants       \* history: ages of those the distributed limiter allowed

rateVars == <<bucket, admissions, attempts, grants>>

Window == WindowSeconds * TicksPerSecond
\* Beyond the window all ages are the same to the code.
Stale == Window + 1
Ages == 0..Stale

RateTypeOK ==
    /\ bucket \in Seq(Ages) /\ Len(bucket) <= Limit
    /\ admissions \in Seq(0..Window) /\ grants \in Seq(0..Window)
    /\ attempts \in Seq(Ages) /\ Len(attempts) <= MaxAttempts

RateInit == bucket = <<>> /\ admissions = <<>> /\ attempts = <<>> /\ grants = <<>>

Aged(ages, ticks) == [i \in DOMAIN ages |-> IF ages[i] + ticks > Stale THEN Stale ELSE ages[i] + ticks]

\* What is left of ages when those before the first that is at most `oldest` go.
Since(ages, oldest) ==
    LET gone == CHOOSE n \in 0..Len(ages) :
                    /\ \A i \in 1..n : ages[i] > oldest
                    /\ n < Len(ages) => ages[n + 1] <= oldest
    IN  SubSeq(ages, gone + 1, Len(ages))

Within(ages) == Since(ages, Window)

-----------------------------------------------------------------------------
(* RateLimiter *)

\* Mutant of Pruned: all that is not older than the window goes, too.
PrunedEarly(ages) == Since(ages, Window - 1)

\* The deque, from whose head all that is before the cutoff was taken.
Pruned(ages) == Since(ages, Window)

Admissible(ages) == Len(Pruned(ages)) < Limit

\* check()
Check ==
    /\ bucket' = IF Admissible(bucket) THEN Append(Pruned(bucket), 0) ELSE Pruned(bucket)
    /\ admissions' = IF Admissible(bucket) THEN Append(admissions, 0) ELSE admissions
    /\ UNCHANGED <<attempts, grants>>

\* get_remaining()
Remaining(ages) == Limit - Len(Pruned(ages))

\* get_retry_after(): whole seconds until the oldest request leaves the window.
RetryAfter(ages) ==
    IF Admissible(ages) THEN 0 ELSE (Window - Head(Pruned(ages))) \div TicksPerSecond + 1

\* get_remaining() and get_retry_after() prune the deque as they read it.
Ask ==
    /\ bucket' = Pruned(bucket)
    /\ UNCHANGED <<admissions, attempts, grants>>

-----------------------------------------------------------------------------
(* DistributedRateLimiter *)

\* zremrangebyscore removes what is as old as the window.  The set is sorted by time.
InWindow(ages) == Since(ages, Window - 1)

\* check(): the attempts are counted before this one is added, which it is
\* whether it is allowed or not.
CheckShared ==
    /\ Len(InWindow(attempts)) < MaxAttempts
    /\ attempts' = Append(InWindow(attempts), 0)
    /\ grants' = IF Len(InWindow(attempts)) < Limit THEN Append(grants, 0) ELSE grants
    /\ UNCHANGED <<bucket, admissions>>

Tick ==
    /\ bucket' = Aged(bucket, 1) /\ attempts' = Aged(attempts, 1)
    /\ admissions' = Within(Aged(admissions, 1))
    /\ grants' = Within(Aged(grants, 1))

RateNext == Check \/ Ask \/ CheckShared \/ Tick

RateSpec == RateInit /\ [][RateNext]_rateVars

-----------------------------------------------------------------------------
\* No window of window_seconds, ends included, sees more than the limit
\* admitted; in the distributed limiter, no window without its first instant.
WindowsBounded ==
    /\ Len(admissions) <= Limit
    /\ Cardinality({i \in DOMAIN grants : grants[i] < Window}) <= Limit

\* Whoever is refused and comes back after the seconds of Retry-After is
\* admitted if nobody else is before, however the clock's ticks fall; and it is
\* told to wait at all only if it would be refused now.
RetryAfterSuffices ==
    /\ Admissible(Aged(bucket, RetryAfter(bucket) * TicksPerSecond))
    /\ RetryAfter(bucket) > 0 <=> Remaining(bucket) = 0

\* The limit is kept in every window, and what a refused caller is told is enough.
LimitsHold == WindowsBounded /\ RetryAfterSuffices
=============================================================================
