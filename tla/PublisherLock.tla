---------------------------- MODULE PublisherLock ----------------------------
(***************************************************************************)
(* The publisher of the CMS (admin/cms.py) in several processes that share *)
(* a Redis: each round of its loop asks for a lock that expires, publishes *)
(* if it got it, and gives it back if it is still its own.  What a round   *)
(* publishes is ContentStore.  Redis is external: SET NX EX and the script *)
(* that compares and deletes are atomic, and either may be carried out     *)
(* though its answer never comes.                                          *)
(*                                                                         *)
(* Tokens are drawn anew for every round; since a process asks again only  *)
(* after its round, its name stands for its last one.                      *)
(***************************************************************************)
EXTENDS Naturals

CONSTANTS Publishers, \* processes with the publisher's task
          LockTtl     \* publisher_lock_ttl, in ticks

NoToken == "no token"

ASSUME PublisherAssumption == LockTtl \in Nat \ {0} /\ NoToken \notin Publishers

VARIABLES
    lockKey,  \* whose token is at the key
    round,    \* where each process's _publish_loop is
    stopping, \* processes whose _stop_publisher waits for the loop
    lease     \* ticks until the key that each has set last expires

publisherVars == <<lockKey, round, stopping, lease>>

\* "asked" is answered by "granted" or "refused"; "dead" is a task that an error ended.
Rounds == {"off", "asleep", "asked", "granted", "refused", "publishing", "releasing", "dead"}

PublisherTypeOK ==
    /\ lockKey \in Publishers \union {NoToken}
    /\ round \in [Publishers -> Rounds]
    /\ stopping \subseteq Publishers
    /\ lease \in [Publishers -> 0..LockTtl]

PublisherInit ==
    /\ lockKey = NoToken
    /\ round = [p \in Publishers |-> "off"]
    /\ stopping = {}
    /\ lease = [p \in Publishers |-> 0]

Turns(p, from, to) == round[p] \in from /\ round' = [round EXCEPT ![p] = to]

-----------------------------------------------------------------------------
\* _start_publisher(), once in a process; the first round begins at once.
StartLoop(p) ==
    /\ Turns(p, {"off"}, "asked")
    /\ UNCHANGED <<lockKey, stopping, lease>>

\* The pause of publish_interval is over.
AsksForLock(p) ==
    /\ Turns(p, {"asleep"}, "asked")
    /\ UNCHANGED <<lockKey, stopping, lease>>

\* Redis: SET key token NX EX publisher_lock_ttl
SetsKey(p) ==
    /\ IF lockKey = NoToken
       THEN /\ Turns(p, {"asked"}, "granted")
            /\ lockKey' = p /\ lease' = [lease EXCEPT ![p] = LockTtl]
       ELSE Turns(p, {"asked"}, "refused") /\ UNCHANGED <<lockKey, lease>>
    /\ UNCHANGED stopping

\* Its answer comes, however late.
AnswerComes(p) ==
    /\ Turns(p, {"granted"}, "publishing") \/ Turns(p, {"refused"}, "asleep")
    /\ UNCHANGED <<lockKey, stopping, lease>>

\* The end of the round, or a cancellation in it, comes to the finally clause.
EndsRound(p) ==
    /\ Turns(p, {"publishing"}, "releasing")
    /\ UNCHANGED <<lockKey, stopping, lease>>

\* Mutant of GivenBack: the key is deleted whoever's it is.
DeletedKey(p) == NoToken

\* Redis: the script that deletes the key if it holds the token
GivenBack(p) == IF lockKey = p THEN NoToken ELSE lockKey

\* A cancelled loop ends, the others sleep, unless the round has raised.
Releases(p) ==
    /\ \E to \in IF p \in stopping THEN {"off"} ELSE {"asleep", "dead"} : Turns(p, {"releasing"}, to)
    /\ lockKey' = GivenBack(p) /\ stopping' = stopping \ {p}
    /\ UNCHANGED lease

\* Redis does not answer, or has carried the command out before: nobody catches the
\* error, and it ends the task.
RedisFails(p) ==
    /\ \/ Turns(p, {"asked", "granted", "refused"}, "dead") /\ UNCHANGED lockKey
       \/ Turns(p, {"releasing"}, "dead") /\ lockKey' \in {lockKey, GivenBack(p)}
    /\ stopping' = stopping \ {p}
    /\ UNCHANGED lease

\* _stop_publisher(): the loop is cancelled where it waits; in a round the lock is
\* given back first, but one that was granted without an answer is left, and
\* so may be one that was about to be given back.
StopLoop(p) ==
    /\ \/ /\ Turns(p, {"asleep", "asked", "granted", "refused"}, "off") /\ UNCHANGED stopping
          /\ UNCHANGED lockKey
       \/ /\ Turns(p, {"publishing"}, "releasing") /\ stopping' = stopping \union {p}
          /\ UNCHANGED lockKey
       \/ /\ Turns(p, {"releasing"}, "off") /\ p \notin stopping /\ UNCHANGED stopping
          /\ lockKey' \in {lockKey, GivenBack(p)}
    /\ UNCHANGED lease

\* The process dies; another one takes its place.
PublisherDies(p) ==
    /\ Turns(p, Rounds \ {"off"}, "off")
    /\ stopping' = stopping \ {p}
    /\ UNCHANGED <<lockKey, lease>>

\* Time passes, for Redis too.
LockTick ==
    /\ \E p \in Publishers : lease[p] > 0
    /\ lease' = [p \in Publishers |-> IF lease[p] > 0 THEN lease[p] - 1 ELSE 0]
    /\ lockKey' = IF lockKey # NoToken /\ lease'[lockKey] = 0 THEN NoToken ELSE lockKey
    /\ UNCHANGED <<round, stopping>>

PublisherNext ==
    \/ \E p \in Publishers :
          \/ StartLoop(p) \/ AsksForLock(p) \/ SetsKey(p) \/ AnswerComes(p) \/ EndsRound(p)
          \/ Releases(p) \/ RedisFails(p) \/ StopLoop(p) \/ PublisherDies(p)
    \/ LockTick

PublisherSpec == PublisherInit /\ [][PublisherNext]_publisherVars

-----------------------------------------------------------------------------
\* Two processes publish at once only when a lock has expired under one of them:
\* until then nothing takes it away, neither a process whose own lock has
\* expired, nor one that was stopped, died or lost its Redis in any of its steps.
OnePublisher ==
    \A p \in Publishers : round[p] = "publishing" /\ lease[p] > 0 =>
        /\ lockKey = p
        /\ \A q \in Publishers \ {p} : round[q] = "publishing" => lease[q] = 0
=============================================================================
