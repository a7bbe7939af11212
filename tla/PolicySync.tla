------------------------------ MODULE PolicySync ------------------------------
(***************************************************************************)
(* RedisPolicySynchronizer (admin/authorization.py): workers reload their  *)
(* authorization policy when they hear that it has changed.  The policy is *)
(* the application's, by its version; it saves a version and publishes     *)
(* that there is one.  Redis pub/sub is external: it keeps a message for   *)
(* the workers that are subscribed by then, and for no other.              *)
(***************************************************************************)
EXTENDS Naturals, FiniteSets

CONSTANTS Enforcers,    \* workers, each with its enforcer
          MaxPolicies,  \* bound: versions after the first
          MaxTroubles   \* bound: reloads that fail, subscriptions that are closed

ASSUME PolicyAssumption == IsFiniteSet(Enforcers) /\ MaxPolicies \in Nat /\ MaxTroubles \in Nat

VARIABLES
    policy,     \* the version that is stored
    announced,  \* versions that were published
    loaded,     \* the version that each worker goes by
    loading,    \* the version that a worker's load_policy() has read, NotRead before
    doing,      \* where each worker's listen() is
    inbox,      \* messages that its subscription holds
    heard,      \* history: the last version published while it was subscribed
    troubles    \* reloads that failed, subscriptions that were closed

policyVars == <<policy, announced, loaded, loading, doing, inbox, heard, troubles>>

Policies == 0..MaxPolicies
NotRead == MaxPolicies + 1
Subscribed == {w \in Enforcers : doing[w] \in {"waiting", "reloading"}}

PolicyTypeOK ==
    /\ policy \in Policies /\ announced \subseteq Policies
    /\ loaded \in [Enforcers -> Policies] /\ loading \in [Enforcers -> Policies \union {NotRead}]
    /\ doing \in [Enforcers -> {"away", "waiting", "reloading"}]
    /\ inbox \in [Enforcers -> 0..MaxPolicies] /\ heard \in [Enforcers -> Policies]
    /\ troubles \in 0..MaxTroubles

PolicyInit ==
    /\ policy = 0 /\ announced = {0} /\ loaded = [w \in Enforcers |-> 0]
    /\ loading = [w \in Enforcers |-> NotRead] /\ doing = [w \in Enforcers |-> "away"]
    /\ inbox = [w \in Enforcers |-> 0] /\ heard = [w \in Enforcers |-> 0] /\ troubles = 0

-----------------------------------------------------------------------------
\* The application stores a policy.
SavePolicy ==
    /\ policy < MaxPolicies /\ policy' = policy + 1
    /\ UNCHANGED <<announced, loaded, loading, doing, inbox, heard, troubles>>

\* publish(), after the version was stored; publications may overtake each other.
PublishPolicy(version) ==
    /\ version <= policy /\ version \notin announced /\ announced' = announced \union {version}
    /\ inbox' = [w \in Enforcers |-> IF w \in Subscribed THEN inbox[w] + 1 ELSE inbox[w]]
    /\ heard' = [w \in Enforcers |->
                    IF w \in Subscribed /\ version > heard[w] THEN version ELSE heard[w]]
    /\ UNCHANGED <<policy, loaded, loading, doing, troubles>>

\* listen_once(): the first one subscribes.
SubscribePolicy(w) ==
    /\ doing[w] = "away" /\ doing' = [doing EXCEPT ![w] = "waiting"]
    /\ UNCHANGED <<policy, announced, loaded, loading, inbox, heard, troubles>>

\* It gets a message and reloads.
TakePolicyMessage(w) ==
    /\ doing[w] = "waiting" /\ inbox[w] > 0
    /\ inbox' = [inbox EXCEPT ![w] = @ - 1] /\ doing' = [doing EXCEPT ![w] = "reloading"]
    /\ UNCHANGED <<policy, announced, loaded, loading, heard, troubles>>

\* load_policy() reads the policy, and goes by it when all of it is read.
ReadPolicy(w) ==
    /\ doing[w] = "reloading" /\ loading[w] = NotRead
    /\ loading' = [loading EXCEPT ![w] = policy]
    /\ UNCHANGED <<policy, announced, loaded, doing, inbox, heard, troubles>>

\* Mutant of Reloaded: messages that came during the reload count as answered.
ReloadedForAll(w) ==
    /\ loading[w] # NotRead
    /\ loaded' = [loaded EXCEPT ![w] = loading[w]] /\ loading' = [loading EXCEPT ![w] = NotRead]
    /\ doing' = [doing EXCEPT ![w] = "waiting"] /\ inbox' = [inbox EXCEPT ![w] = 0]
    /\ UNCHANGED <<policy, announced, heard, troubles>>

Reloaded(w) ==
    /\ loading[w] # NotRead
    /\ loaded' = [loaded EXCEPT ![w] = loading[w]] /\ loading' = [loading EXCEPT ![w] = NotRead]
    /\ doing' = [doing EXCEPT ![w] = "waiting"]
    /\ UNCHANGED <<policy, announced, inbox, heard, troubles>>

\* The reload raises: listen() ends, with its message taken.
ReloadRaises(w) ==
    /\ doing[w] = "reloading" /\ troubles < MaxTroubles /\ troubles' = troubles + 1
    /\ loading' = [loading EXCEPT ![w] = NotRead] /\ doing' = [doing EXCEPT ![w] = "waiting"]
    /\ heard' = [heard EXCEPT ![w] = 0]
    /\ UNCHANGED <<policy, announced, loaded, inbox>>

\* close(): what the subscription holds is gone; a later listen_once() subscribes
\* again.
ClosePolicies(w) ==
    /\ doing[w] = "waiting" /\ troubles < MaxTroubles /\ troubles' = troubles + 1
    /\ doing' = [doing EXCEPT ![w] = "away"] /\ inbox' = [inbox EXCEPT ![w] = 0]
    /\ heard' = [heard EXCEPT ![w] = 0]
    /\ UNCHANGED <<policy, announced, loaded, loading>>

PolicyNext ==
    \/ SavePolicy \/ \E version \in Policies : PublishPolicy(version)
    \/ \E w \in Enforcers :
          \/ SubscribePolicy(w) \/ TakePolicyMessage(w) \/ ReadPolicy(w) \/ Reloaded(w)
          \/ ReloadRaises(w) \/ ClosePolicies(w)

PolicySpec == PolicyInit /\ [][PolicyNext]_policyVars

-----------------------------------------------------------------------------
\* A worker whose subscription holds no message, and that is not reloading, goes
\* by a policy at least as new as the last one published to it, also when that
\* was published during a reload; except for a message whose reload failed or
\* that was closed away.  What was published while it was away it need not know.
PolicyArrives ==
    \A w \in Enforcers : doing[w] = "waiting" /\ inbox[w] = 0 => loaded[w] >= heard[w]
===============================================================================
