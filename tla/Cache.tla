-------------------------------- MODULE Cache --------------------------------
(***************************************************************************)
(* One key of the in-process cache (caching/cache.py), the callers of      *)
(* get_or_set() and whoever changes what the value is computed from and    *)
(* deletes the key then.  The lock is held across no await, so that every  *)
(* method is one step but get_or_set(), which computes without it.         *)
(*                                                                         *)
(* A value is the version of the source that it was computed from.         *)
(***************************************************************************)
EXTENDS Integers

CONSTANTS Callers,     \* callers of get_or_set()
          DefaultTtl,  \* default_ttl, in ticks
          MaxVersions, \* bound: changes of the source
          MaxClock,    \* bound: ticks
          MaxExpiry    \* bound: the latest expiry; touch() moves it without limit

ASSUME CacheAssumption ==
    /\ DefaultTtl \in Nat \ {0} /\ MaxVersions \in Nat /\ MaxClock \in Nat
    /\ MaxExpiry \in Nat /\ MaxExpiry >= MaxClock + DefaultTtl

VARIABLES
    entry,     \* the value, when it expires, when it was created
    source,    \* the source's current version
    calls,     \* where each call of get_or_set() is, and the value it has
    clock,     \* time.time()
    deleted,   \* history: the version at the last delete()
    overtaken  \* history: the calls that computed an older value than that

cacheVars == <<entry, source, calls, clock, deleted, overtaken>>

NoValue == -1
Values == 0..MaxVersions
NoEntry == [value |-> NoValue, expires |-> 0, created |-> 0, late |-> FALSE]
NotCalling == [at |-> "away", value |-> NoValue]

CacheTypeOK ==
    /\ \/ entry = NoEntry
       \/ entry \in [value : Values, expires : 0..MaxExpiry, created : 0..MaxClock, late : BOOLEAN]
    /\ source \in Values /\ deleted \in Values /\ clock \in 0..MaxClock
    /\ calls \in [Callers -> [at : {"away", "computing", "computed"}, value : Values \union {NoValue}]]
    /\ overtaken \subseteq Callers

CacheInit ==
    /\ entry = NoEntry /\ source = 0 /\ clock = 0 /\ deleted = 0
    /\ calls = [c \in Callers |-> NotCalling] /\ overtaken = {}

Expired(e) == e # NoEntry /\ clock > e.expires
Hit == entry # NoEntry /\ ~Expired(entry)

\* get() and exists() drop what has expired.
Drop ==
    /\ Expired(entry) /\ entry' = NoEntry
    /\ UNCHANGED <<source, calls, clock, deleted, overtaken>>

\* get_or_set() gets: a hit is the answer, after a miss it computes.
Misses(c) ==
    /\ calls[c].at = "away" /\ ~Hit
    /\ entry' = NoEntry
    /\ calls' = [calls EXCEPT ![c].at = "computing"]
    /\ UNCHANGED <<source, clock, deleted, overtaken>>

\* func() reads the source; it may take its time before and after that.
Computes(c) ==
    /\ calls[c].at = "computing"
    /\ calls' = [calls EXCEPT ![c] = [at |-> "computed", value |-> source]]
    /\ UNCHANGED <<entry, source, clock, deleted, overtaken>>

\* set() with the value, whatever has happened to the key since.
Stores(c) ==
    /\ calls[c].at = "computed"
    /\ entry' = [value |-> calls[c].value, expires |-> clock + DefaultTtl, created |-> clock,
                 late |-> c \in overtaken]
    /\ calls' = [calls EXCEPT ![c] = NotCalling]
    /\ overtaken' = overtaken \ {c}
    /\ UNCHANGED <<source, clock, deleted>>

\* func() raises, or the caller is cancelled.
Raises(c) ==
    /\ calls[c].at # "away"
    /\ calls' = [calls EXCEPT ![c] = NotCalling]
    /\ overtaken' = overtaken \ {c}
    /\ UNCHANGED <<entry, source, clock, deleted>>

\* The source changes; who changed it will delete the key.
Change ==
    /\ source < MaxVersions /\ source' = source + 1
    /\ UNCHANGED <<entry, calls, clock, deleted, overtaken>>

\* Mutant of WithoutKey: the entry is made to expire.
ExpiredNow(e) == IF e = NoEntry THEN e ELSE [e EXCEPT !.expires = clock]

WithoutKey(e) == NoEntry

\* delete(), delete_many() and clear()
Delete ==
    /\ deleted < source
    /\ entry' = WithoutKey(entry) /\ deleted' = source
    /\ overtaken' = {c \in Callers : calls[c].at = "computed" /\ calls[c].value < source}
    /\ UNCHANGED <<source, calls, clock>>

\* expire() with a ttl, on an expired entry as well.
ExpireIn ==
    /\ entry # NoEntry
    /\ entry' = [entry EXCEPT !.expires = clock + DefaultTtl]
    /\ UNCHANGED <<source, calls, clock, deleted, overtaken>>

\* touch(), which does not look whether the entry has expired either; created
\* stays, so that the interval it renews grows.
Touch ==
    /\ entry # NoEntry /\ clock + entry.expires - entry.created <= MaxExpiry
    /\ entry' = [entry EXCEPT !.expires = clock + entry.expires - entry.created]
    /\ UNCHANGED <<source, calls, clock, deleted, overtaken>>

CacheTick ==
    /\ clock < MaxClock /\ clock' = clock + 1
    /\ UNCHANGED <<entry, source, calls, deleted, overtaken>>

CacheNext ==
    \/ \E c \in Callers : Misses(c) \/ Computes(c) \/ Stores(c) \/ Raises(c)
    \/ Drop \/ Change \/ Delete \/ ExpireIn \/ Touch \/ CacheTick

CacheSpec == CacheInit /\ [][CacheNext]_cacheVars

-----------------------------------------------------------------------------
\* What delete() took away does not come back, though touch() and expire() revive
\* what has expired: a value older than the last deletion is in the cache only
\* because a get_or_set() had computed it by then and stored it afterwards.
DeletedStaysAway ==
    entry # NoEntry /\ entry.value < deleted => entry.late
=============================================================================
