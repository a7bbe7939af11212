--------------------------- MODULE Application_proofs ---------------------------
(***************************************************************************)
(* What six parts of a running application guarantee, for any number of    *)
(* callers, contexts, handlers, plugins and dispatches, any limit and      *)
(* window, any layers in any order, any routes: the cache, which does not  *)
(* give back what was deleted, the lifespan, which exits what it entered,  *)
(* the rate limiters, which keep their limits, the events, which reach     *)
(* whoever listens to them, the exchange, which is answered once, and the  *)
(* router, which finds the best route.                                     *)
(***************************************************************************)
EXTENDS Cache, Lifespan, RateLimiter, EventDispatch, Exchange, Routing, SequenceTheorems,
        FiniteSetTheorems, WellFoundedInduction, TLAPS

-----------------------------------------------------------------------------
(* The cache *)

CacheEntry == [value : Values, expires : 0..MaxExpiry, created : 0..MaxClock, late : BOOLEAN]

Computed(c) == calls[c].at = "computed"

\* A call that has computed an older value than the last deletion is known to be late.
LateIsKnown ==
    /\ deleted <= source
    /\ \A c \in Callers : Computed(c) => /\ calls[c].value \in Values
                                         /\ calls[c].value < deleted => c \in overtaken

\* An entry was created at some time before now, so that touch() sets a time to expire.
CreatedBefore == entry # NoEntry => entry.created <= clock

CacheInv == CacheTypeOK /\ LateIsKnown /\ CreatedBefore /\ DeletedStaysAway

LEMMA CacheParts ==
  ASSUME CacheInv
  PROVE  /\ source \in Nat /\ deleted \in Nat /\ clock \in Nat /\ deleted <= source
         /\ source \in Values /\ deleted \in Values /\ clock \in 0..MaxClock /\ MaxVersions \in Nat
         /\ calls \in [Callers -> [at : {"away", "computing", "computed"}, value : Values \union {NoValue}]]
         /\ entry = NoEntry \/ (entry \in CacheEntry /\ entry.created <= clock)
         /\ overtaken \subseteq Callers /\ NoEntry.value \notin Values
  BY CacheAssumption DEF CacheInv, CacheTypeOK, LateIsKnown, CreatedBefore, CacheEntry, Values, NoEntry, NoValue

\* A step that leaves the source, the deletion and the calls alone and keeps the entry's
\* value or drops it.
LEMMA EntryStepKeeps ==
  ASSUME CacheInv, UNCHANGED <<source, calls, deleted, overtaken>>, clock' \in clock..MaxClock,
         \/ entry' = NoEntry \/ entry' = entry
         \/ /\ entry' \in CacheEntry /\ entry \in CacheEntry
            /\ entry'.value = entry.value /\ entry'.late = entry.late /\ entry'.created = entry.created
  PROVE  CacheInv'
  <1>1. CacheTypeOK'
    BY CacheParts DEF CacheTypeOK, CacheEntry
  <1>2. LateIsKnown'
    BY DEF CacheInv, LateIsKnown, Computed
  <1>3. entry' # NoEntry => /\ entry # NoEntry /\ entry'.value = entry.value
                            /\ entry'.late = entry.late /\ entry'.created = entry.created
    BY CacheParts DEF CacheEntry
  <1>4. DeletedStaysAway'
    BY <1>3 DEF CacheInv, DeletedStaysAway
  <1>5. CreatedBefore'
    <2>1. ASSUME entry' # NoEntry PROVE /\ entry \in CacheEntry /\ entry.created <= clock
                                       /\ entry'.created = entry.created
      BY <1>3, <2>1, CacheParts
    <2>2. ASSUME entry' # NoEntry PROVE entry'.created <= clock'
      <3>1. entry.created \in Nat
        BY <2>1, <2>2, CacheAssumption DEF CacheEntry
      <3>2. QED
        BY <2>1, <2>2, <3>1, CacheParts
    <2>3. QED
      BY <2>2 DEF CreatedBefore
  <1>6. QED
    BY <1>1, <1>2, <1>4, <1>5 DEF CacheInv

\* A call goes to another stage; with a value, if it has one, of the source as it is.
LEMMA CallStepKeeps ==
  ASSUME CacheInv, NEW c \in Callers, UNCHANGED <<source, clock, deleted>>,
         calls' \in [Callers -> [at : {"away", "computing", "computed"}, value : Values \union {NoValue}]],
         \A d \in Callers \ {c} : calls'[d] = calls[d],
         Computed(c)' => calls'[c].value = source,
         overtaken \ {c} \subseteq overtaken', overtaken' \subseteq overtaken,
         entry' = NoEntry \/ entry' = entry
  PROVE  CacheInv'
  <1>1. CacheTypeOK'
    BY CacheParts DEF CacheTypeOK, CacheEntry
  <1>2. LateIsKnown'
    <2>1. \A d \in Callers \ {c} : Computed(d)' => Computed(d) /\ calls'[d].value = calls[d].value
      BY DEF Computed
    <2>2. QED
      BY <2>1, CacheParts DEF CacheInv, LateIsKnown
  <1>3. DeletedStaysAway' /\ CreatedBefore'
    BY DEF CacheInv, DeletedStaysAway, CreatedBefore
  <1>4. QED
    BY <1>1, <1>2, <1>3 DEF CacheInv

LEMMA CacheNextKeeps ==
  ASSUME CacheInv, [CacheNext]_cacheVars
  PROVE  CacheInv'
  <1>1. ASSUME NEW c \in Callers, Misses(c) PROVE CacheInv'
    <2>1. /\ calls' \in [Callers -> [at : {"away", "computing", "computed"}, value : Values \union {NoValue}]]
          /\ \A d \in Callers \ {c} : calls'[d] = calls[d]
          /\ ~Computed(c)'
      BY <1>1, CacheParts DEF Misses, Computed
    <2>2. QED
      BY <1>1, <2>1, CallStepKeeps DEF Misses
  <1>2. ASSUME NEW c \in Callers, Computes(c) PROVE CacheInv'
    <2>1. /\ calls' \in [Callers -> [at : {"away", "computing", "computed"}, value : Values \union {NoValue}]]
          /\ \A d \in Callers \ {c} : calls'[d] = calls[d]
          /\ calls'[c].value = source
      BY <1>2, CacheParts DEF Computes
    <2>2. QED
      BY <1>2, <2>1, CallStepKeeps DEF Computes
  <1>3. ASSUME NEW c \in Callers, calls' = [calls EXCEPT ![c] = NotCalling]
        PROVE  /\ calls' \in [Callers -> [at : {"away", "computing", "computed"}, value : Values \union {NoValue}]]
               /\ \A d \in Callers \ {c} : calls'[d] = calls[d]
               /\ ~Computed(c)'
    BY <1>3, CacheParts DEF Computed, NotCalling
  <1>4. ASSUME NEW c \in Callers, Raises(c) PROVE CacheInv'
    BY <1>3, <1>4, CallStepKeeps DEF Raises
  <1>5. ASSUME NEW c \in Callers, Stores(c) PROVE CacheInv'
    <2>1. /\ Computed(c) /\ calls[c].value \in Values /\ (calls[c].value < deleted => c \in overtaken)
          /\ UNCHANGED <<source, clock, deleted>> /\ overtaken' = overtaken \ {c}
          /\ entry' = [value |-> calls[c].value, expires |-> clock + DefaultTtl, created |-> clock,
                       late |-> c \in overtaken]
      BY <1>5 DEF Stores, Computed, CacheInv, LateIsKnown
    <2>2. /\ entry'.value = calls[c].value /\ (entry'.late <=> c \in overtaken)
      BY <2>1
    <2>3. entry' \in CacheEntry
      <3>1. clock + DefaultTtl \in 0..MaxExpiry /\ clock \in 0..MaxClock
        BY CacheParts, CacheAssumption
      <3>2. QED
        BY <2>1, <3>1 DEF CacheEntry
    <2>4. CacheTypeOK'
      BY <1>3, <1>5, <2>1, <2>3, CacheParts DEF CacheTypeOK, CacheEntry, Stores
    <2>5. LateIsKnown'
      <3>1. \A d \in Callers : Computed(d)' => d # c /\ Computed(d) /\ calls'[d].value = calls[d].value
        BY <1>3, <1>5 DEF Computed, Stores
      <3>2. QED
        BY <2>1, <3>1 DEF CacheInv, LateIsKnown
    <2>6. DeletedStaysAway'
      BY <2>1, <2>2 DEF DeletedStaysAway
    <2>7. CreatedBefore'
      BY <2>1, CacheParts DEF CreatedBefore
    <2>8. QED
      BY <2>4, <2>5, <2>6, <2>7 DEF CacheInv
  <1>6. CASE Change
    <2>1. /\ source' = source + 1 /\ source < MaxVersions
          /\ UNCHANGED <<entry, calls, clock, deleted, overtaken>>
      BY <1>6 DEF Change
    <2>2. source' \in Values /\ deleted <= source'
      BY <2>1, CacheParts DEF Values
    <2>3. QED
      BY <2>1, <2>2 DEF CacheInv, CacheTypeOK, LateIsKnown, CreatedBefore, DeletedStaysAway, Computed
  <1>7. CASE Delete
    <2>1. /\ entry' = NoEntry /\ deleted' = source
          /\ \A c \in Callers : Computed(c) /\ calls[c].value < source => c \in overtaken'
          /\ overtaken' \subseteq Callers /\ UNCHANGED <<source, calls, clock>>
      BY <1>7 DEF Delete, WithoutKey, Computed
    <2>2. CacheTypeOK'
      BY <2>1, CacheParts DEF CacheTypeOK
    <2>3. LateIsKnown'
      BY <2>1, CacheParts DEF CacheInv, LateIsKnown, Computed
    <2>4. QED
      BY <2>1, <2>2, <2>3 DEF CacheInv, DeletedStaysAway, CreatedBefore
  <1>8. CASE Drop \/ UNCHANGED cacheVars
    BY <1>8, EntryStepKeeps, CacheParts DEF Drop, cacheVars
  <1>9. CASE ExpireIn
    <2>1. /\ entry \in CacheEntry /\ entry' = [entry EXCEPT !.expires = clock + DefaultTtl]
          /\ UNCHANGED <<source, calls, clock, deleted, overtaken>>
      BY <1>9, CacheParts DEF ExpireIn
    <2>2. clock + DefaultTtl \in 0..MaxExpiry
      BY CacheParts, CacheAssumption
    <2>3. /\ entry' \in CacheEntry /\ entry'.value = entry.value
          /\ entry'.late = entry.late /\ entry'.created = entry.created
      BY <2>1, <2>2 DEF CacheEntry
    <2>4. QED
      BY <2>1, <2>3, EntryStepKeeps, CacheParts
  <1>10. CASE Touch
    <2>1. /\ entry \in CacheEntry /\ entry' = [entry EXCEPT !.expires = clock + entry.expires - entry.created]
          /\ clock + entry.expires - entry.created <= MaxExpiry
          /\ UNCHANGED <<source, calls, clock, deleted, overtaken>>
      BY <1>10, CacheParts DEF Touch
    <2>2. clock + entry.expires - entry.created \in 0..MaxExpiry
      <3>1. /\ entry.created \in Nat /\ entry.expires \in Nat /\ entry.created <= clock
            /\ clock \in Nat /\ MaxExpiry \in Nat
        BY <2>1, CacheParts, CacheAssumption DEF CacheEntry, NoEntry
      <3>2. QED
        BY <2>1, <3>1
    <2>3. /\ entry' \in CacheEntry /\ entry'.value = entry.value
          /\ entry'.late = entry.late /\ entry'.created = entry.created
      BY <2>1, <2>2 DEF CacheEntry
    <2>4. QED
      BY <2>1, <2>3, EntryStepKeeps, CacheParts
  <1>11. CASE CacheTick
    <2>1. clock' \in clock..MaxClock
      BY <1>11, CacheParts, CacheAssumption DEF CacheTick
    <2>2. QED
      BY <1>11, <2>1, EntryStepKeeps DEF CacheTick
  <1>12. QED
    BY <1>1, <1>2, <1>4, <1>5, <1>6, <1>7, <1>8, <1>9, <1>10, <1>11 DEF CacheNext

LEMMA AlwaysCacheInv == CacheSpec => []CacheInv
  <1>1. CacheInit => CacheInv
    BY CacheAssumption
    DEF CacheInit, CacheInv, CacheTypeOK, LateIsKnown, CreatedBefore, DeletedStaysAway, Computed,
        NotCalling, NoValue, NoEntry, Values
  <1>2. QED
    BY <1>1, CacheNextKeeps, PTL DEF CacheSpec

\* The cache holds nothing or an entry of the record's shape, whose times touch() and
\* expire() keep in their range; the calls of get_or_set() are at one of three places.
THEOREM CacheTypeCorrect == CacheSpec => []CacheTypeOK
  BY AlwaysCacheInv, PTL DEF CacheInv

\* What delete() took away does not come back by touch(), expire() or a later
\* get_or_set(): only a call that had computed the value before the deletion and
\* stores it after brings it back.
THEOREM DeletedDoesNotReturn == CacheSpec => []DeletedStaysAway
  BY AlwaysCacheInv, PTL DEF CacheInv

-----------------------------------------------------------------------------
(* The lifespan *)

\* The groups of phases that the invariant tells apart.
Resting(p) == p \in {"waiting", "failed", "stopped"}
Entering(p) == p = "entering"
Starting(p) == p = "starting"
Leaving(p) == p \in {"unwinding", "closing"}
Running(p) == p \in {"plugging", "serving"}
Ending(p) == p \in {"unplugging", "stopping"}

LEMMA Groups ==
  ASSUME NEW p
  PROVE  /\ Resting(p) => ~(Entering(p) \/ Starting(p) \/ Leaving(p) \/ Running(p) \/ Ending(p))
         /\ Entering(p) => ~(Starting(p) \/ Leaving(p) \/ Running(p) \/ Ending(p))
         /\ Starting(p) => ~(Leaving(p) \/ Running(p) \/ Ending(p))
         /\ Leaving(p) => ~(Running(p) \/ Ending(p))
         /\ Running(p) => ~Ending(p)
  BY DEF Resting, Entering, Starting, Leaving, Running, Ending

\* The contexts are in the order they were entered in, from the first.
Counts(s) == \A i \in DOMAIN s : s[i] = i

\* The stack whose contexts are to be exited: the lifecycle's, or the coroutine's own.
Held == IF stack = NoStack THEN local ELSE stack

\* What is open is what somebody holds.
Orderly ==
    /\ Counts(open) /\ Counts(Held) /\ Len(open) = Len(Held)
    /\ Running(phase) \/ Ending(phase) \/ Resting(phase) => local = <<>>
    /\ ~Running(phase) /\ ~Ending(phase) => stack = NoStack
    /\ Entering(phase) => Len(local) = step
    /\ Starting(phase) => Len(local) = Contexts
    /\ Running(phase) => stack # NoStack /\ Len(stack) = Contexts

LifespanInv ==
    /\ LifespanTypeOK
    /\ excused = FALSE => Orderly /\ disorder = FALSE

ExitStacks == {NoStack} \union Seq(1..Contexts)

LEMMA LifespanParts ==
  ASSUME LifespanInv
  PROVE  /\ stack \in ExitStacks /\ local \in Seq(1..Contexts) /\ open \in Seq(1..Contexts)
         /\ Contexts \in Nat /\ Handlers \in Nat /\ Plugins \in Nat /\ step \in 0..Contexts + Handlers + Plugins
         /\ boots \in 0..MaxBoots /\ MaxBoots \in Nat
  BY LifespanAssumption DEF LifespanInv, LifespanTypeOK, ExitStacks

LEMMA OneMore ==
  ASSUME NEW s \in Seq(1..Contexts), Counts(s), Contexts \in Nat, Len(s) < Contexts
  PROVE  /\ Append(s, Len(s) + 1) \in Seq(1..Contexts)
         /\ Counts(Append(s, Len(s) + 1)) /\ Len(Append(s, Len(s) + 1)) = Len(s) + 1
  BY DEF Counts

LEMMA PartOf ==
  ASSUME NEW S, NEW s \in Seq(S), NEW m \in 1..Len(s) + 1, NEW n \in 0..Len(s)
  PROVE  /\ SubSeq(s, m, n) \in Seq(S)
         /\ Len(SubSeq(s, m, n)) = IF m <= n THEN n - m + 1 ELSE 0
         /\ \A i \in 1 .. n - m + 1 : SubSeq(s, m, n)[i] = s[m + i - 1]
  <1>1. m \in Int /\ n \in Int /\ \A i \in m..n : s[i] \in S
    OBVIOUS
  <1>2. QED
    BY <1>1, SubSeqProperties

LEMMA WithoutOne ==
  ASSUME NEW s \in Seq(1..Contexts), NEW i \in DOMAIN s
  PROVE  RemoveAt(s, i) \in Seq(1..Contexts)
  <1>1. /\ i - 1 \in 0..Len(s) /\ i + 1 \in 1..Len(s) + 1 /\ 1 \in 1..Len(s) + 1
        /\ Len(s) \in 0..Len(s)
    OBVIOUS
  <1>2. SubSeq(s, 1, i-1) \in Seq(1..Contexts) /\ SubSeq(s, i+1, Len(s)) \in Seq(1..Contexts)
    BY <1>1, PartOf
  <1>3. QED
    BY <1>2 DEF RemoveAt

LEMMA WithoutLast ==
  ASSUME NEW s \in Seq(1..Contexts), s # <<>>, Counts(s)
  PROVE  /\ Front(s) \in Seq(1..Contexts) /\ Counts(Front(s)) /\ Len(Front(s)) = Len(s) - 1
         /\ Last(s) = Len(s) /\ Last(s) \in 1..Contexts
         /\ \A i \in DOMAIN s : s[i] = Len(s) =>
               RemoveAt(s, i) \in Seq(1..Contexts) /\ Counts(RemoveAt(s, i)) /\ Len(RemoveAt(s, i)) = Len(s) - 1
  <1>1. Len(s) \in Nat \ {0} /\ s[Len(s)] = Len(s) /\ s[Len(s)] \in 1..Contexts
    BY LifespanAssumption DEF Counts
  <1>2. /\ Front(s) \in Seq(1..Contexts) /\ Len(Front(s)) = Len(s) - 1
        /\ \A i \in 1..Len(s) - 1 : Front(s)[i] = s[i]
    <2>1. 1 \in 1..Len(s) + 1 /\ Len(s) - 1 \in 0..Len(s)
      BY <1>1
    <2>2. /\ Front(s) \in Seq(1..Contexts)
          /\ Len(Front(s)) = IF 1 <= Len(s) - 1 THEN (Len(s) - 1) - 1 + 1 ELSE 0
          /\ \A i \in 1..(Len(s) - 1) - 1 + 1 : Front(s)[i] = s[1 + i - 1]
      BY <2>1, PartOf DEF Front
    <2>3. Len(Front(s)) = Len(s) - 1
      <3>1. PICK n \in Nat \ {0} : n = Len(s)
        BY <1>1
      <3>2. Len(Front(s)) = IF 1 <= n - 1 THEN (n - 1) - 1 + 1 ELSE 0
        BY <2>2, <3>1
      <3>3. Len(Front(s)) = n - 1
        BY <3>2
      <3>4. QED
        BY <3>1, <3>3
    <2>4. ASSUME NEW i \in 1..Len(s) - 1 PROVE Front(s)[i] = s[i]
      <3>1. 1 + i - 1 = i /\ i \in 1..(Len(s) - 1) - 1 + 1
        BY <1>1
      <3>2. QED
        BY <2>2, <3>1
    <2>5. QED
      BY <2>2, <2>3, <2>4
  <1>3. Counts(Front(s))
    BY <1>1, <1>2 DEF Counts
  <1>4. ASSUME NEW i \in DOMAIN s, s[i] = Len(s) PROVE RemoveAt(s, i) = Front(s) \o <<>>
    <2>1. i = Len(s)
      BY <1>4 DEF Counts
    <2>2. SubSeq(s, i+1, Len(s)) = <<>>
      BY <2>1, <1>1
    <2>3. QED
      BY <2>1, <2>2 DEF RemoveAt, Front
  <1>5. Front(s) \o <<>> = Front(s)
    BY <1>2
  <1>6. QED
    BY <1>1, <1>2, <1>3, <1>4, <1>5 DEF Last

LEMMA ShorterOf ==
  ASSUME NEW s \in Seq(1..Contexts), s # <<>>
  PROVE  Front(s) \in Seq(1..Contexts)
  <1>1. 1 \in 1..Len(s) + 1 /\ Len(s) - 1 \in 0..Len(s)
    OBVIOUS
  <1>2. QED
    BY <1>1, PartOf DEF Front

\* What a step has to say of the phases, apart from the numbers.
LEMMA KeepsTypes ==
  ASSUME LifespanInv, local' \in Seq(1..Contexts), open' \in Seq(1..Contexts), stack' \in ExitStacks,
         step' \in 0..Contexts + Handlers + Plugins, boots' \in 0..MaxBoots,
         excused' \in BOOLEAN, disorder' \in BOOLEAN,
         phase' \in {"waiting", "entering", "starting", "unwinding", "plugging", "failed",
                     "serving", "unplugging", "stopping", "closing", "stopped"}
  PROVE  LifespanTypeOK'
  BY DEF LifespanTypeOK, ExitStacks

\* A step that moves no context: what is held stays held, and the phase fits it.
LEMMA ContextsStay ==
  ASSUME LifespanInv, UNCHANGED <<local, open, stack, disorder>>, step' \in Nat,
         excused' = FALSE => excused = FALSE,
         excused' = FALSE /\ Orderly =>
            /\ Running(phase') \/ Ending(phase') \/ Resting(phase') => local = <<>>
            /\ ~Running(phase') /\ ~Ending(phase') => stack = NoStack
            /\ Entering(phase') => Len(local) = step'
            /\ Starting(phase') => Len(local) = Contexts
            /\ Running(phase') => stack # NoStack /\ Len(stack) = Contexts
  PROVE  excused' = FALSE => Orderly' /\ disorder' = FALSE
  BY DEF LifespanInv, Orderly, Held, Counts

LEMMA LeavesInOrder ==
  ASSUME LifespanInv, Leaving(phase), local # <<>>, Exits(Last(local)), local' = Front(local),
         UNCHANGED <<phase, step, stack, boots, excused>>
  PROVE  LifespanInv'
  <1>1. PICK i \in DOMAIN open : open[i] = Last(local) /\ open' = RemoveAt(open, i)
    BY DEF Exits
  <1>2. open' \in Seq(1..Contexts) /\ local' \in Seq(1..Contexts)
    BY <1>1, LifespanParts, WithoutOne, ShorterOf
  <1>3. disorder' \in BOOLEAN
    BY DEF Exits, LifespanInv, LifespanTypeOK
  <1>4. LifespanTypeOK'
    BY <1>2, <1>3 DEF LifespanInv, LifespanTypeOK
  <1>5. ASSUME excused = FALSE PROVE Orderly' /\ disorder' = FALSE
    <2>1. /\ Orderly /\ stack = NoStack /\ Counts(open) /\ Counts(local) /\ Len(open) = Len(local)
      BY <1>5, Groups DEF LifespanInv, Orderly, Held
    <2>2. /\ Counts(Front(local)) /\ Len(Front(local)) = Len(local) - 1 /\ Last(local) = Len(local)
      BY <2>1, WithoutLast, LifespanParts
    <2>3. open # <<>>
      BY <1>1, LifespanParts
    <2>4. /\ Counts(open') /\ Len(open') = Len(open) - 1 /\ Last(open) = Len(open)
      BY <1>1, <2>1, <2>2, <2>3, WithoutLast, LifespanParts
    <2>5. disorder' = FALSE
      <3>1. Last(open) = Last(local)
        BY <2>1, <2>2, <2>4
      <3>2. disorder = FALSE
        BY <1>5 DEF LifespanInv
      <3>3. QED
        BY <3>1, <3>2 DEF Exits
    <2>6. Held' = local'
      BY <2>1 DEF Held
    <2>7. Counts(Held') /\ Len(open') = Len(Held')
      BY <2>1, <2>2, <2>4, <2>6
    <2>8. QED
      BY <2>1, <2>4, <2>5, <2>7, Groups DEF Orderly
  <1>6. QED
    BY <1>4, <1>5 DEF LifespanInv

\* A context is entered, and nothing else changes.
LEMMA EntersInOrder ==
  ASSUME LifespanInv, EnterContext
  PROVE  LifespanInv'
  <1>1. /\ Entering(phase) /\ phase' = phase /\ step < Contexts /\ step' = step + 1
        /\ local' = Append(local, step + 1) /\ open' = Append(open, step + 1)
        /\ UNCHANGED <<stack, boots, excused, disorder>>
    BY DEF EnterContext, Proceeds, Entering
  <1>2. step + 1 \in 1..Contexts /\ step' \in 0..Contexts + Handlers + Plugins
    BY <1>1, LifespanParts
  <1>3. open' \in Seq(1..Contexts) /\ local' \in Seq(1..Contexts)
    BY <1>1, <1>2, LifespanParts
  <1>4. LifespanTypeOK'
    BY <1>1, <1>2, <1>3 DEF LifespanInv, LifespanTypeOK
  <1>5. ASSUME excused = FALSE PROVE Orderly'
    <2>1. /\ stack = NoStack /\ Counts(open) /\ Counts(local)
          /\ Len(open) = Len(local) /\ Len(local) = step
      BY <1>1, <1>5, Groups DEF LifespanInv, Orderly, Held
    <2>2. /\ Counts(local') /\ Len(local') = step + 1 /\ Counts(open') /\ Len(open') = step + 1
      BY <1>1, <2>1, OneMore, LifespanParts
    <2>3. Held' = local'
      BY <1>1, <2>1 DEF Held
    <2>4. Counts(Held') /\ Len(open') = Len(Held')
      BY <2>2, <2>3
    <2>5. QED
      BY <1>1, <2>1, <2>2, <2>4, Groups DEF Orderly
  <1>6. QED
    BY <1>1, <1>4, <1>5 DEF LifespanInv

\* The steps that move no context and leave what is held with whom it is.
LEMMA QuietSteps ==
  ASSUME LifespanInv,
         \/ Boot \/ ContextsEntered \/ CallStartup \/ StartupRaises \/ Unwound \/ StartPlugin \/ PluginRaises
         \/ Serve \/ Stop \/ StopPlugin \/ PluginsStopped \/ CallShutdown \/ Closed \/ Again
  PROVE  LifespanInv'
  <1> DEFINE Steps == 0..Contexts + Handlers + Plugins
             Phases == {"waiting", "entering", "starting", "unwinding", "plugging", "failed",
                        "serving", "unplugging", "stopping", "closing", "stopped"}
  <1>1. 0 \in Steps /\ Contexts \in Nat
    BY LifespanParts
  <1>2. /\ UNCHANGED <<local, open, stack, disorder>>
        /\ phase' \in Phases /\ (excused' = TRUE \/ excused' = excused)
    BY DEF Boot, ContextsEntered, CallStartup, StartupRaises, Unwound, StartPlugin, PluginRaises, Serve,
           Stop, StopPlugin, PluginsStopped, CallShutdown, Closed, Again, Proceeds, LifespanInv, LifespanTypeOK
  <1>3. boots' \in 0..MaxBoots
    <2>1. CASE Boot
      <3>1. boots < MaxBoots /\ boots' = boots + 1
        BY <2>1 DEF Boot
      <3>2. QED
        BY <3>1, LifespanParts
    <2>2. CASE ~Boot
      <3>1. boots' = boots
        BY <2>2 DEF ContextsEntered, CallStartup, StartupRaises, Unwound, StartPlugin, PluginRaises, Serve,
               Stop, StopPlugin, PluginsStopped, CallShutdown, Closed, Again
      <3>2. QED
        BY <3>1, LifespanParts
    <2>3. QED
      BY <2>1, <2>2
  <1>4. step' \in Steps
    <2>1. CASE CallStartup \/ CallShutdown
      <3>1. step < Handlers /\ step' = step + 1
        BY <2>1 DEF CallStartup, CallShutdown, Proceeds
      <3>2. QED
        BY <3>1, LifespanParts
    <2>2. CASE StartPlugin \/ StopPlugin
      <3>1. step < Plugins /\ step' = step + 1
        BY <2>2 DEF StartPlugin, StopPlugin, Proceeds
      <3>2. QED
        BY <3>1, LifespanParts
    <2>3. CASE ~(CallStartup \/ CallShutdown \/ StartPlugin \/ StopPlugin)
      <3>1. step' = 0
        BY <2>3 DEF Boot, ContextsEntered, StartupRaises, Unwound, PluginRaises, Serve, Stop,
                    PluginsStopped, Closed, Again, Proceeds
      <3>2. QED
        BY <1>1, <3>1
    <2>4. QED
      BY <2>1, <2>2, <2>3
  <1>5. excused \in BOOLEAN /\ excused' \in BOOLEAN /\ disorder \in BOOLEAN
    BY <1>2 DEF LifespanInv, LifespanTypeOK
  <1>6. LifespanTypeOK'
    BY <1>2, <1>3, <1>4, <1>5, LifespanParts, KeepsTypes
  <1>7. excused' = FALSE => excused = FALSE
    BY <1>2, <1>5
  <1>8. \/ Boot \/ ContextsEntered \/ CallStartup \/ Unwound \/ Closed \/ excused' = TRUE
        \/ StartupRaises \/ Again
        \/ phase' = phase /\ (Running(phase) \/ Ending(phase))
        \/ Running(phase) /\ (Running(phase') \/ Ending(phase'))
        \/ Ending(phase) /\ Ending(phase')
        \/ Resting(phase) /\ Ending(phase')
    BY DEF StartPlugin, PluginRaises, Serve, Stop, StopPlugin, PluginsStopped, CallShutdown, Proceeds,
           Running, Ending, Resting
  <1>9. /\ Boot => /\ Resting(phase)
                   /\ IF stack # NoStack THEN Running(phase') ELSE Entering(phase') /\ step' = 0
        /\ ContextsEntered => Entering(phase) /\ Starting(phase') /\ step = Contexts
        /\ CallStartup => Starting(phase) /\ Starting(phase')
        /\ Unwound \/ Closed => Leaving(phase) /\ local = <<>> /\ Resting(phase')
        /\ StartupRaises => (Entering(phase) \/ Starting(phase)) /\ Leaving(phase')
        /\ Again => Resting(phase) /\ Resting(phase')
    BY DEF Boot, ContextsEntered, CallStartup, Unwound, Closed, StartupRaises, Again, Proceeds,
           Resting, Entering, Starting, Leaving, Running
  <1>10. ASSUME excused' = FALSE, Orderly
         PROVE  /\ Running(phase') \/ Ending(phase') \/ Resting(phase') => local = <<>>
                /\ ~Running(phase') /\ ~Ending(phase') => stack = NoStack
                /\ Entering(phase') => Len(local) = step'
                /\ Starting(phase') => Len(local) = Contexts
                /\ Running(phase') => stack # NoStack /\ Len(stack) = Contexts
    <2>1. Len(<<>>) = 0
      OBVIOUS
    <2>2. CASE Boot
      BY <1>9, <1>10, <2>1, <2>2, Groups DEF Orderly
    <2>3. CASE ContextsEntered \/ CallStartup \/ StartupRaises
      BY <1>9, <1>10, <2>3, Groups DEF Orderly
    <2>4. CASE Unwound \/ Closed \/ Again
      BY <1>9, <1>10, <2>4, Groups DEF Orderly
    <2>5. CASE \/ phase' = phase /\ (Running(phase) \/ Ending(phase))
               \/ Running(phase) /\ (Running(phase') \/ Ending(phase'))
               \/ Ending(phase) /\ Ending(phase')
               \/ Resting(phase) /\ Ending(phase')
      BY <1>10, <2>5, Groups DEF Orderly
    <2>6. QED
      BY <1>8, <1>10, <2>2, <2>3, <2>4, <2>5
  <1>11. step' \in Nat
    BY <1>4, LifespanParts
  <1>12. excused' = FALSE => Orderly' /\ disorder' = FALSE
    BY <1>2, <1>7, <1>10, <1>11, ContextsStay
  <1>13. QED
    BY <1>6, <1>12 DEF LifespanInv

\* The stack changes hands: from startup() to the lifecycle, or back for shutdown().
LEMMA HandedOver ==
  ASSUME LifespanInv, Started \/ ShutdownEnds
  PROVE  LifespanInv'
  <1>1. UNCHANGED <<open, boots, excused, disorder>> /\ step' = 0
    BY DEF Started, ShutdownEnds, Proceeds
  <1>2. CASE Started
    <2>1. /\ Starting(phase) /\ Running(phase') /\ stack' = local /\ local' = <<>>
      BY <1>2 DEF Started, Proceeds, Starting, Running
    <2>2. LifespanTypeOK'
      <3>1. phase' = "plugging" /\ excused' \in BOOLEAN /\ disorder' \in BOOLEAN
        BY <1>1, <1>2 DEF Started, Proceeds, LifespanInv, LifespanTypeOK
      <3>2. /\ local' \in Seq(1..Contexts) /\ open' \in Seq(1..Contexts) /\ stack' \in ExitStacks
            /\ step' \in 0..Contexts + Handlers + Plugins /\ boots' \in 0..MaxBoots
        BY <1>1, <2>1, LifespanParts DEF ExitStacks
      <3>3. QED
        BY <3>1, <3>2, KeepsTypes
    <2>3. stack' # NoStack
      <3>1. ASSUME local = NoStack PROVE FALSE
        <4>1. local[1] = 0 /\ 1 \in DOMAIN local
          BY <3>1 DEF NoStack
        <4>2. local[1] \in 1..Contexts /\ Contexts \in Nat
          BY <4>1, LifespanParts
        <4>3. QED
          BY <4>1, <4>2
      <3>2. QED
        BY <2>1, <3>1
    <2>4. ASSUME excused = FALSE PROVE Orderly'
      <3>1. /\ Counts(open) /\ Counts(local) /\ Len(open) = Len(local) /\ Len(local) = Contexts
        BY <2>1, <2>4, Groups DEF LifespanInv, Orderly, Held
      <3>2. Held' = local /\ open' = open
        BY <1>1, <2>1, <2>3 DEF Held
      <3>3. Counts(Held') /\ Counts(open') /\ Len(open') = Len(Held')
        BY <3>1, <3>2
      <3>4. QED
        BY <2>1, <2>3, <3>1, <3>3, Groups DEF Orderly
    <2>5. QED
      BY <1>1, <2>2, <2>4 DEF LifespanInv
  <1>3. CASE ShutdownEnds
    <2>1. /\ Ending(phase) /\ Leaving(phase') /\ stack' = NoStack
          /\ local' = IF stack = NoStack THEN <<>> ELSE stack
      BY <1>3 DEF ShutdownEnds, Proceeds, Ending, Leaving
    <2>2. LifespanTypeOK'
      <3>1. phase' = "closing" /\ excused' \in BOOLEAN /\ disorder' \in BOOLEAN
        BY <1>1, <1>3 DEF ShutdownEnds, Proceeds, LifespanInv, LifespanTypeOK
      <3>2. open' \in Seq(1..Contexts) /\ step' \in 0..Contexts + Handlers + Plugins /\ boots' \in 0..MaxBoots
        BY <1>1, LifespanParts
      <3>3. stack' \in ExitStacks
        BY <2>1 DEF ExitStacks
      <3>4. local' \in Seq(1..Contexts)
        <4>1. <<>> \in Seq(1..Contexts)
          OBVIOUS
        <4>2. stack = NoStack \/ stack \in Seq(1..Contexts)
          BY LifespanParts DEF ExitStacks
        <4>3. QED
          BY <2>1, <4>1, <4>2
      <3>5. QED
        BY <3>1, <3>2, <3>3, <3>4, KeepsTypes
    <2>3. ASSUME excused = FALSE PROVE Orderly'
      <3>1. /\ Counts(open) /\ Counts(Held) /\ Len(open) = Len(Held) /\ local = <<>>
        BY <2>1, <2>3, Groups DEF LifespanInv, Orderly
      <3>2. Held' = Held /\ open' = open
        BY <1>1, <2>1, <3>1 DEF Held
      <3>3. Counts(Held') /\ Counts(open') /\ Len(open') = Len(Held')
        BY <3>1, <3>2
      <3>4. QED
        BY <2>1, <3>3, Groups DEF Orderly
    <2>4. QED
      BY <1>1, <2>2, <2>3 DEF LifespanInv
  <1>4. QED
    BY <1>2, <1>3

\* A cancellation drops the stack that startup() has not assigned: excused, if it held any.
LEMMA CancelledStartup ==
  ASSUME LifespanInv, CancelStartup
  PROVE  LifespanInv'
  <1>1. /\ Entering(phase) \/ Starting(phase)
        /\ Resting(phase') /\ phase' = "stopped" /\ local' = <<>> /\ UNCHANGED <<stack, open, boots, disorder>>
        /\ (excused' <=> excused \/ open # <<>>) /\ excused' \in BOOLEAN /\ disorder' \in BOOLEAN
    BY DEF CancelStartup, Proceeds, Entering, Starting, Resting, LifespanInv, LifespanTypeOK
  <1>2. step' = 0
    BY DEF CancelStartup, Proceeds
  <1>3. LifespanTypeOK'
    <2>1. /\ local' \in Seq(1..Contexts) /\ open' \in Seq(1..Contexts) /\ stack' \in ExitStacks
          /\ step' \in 0..Contexts + Handlers + Plugins /\ boots' \in 0..MaxBoots
      BY <1>1, <1>2, LifespanParts
    <2>2. QED
      BY <1>1, <2>1, KeepsTypes
  <1>4. ASSUME excused' = FALSE PROVE Orderly' /\ disorder' = FALSE
    <2>1. open = <<>> /\ excused = FALSE
      BY <1>1, <1>4 DEF LifespanInv, LifespanTypeOK
    <2>2. stack = NoStack /\ disorder = FALSE
      BY <1>1, <2>1, Groups DEF LifespanInv, Orderly
    <2>3. open' = <<>> /\ Held' = <<>>
      BY <1>1, <2>1, <2>2 DEF Held
    <2>4. Counts(open') /\ Counts(Held') /\ Len(open') = Len(Held')
      BY <2>3 DEF Counts
    <2>5. QED
      BY <1>1, <2>2, <2>4, Groups DEF Orderly
  <1>5. QED
    BY <1>3, <1>4 DEF LifespanInv

LEMMA LifespanNextKeeps ==
  ASSUME LifespanInv, [LifespanNext]_lifespanVars
  PROVE  LifespanInv'
  <1>1. CASE Unwind \/ Close
    <2>1. /\ Leaving(phase) /\ local # <<>> /\ Exits(Last(local)) /\ local' = Front(local)
          /\ UNCHANGED <<phase, step, stack, boots, excused>>
      BY <1>1 DEF Unwind, Close, Leaving
    <2>2. QED
      BY <2>1, LeavesInOrder
  <1>2. CASE UNCHANGED lifespanVars
    BY <1>2 DEF lifespanVars, LifespanInv, LifespanTypeOK, Orderly, Held, Counts
  <1>3. QED
    BY <1>1, <1>2, EntersInOrder, QuietSteps, HandedOver, CancelledStartup DEF LifespanNext

LEMMA AlwaysLifespanInv == LifespanSpec => []LifespanInv
  <1>1. ASSUME LifespanInit PROVE LifespanInv
    <2>1. /\ phase = "waiting" /\ excused = FALSE /\ disorder = FALSE /\ Resting(phase)
      BY <1>1 DEF LifespanInit, Resting
    <2>2. step = 0 /\ stack = NoStack /\ local = <<>> /\ open = <<>> /\ boots = 0
      BY <1>1 DEF LifespanInit
    <2>3. LifespanTypeOK
      <3>1. /\ local \in Seq(1..Contexts) /\ open \in Seq(1..Contexts)
            /\ step \in 0..Contexts + Handlers + Plugins /\ boots \in 0..MaxBoots
        BY <2>2, LifespanAssumption
      <3>2. QED
        BY <2>1, <2>2, <3>1 DEF LifespanTypeOK
    <2>4. Counts(open) /\ Counts(Held) /\ Len(open) = Len(Held)
      BY <2>2 DEF Counts, Held
    <2>5. Orderly
      BY <2>1, <2>2, <2>4, Groups DEF Orderly
    <2>6. QED
      BY <2>1, <2>3, <2>5 DEF LifespanInv
  <1>2. QED
    BY <1>1, LifespanNextKeeps, PTL DEF LifespanSpec

\* The lifespan task is in one of its phases, and every stack of contexts is a
\* sequence of contexts, through startups, failures, cancellations and restarts.
THEOREM LifespanTypeCorrect == LifespanSpec => []LifespanTypeOK
  BY AlwaysLifespanInv, PTL DEF LifespanInv

\* For any number of contexts, handlers and plugins: when startup has failed or
\* shutdown has ended, all that was entered is exited, in reverse order, unless a
\* plugin raised or startup() was cancelled; while it serves, all of it is open.
THEOREM ContextsGetClosed == LifespanSpec => []ContextsAreClosed
  <1>1. LifespanInv => ContextsAreClosed
    <2> SUFFICES ASSUME LifespanInv, ~excused
                 PROVE  /\ phase \in {"failed", "stopped", "waiting"} => open = <<>>
                        /\ phase = "serving" => Len(open) = Contexts
                        /\ ~disorder
      BY DEF ContextsAreClosed
    <2>1. Orderly /\ disorder = FALSE
      BY DEF LifespanInv, LifespanTypeOK
    <2>2. ASSUME Resting(phase) PROVE open = <<>>
      <3>1. Held = <<>>
        BY <2>1, <2>2, Groups DEF Orderly, Held
      <3>2. Len(open) = 0
        BY <2>1, <3>1 DEF Orderly
      <3>3. QED
        BY <3>2, LifespanParts
    <2>3. ASSUME Running(phase) PROVE Len(open) = Contexts
      BY <2>1, <2>3 DEF Orderly, Held
    <2>4. QED
      BY <2>1, <2>2, <2>3 DEF Resting, Running
  <1>2. QED
    BY <1>1, AlwaysLifespanInv, PTL

-----------------------------------------------------------------------------
(* The rate limiters *)

\* Oldest first, as the clock's readings come.
Sorted(ages) == \A i, j \in 1..Len(ages) : i <= j => ages[j] <= ages[i]

\* The age that j younger ones follow.
Latest(ages, j) == ages[Len(ages) - j]

\* Of the grants that a window still counts each is among the attempts, with as many
\* after it, so that the attempts counted were never fewer than the grants.
GrantsAreAttempts ==
    \A j \in 0..Len(grants) - 1 : Latest(grants, j) < Window =>
        j < Len(attempts) /\ Latest(attempts, j) <= Latest(grants, j)

\* Fewer than the limit came after any grant that a window still counts.
GrantsAreFew == \A j \in 0..Len(grants) - 1 : Latest(grants, j) < Window => j < Limit

LEMMA WindowIsPositive == Window \in Nat /\ Window >= 1 /\ Stale = Window + 1
  <1>1. \A a, b \in Nat \ {0} : a * b \in Nat /\ a * b >= 1
    BY SMT
  <1>2. QED
    BY <1>1, RateAssumption DEF Window, Stale

\* A set of numbers that is not empty has a least one.
LEMMA Least ==
  ASSUME NEW S \in SUBSET Nat, S # {}
  PROVE  \E n \in S : \A m \in S : n <= m
  <1>1. PICK n \in S : \A m \in S : ~(<<m, n>> \in OpToRel(<, Nat))
    BY NatLessThanWellFounded, WFMin
  <1>2. \A m \in S : ~(m < n)
    <2> TAKE m \in S
    <2>1. m \in Nat /\ n \in Nat
      OBVIOUS
    <2>2. QED
      BY <1>1, <2>1, Zenon DEF OpToRel
  <1>3. QED
    BY <1>2

\* What Since leaves is what follows the older ones at the front.
LEMMA SinceDrops ==
  ASSUME NEW s \in Seq(Nat), NEW o \in Nat
  PROVE  \E n \in 0..Len(s) :
            /\ Since(s, o) = SubSeq(s, n + 1, Len(s))
            /\ Since(s, o) \in Seq(Nat) /\ Len(Since(s, o)) = Len(s) - n
            /\ \A i \in 1..Len(s) - n : Since(s, o)[i] = s[i + n]
            /\ \A i \in 1..n : s[i] > o
            /\ n < Len(s) => s[n + 1] <= o
  <1> DEFINE Cut(n) == /\ \A i \in 1..n : s[i] > o
                       /\ n < Len(s) => s[n + 1] <= o
             S == {n \in 0..Len(s) : n < Len(s) => s[n + 1] <= o}
  <1>1. \E n \in 0..Len(s) : Cut(n)
    <2>1. Len(s) \in S /\ S \in SUBSET Nat
      OBVIOUS
    <2>2. PICK n \in S : \A m \in S : n <= m
      BY <2>1, Least
    <2>3. ASSUME NEW i \in 1..n PROVE s[i] > o
      <3>1. i - 1 \in 0..Len(s) /\ i - 1 < Len(s) /\ i \in 1..Len(s) /\ ~(n <= i - 1)
        OBVIOUS
      <3>2. i - 1 \notin S
        BY <2>2, <3>1
      <3>3. s[i] \in Nat /\ ~(s[(i - 1) + 1] <= o) /\ (i - 1) + 1 = i
        BY <3>1, <3>2
      <3>4. QED
        BY <3>3
    <2>4. QED
      BY <2>2, <2>3
  <1>2. PICK n \in 0..Len(s) : n = CHOOSE m \in 0..Len(s) : Cut(m)
    BY <1>1
  <1>3. Cut(n)
    BY <1>1, <1>2
  <1>4. Since(s, o) = SubSeq(s, n + 1, Len(s))
    BY <1>2 DEF Since
  <1>5. /\ Len(Since(s, o)) = Len(s) - n /\ Since(s, o) \in Seq(Nat)
        /\ \A i \in 1..Len(s) - n : Since(s, o)[i] = s[i + n]
    <2>1. PICK t : t = SubSeq(s, n + 1, Len(s))
      OBVIOUS
    <2>2. n + 1 \in 1..Len(s) + 1 /\ Len(s) \in Nat /\ Len(s) - (n + 1) + 1 = Len(s) - n
      OBVIOUS
    <2>3. \A i \in n + 1..Len(s) : s[i] \in Nat
      OBVIOUS
    <2>4. /\ t \in Seq(Nat)
          /\ Len(t) = IF n + 1 <= Len(s) THEN Len(s) - (n + 1) + 1 ELSE 0
          /\ \A i \in 1..Len(s) - (n + 1) + 1 : t[i] = s[n + 1 + i - 1]
      BY <2>1, <2>2, <2>3, SubSeqProperties
    <2>5. Len(t) = Len(s) - n
      BY <1>2, <2>2, <2>4
    <2>6. ASSUME NEW i \in 1..Len(s) - n PROVE t[i] = s[i + n]
      <3>1. n + 1 + i - 1 = i + n
        OBVIOUS
      <3>2. QED
        BY <2>2, <2>4, <3>1
    <2>7. QED
      BY <1>4, <2>1, <2>4, <2>5, <2>6
  <1>6. QED
    BY <1>3, <1>4, <1>5

\* Of a sorted sequence it leaves all that is young enough, and no other.
LEMMA SinceOfSorted ==
  ASSUME NEW s \in Seq(Nat), NEW o \in Nat, Sorted(s)
  PROVE  /\ Since(s, o) \in Seq(0..o) /\ Sorted(Since(s, o)) /\ Len(Since(s, o)) <= Len(s)
         /\ \A i \in 1..Len(Since(s, o)) : Since(s, o)[i] <= o
         /\ \A j \in 0..Len(Since(s, o)) - 1 : Latest(Since(s, o), j) = Latest(s, j)
         /\ \A j \in 0..Len(s) - 1 : Latest(s, j) <= o => j < Len(Since(s, o))
  <1>1. PICK t : t = Since(s, o)
    OBVIOUS
  <1>2. PICK n \in 0..Len(s) :
           /\ t \in Seq(Nat) /\ Len(t) = Len(s) - n
           /\ \A i \in 1..Len(s) - n : t[i] = s[i + n]
           /\ \A i \in 1..n : s[i] > o
           /\ n < Len(s) => s[n + 1] <= o
    BY <1>1, SinceDrops
  <1>3. \A i \in 1..Len(t) : i + n \in 1..Len(s) /\ t[i] = s[i + n]
    BY <1>2
  <1>4. Sorted(t)
    <2> SUFFICES ASSUME NEW i \in 1..Len(t), NEW j \in 1..Len(t), i <= j
                 PROVE  t[j] <= t[i]
      BY DEF Sorted
    <2>1. i + n <= j + n
      BY <1>2
    <2>2. QED
      BY <1>3, <2>1 DEF Sorted
  <1>5. ASSUME NEW i \in 1..Len(t) PROVE t[i] <= o
    <2>1. n < Len(s) /\ n + 1 \in 1..Len(s) /\ n + 1 <= i + n
      BY <1>2
    <2>2. s[i + n] <= s[n + 1] /\ s[i + n] \in Nat /\ s[n + 1] \in Nat
      BY <1>3, <2>1 DEF Sorted
    <2>3. t[i] = s[i + n] /\ s[n + 1] <= o
      BY <1>2, <1>3, <2>1
    <2>4. QED
      BY <2>2, <2>3
  <1>6. ASSUME NEW j \in 0..Len(t) - 1 PROVE Latest(t, j) = Latest(s, j)
    <2>1. Len(t) - j \in 1..Len(t) /\ (Len(t) - j) + n = Len(s) - j
      BY <1>2
    <2>2. QED
      BY <1>3, <2>1 DEF Latest
  <1>7. ASSUME NEW j \in 0..Len(s) - 1, Latest(s, j) <= o PROVE j < Len(t)
    <2>1. PICK m : m = Len(s) - j
      OBVIOUS
    <2>2. m \in 1..Len(s) /\ s[m] <= o /\ s[m] \in Nat
      BY <1>7, <2>1 DEF Latest
    <2>3. ~(m \in 1..n)
      BY <1>2, <2>2
    <2>4. QED
      BY <1>2, <2>1, <2>2, <2>3
  <1>8. t \in Seq(0..o)
    <2>1. \A i \in 1..Len(t) : t[i] \in 0..o
      <3> TAKE i \in 1..Len(t)
      <3>1. t \in Seq(Nat)
        BY <1>2
      <3>2. t[i] \in Nat
        BY <3>1, ElementOfSeq
      <3>3. QED
        BY <1>5, <3>2
    <2>2. Len(t) \in Nat /\ t \in [1..Len(t) -> Nat]
      BY <1>2, LenProperties
    <2>3. PICK m, S : m = Len(t) /\ S = 0..o
      OBVIOUS
    <2>4. t \in [1..m -> S] /\ m \in Nat
      BY <2>1, <2>2, <2>3
    <2>5. t \in Seq(S)
      BY <2>4
    <2>6. QED
      BY <2>3, <2>5
  <1>9. QED
    BY <1>1, <1>2, <1>4, <1>5, <1>6, <1>7, <1>8

LEMMA AgesAreNaturals ==
  ASSUME NEW s \in Seq(Ages)
  PROVE  s \in Seq(Nat) /\ \A i \in 1..Len(s) : s[i] \in 0..Stale
  <1>1. Len(s) \in Nat /\ s \in [1..Len(s) -> 0..Stale]
    BY LenProperties DEF Ages
  <1>2. \A i \in 1..Len(s) : s[i] \in 0..Stale
    BY <1>1
  <1>3. s \in [1..Len(s) -> Nat]
    BY <1>1, WindowIsPositive
  <1>4. QED
    BY <1>1, <1>2, <1>3

\* A while later all are older by the same time, up to what is told apart.
LEMMA AgedAges ==
  ASSUME NEW s \in Seq(Ages), NEW d \in Nat
  PROVE  /\ Aged(s, d) \in Seq(Ages) /\ Len(Aged(s, d)) = Len(s)
         /\ \A i \in 1..Len(s) : Aged(s, d)[i] = IF s[i] + d > Stale THEN Stale ELSE s[i] + d
         /\ Sorted(s) => Sorted(Aged(s, d))
         /\ \A j \in 0..Len(s) - 1 :
               Latest(Aged(s, d), j) = IF Latest(s, j) + d > Stale THEN Stale ELSE Latest(s, j) + d
  <1>1. PICK t : t = Aged(s, d)
    OBVIOUS
  <1>2. DOMAIN s = 1..Len(s) /\ \A i \in 1..Len(s) : s[i] \in 0..Stale
    BY AgesAreNaturals
  <1>3. t = [i \in 1..Len(s) |-> IF s[i] + d > Stale THEN Stale ELSE s[i] + d]
    BY <1>1, <1>2 DEF Aged
  <1>4. t \in Seq(Ages) /\ Len(t) = Len(s)
    BY <1>2, <1>3, WindowIsPositive DEF Ages
  <1>5. Sorted(s) => Sorted(t)
    BY <1>2, <1>3, <1>4, WindowIsPositive DEF Sorted
  <1>6. ASSUME NEW j \in 0..Len(s) - 1
        PROVE  Latest(t, j) = IF Latest(s, j) + d > Stale THEN Stale ELSE Latest(s, j) + d
    <2>1. Len(s) - j \in 1..Len(s)
      OBVIOUS
    <2>2. QED
      BY <1>3, <1>4, <2>1 DEF Latest
  <1>7. QED
    BY <1>1, <1>3, <1>4, <1>5, <1>6

\* A reading of the clock is the youngest age.
LEMMA NowIsLast ==
  ASSUME NEW s \in Seq(Nat), Sorted(s)
  PROVE  /\ Sorted(Append(s, 0)) /\ Latest(Append(s, 0), 0) = 0
         /\ \A j \in 1..Len(s) : Latest(Append(s, 0), j) = Latest(s, j - 1)
  <1>1. PICK t : t = Append(s, 0)
    OBVIOUS
  <1>2. /\ Len(t) = Len(s) + 1 /\ t[Len(s) + 1] = 0
        /\ \A i \in 1..Len(s) : t[i] = s[i] /\ s[i] \in Nat
    BY <1>1
  <1>3. Sorted(t)
    BY <1>2 DEF Sorted
  <1>4. ASSUME NEW j \in 1..Len(s) PROVE Latest(t, j) = Latest(s, j - 1)
    <2>1. Len(t) - j = Len(s) - (j - 1) /\ Len(t) - j \in 1..Len(s)
      BY <1>2
    <2>2. QED
      BY <1>2, <2>1 DEF Latest
  <1>5. QED
    BY <1>1, <1>2, <1>3, <1>4 DEF Latest

LEMMA SinceOfYoung ==
  ASSUME NEW s \in Seq(Nat), NEW o \in Nat, \A i \in 1..Len(s) : s[i] <= o
  PROVE  Since(s, o) = s
  <1>1. PICK n \in 0..Len(s) :
           /\ Since(s, o) = SubSeq(s, n + 1, Len(s))
           /\ \A i \in 1..n : s[i] > o
    BY SinceDrops
  <1>2. n = 0
    <2>1. SUFFICES ASSUME n # 0 PROVE FALSE
      OBVIOUS
    <2>2. 1 \in 1..n /\ 1 \in 1..Len(s) /\ s[1] \in Nat
      BY <2>1, <1>1
    <2>3. QED
      BY <1>1, <2>2
  <1>3. QED
    BY <1>1, <1>2, SubSeqFull

\* What is dropped from the aged ages has the same end if they were dropped from before.
LEMMA SinceOfAged ==
  ASSUME NEW s \in Seq(Ages), NEW d \in Nat
  PROVE  Since(Aged(Since(s, Window), d), Window) = Since(Aged(s, d), Window)
  <1>1. PICK t : t = Since(s, Window)
    OBVIOUS
  <1>2. s \in Seq(Nat) /\ Len(s) \in Nat /\ \A i \in 1..Len(s) : s[i] \in Ages /\ s[i] \in Nat
    BY AgesAreNaturals DEF Ages
  <1>3. PICK n \in 0..Len(s) :
           /\ t \in Seq(Nat) /\ Len(t) = Len(s) - n
           /\ \A i \in 1..Len(s) - n : t[i] = s[i + n]
           /\ \A i \in 1..n : s[i] > Window
    BY <1>1, <1>2, WindowIsPositive, SinceDrops
  <1>4. t \in Seq(Ages)
    <2>1. \A i \in 1..Len(t) : t[i] \in Ages
      <3> TAKE i \in 1..Len(t)
      <3>1. i \in 1..Len(s) - n /\ i + n \in 1..Len(s)
        BY <1>3
      <3>2. QED
        BY <1>2, <1>3, <3>1
    <2>2. QED
      BY <1>3, <2>1
  <1>5. PICK u, v : u = Aged(s, d) /\ v = Aged(t, d)
    OBVIOUS
  <1>6. /\ u \in Seq(Nat) /\ Len(u) = Len(s) /\ v \in Seq(Nat) /\ Len(v) = Len(s) - n
        /\ \A i \in 1..Len(s) : u[i] = IF s[i] + d > Stale THEN Stale ELSE s[i] + d
        /\ \A i \in 1..Len(v) : v[i] = IF t[i] + d > Stale THEN Stale ELSE t[i] + d
    <2>1. u \in Seq(Ages) /\ v \in Seq(Ages)
      BY <1>4, <1>5, AgedAges
    <2>2. u \in Seq(Nat) /\ v \in Seq(Nat)
      BY <2>1, AgesAreNaturals
    <2>3. QED
      BY <1>3, <1>4, <1>5, <2>2, AgedAges
  <1>7. \A i \in 1..Len(v) : i + n \in 1..Len(s) /\ v[i] = u[i + n]
    <2> TAKE i \in 1..Len(v)
    <2>1. i + n \in 1..Len(s) /\ i \in 1..Len(s) - n
      BY <1>3, <1>6
    <2>2. t[i] = s[i + n]
      BY <1>3, <2>1
    <2>3. QED
      BY <1>6, <2>1, <2>2
  <1>8. \A i \in 1..n : u[i] > Window
    <2> TAKE i \in 1..n
    <2>1. i \in 1..Len(s) /\ s[i] > Window /\ s[i] \in Nat
      BY <1>2, <1>3
    <2>2. PICK a : a = s[i]
      OBVIOUS
    <2>3. a \in Nat /\ a > Window /\ Window \in Nat /\ Stale = Window + 1
      BY <2>1, <2>2, WindowIsPositive
    <2>4. u[i] = IF a + d > Stale THEN Stale ELSE a + d
      BY <1>6, <2>1, <2>2
    <2>5. QED
      BY <2>3, <2>4
  <1>9. PICK x, y : x = Since(u, Window) /\ y = Since(v, Window)
    OBVIOUS
  <1>10. PICK k \in 0..Len(u) :
            /\ x \in Seq(Nat) /\ Len(x) = Len(u) - k
            /\ \A i \in 1..Len(u) - k : x[i] = u[i + k]
            /\ \A i \in 1..k : u[i] > Window
            /\ k < Len(u) => u[k + 1] <= Window
    BY <1>6, <1>9, WindowIsPositive, SinceDrops
  <1>11. PICK l \in 0..Len(v) :
            /\ y \in Seq(Nat) /\ Len(y) = Len(v) - l
            /\ \A i \in 1..Len(v) - l : y[i] = v[i + l]
            /\ \A i \in 1..l : v[i] > Window
            /\ l < Len(v) => v[l + 1] <= Window
    BY <1>6, <1>9, WindowIsPositive, SinceDrops
  <1>12. /\ n \in Nat /\ k \in Nat /\ l \in Nat /\ n <= Len(s) /\ k <= Len(s) /\ l <= Len(v)
         /\ Len(u) = Len(s) /\ Len(v) + n = Len(s) /\ Len(s) \in Nat /\ Len(v) \in Nat
         /\ \A i \in 1..Len(s) : u[i] \in Nat
    <2>1. /\ n \in Nat /\ k \in Nat /\ l \in Nat /\ n <= Len(s) /\ k <= Len(s) /\ l <= Len(v)
          /\ Len(u) = Len(s) /\ Len(v) + n = Len(s) /\ Len(s) \in Nat /\ Len(v) \in Nat
      BY <1>2, <1>3, <1>6, <1>10, <1>11
    <2>2. \A i \in 1..Len(u) : u[i] \in Nat
      BY <1>6
    <2>3. QED
      BY <2>1, <2>2
  <1>13. n <= k
    <2>1. SUFFICES ASSUME k < n PROVE FALSE
      BY <1>3, <1>10
    <2>2. k < Len(u) /\ k + 1 \in 1..n /\ k + 1 \in 1..Len(u) /\ u[k + 1] \in Nat
      BY <1>12, <2>1
    <2>3. QED
      BY <1>8, <1>10, <2>2, WindowIsPositive
  <1>14. ~(l + n < k)
    <2>1. SUFFICES ASSUME l + n < k PROVE FALSE
      OBVIOUS
    <2>2. l < Len(v) /\ l + 1 \in 1..Len(v) /\ (l + 1) + n \in 1..k /\ (l + 1) + n \in 1..Len(u)
      BY <1>12, <2>1
    <2>3. v[l + 1] = u[(l + 1) + n] /\ u[(l + 1) + n] \in Nat
      BY <1>7, <1>12, <2>2
    <2>4. u[(l + 1) + n] > Window
      BY <1>10, <2>2
    <2>5. v[l + 1] <= Window
      BY <1>11, <2>2
    <2>6. QED
      BY <2>3, <2>4, <2>5, WindowIsPositive
  <1>15. ~(k < l + n)
    <2>1. SUFFICES ASSUME k < l + n PROVE FALSE
      OBVIOUS
    <2>2. /\ k < Len(u) /\ k + 1 \in 1..Len(u) /\ (k + 1) - n \in 1..l /\ (k + 1) - n \in 1..Len(v)
          /\ ((k + 1) - n) + n = k + 1
      BY <1>12, <1>13, <2>1
    <2>3. v[(k + 1) - n] = u[k + 1] /\ u[k + 1] \in Nat
      BY <1>7, <1>12, <2>2
    <2>4. u[k + 1] <= Window
      BY <1>10, <2>2
    <2>5. v[(k + 1) - n] > Window
      BY <1>11, <2>2
    <2>6. QED
      BY <2>3, <2>4, <2>5, WindowIsPositive
  <1>16. l + n = k
    BY <1>3, <1>10, <1>11, <1>14, <1>15
  <1>17. Len(x) = Len(y) /\ \A i \in 1..Len(x) : x[i] = y[i]
    <2>1. Len(x) = Len(y)
      <3>1. Len(x) = Len(u) - k /\ Len(y) = Len(v) - l
        BY <1>10, <1>11
      <3>2. Len(u) = Len(s) /\ Len(v) = Len(s) - n /\ n \in Nat /\ l \in Nat /\ Len(s) \in Nat
        BY <1>12
      <3>3. Len(u) - k = Len(v) - l
        BY <1>16, <3>2
      <3>4. QED
        BY <3>1, <3>3
    <2>2. ASSUME NEW i \in 1..Len(x) PROVE x[i] = y[i]
      <3>1. i + l \in 1..Len(v) /\ (i + l) + n = i + k /\ i \in 1..Len(v) - l /\ i \in 1..Len(u) - k
        BY <1>3, <1>6, <1>10, <1>11, <1>16
      <3>2. QED
        BY <1>7, <1>10, <1>11, <3>1
    <2>3. QED
      BY <2>1, <2>2
  <1>18. x = y
    BY <1>10, <1>11, <1>17, SeqEqual
  <1>19. QED
    BY <1>1, <1>5, <1>9, <1>18

\* Whole seconds, rounded down and one more, are more than what is left.
LEMMA RoundedUp ==
  ASSUME NEW x \in Nat, NEW t \in Nat \ {0}
  PROVE  /\ x \div t + 1 \in Nat /\ (x \div t + 1) * t \in Nat
         /\ (x \div t + 1) * t > x
  <1>1. x \div t \in Nat /\ x % t \in 0..t - 1 /\ x = t * (x \div t) + (x % t)
    BY SMT
  <1>2. \A q, m \in Nat : (q + 1) * t \in Nat /\ (q + 1) * t = t * q + t
    BY SMT
  <1>3. QED
    BY <1>1, <1>2

\* The deque and what was admitted, of the right types.
LocalTypeOK ==
    /\ bucket \in Seq(Ages) /\ Len(bucket) <= Limit
    /\ admissions \in Seq(0..Window)

SharedTypeOK ==
    /\ attempts \in Seq(Ages) /\ Len(attempts) <= MaxAttempts
    /\ grants \in Seq(0..Window)

\* RateLimiter: the deque without what is too old is what was admitted.
LocalInv == LocalTypeOK /\ Sorted(bucket) /\ admissions = Pruned(bucket)

\* DistributedRateLimiter.
SharedInv ==
    SharedTypeOK /\ Sorted(attempts) /\ Sorted(grants) /\ GrantsAreAttempts /\ GrantsAreFew

LEMMA PrunedFacts ==
  ASSUME LocalInv
  PROVE  /\ Pruned(bucket) \in Seq(Ages) /\ Pruned(bucket) \in Seq(0..Window)
         /\ Pruned(bucket) \in Seq(Nat) /\ Len(Pruned(bucket)) \in Nat
         /\ Len(Pruned(bucket)) <= Limit /\ Sorted(Pruned(bucket))
         /\ \A i \in 1..Len(Pruned(bucket)) : Pruned(bucket)[i] <= Window
  <1>1. PICK t : t = Pruned(bucket)
    OBVIOUS
  <1>2. bucket \in Seq(Nat) /\ Sorted(bucket) /\ Len(bucket) <= Limit
    BY AgesAreNaturals DEF LocalInv, LocalTypeOK
  <1>3. /\ t \in Seq(0..Window) /\ Sorted(t) /\ Len(t) <= Len(bucket)
        /\ \A i \in 1..Len(t) : t[i] <= Window
    BY <1>1, <1>2, WindowIsPositive, SinceOfSorted DEF Pruned
  <1>4. t \in [1..Len(t) -> 0..Window] /\ Len(t) \in Nat
    BY <1>3, LenProperties
  <1>5. t \in Seq(Ages) /\ t \in Seq(Nat)
    BY <1>4, WindowIsPositive DEF Ages
  <1>6. Len(t) <= Limit
    BY <1>2, <1>3, <1>4, RateAssumption
  <1>7. QED
    BY <1>1, <1>3, <1>4, <1>5, <1>6

\* The deque is pruned, and a request admitted if there is room.
LEMMA LocalStep ==
  ASSUME LocalInv,
         \/ /\ bucket' = Pruned(bucket) /\ admissions' = admissions
         \/ /\ Admissible(bucket)
            /\ bucket' = Append(Pruned(bucket), 0) /\ admissions' = Append(admissions, 0)
  PROVE  LocalInv'
  <1>1. PICK t : t = Pruned(bucket)
    OBVIOUS
  <1>2. /\ t \in Seq(Ages) /\ t \in Seq(0..Window) /\ t \in Seq(Nat) /\ Len(t) \in Nat
        /\ Len(t) <= Limit /\ Sorted(t) /\ \A i \in 1..Len(t) : t[i] <= Window
        /\ admissions = t
    BY <1>1, PrunedFacts DEF LocalInv
  <1>3. CASE bucket' = t /\ admissions' = t
    <2>1. Pruned(bucket)' = t
      BY <1>2, <1>3, WindowIsPositive, SinceOfYoung DEF Pruned
    <2>2. Sorted(bucket)'
      BY <1>2, <1>3 DEF Sorted
    <2>3. QED
      BY <1>2, <1>3, <2>1, <2>2 DEF LocalInv, LocalTypeOK
  <1>4. CASE Len(t) < Limit /\ bucket' = Append(t, 0) /\ admissions' = Append(t, 0)
    <2>1. PICK u : u = Append(t, 0)
      OBVIOUS
    <2>2. /\ u \in Seq(Ages) /\ u \in Seq(0..Window) /\ u \in Seq(Nat) /\ Len(u) = Len(t) + 1
          /\ Sorted(u)
      BY <1>2, <2>1, NowIsLast, WindowIsPositive DEF Ages
    <2>3. \A i \in 1..Len(u) : u[i] <= Window
      <3>1. u \in [1..Len(u) -> 0..Window]
        BY <2>2, LenProperties
      <3>2. QED
        BY <3>1, WindowIsPositive
    <2>4. Pruned(bucket)' = u
      BY <1>4, <2>1, <2>2, <2>3, WindowIsPositive, SinceOfYoung DEF Pruned
    <2>5. Sorted(bucket)'
      BY <1>4, <2>1, <2>2 DEF Sorted
    <2>6. Len(u) <= Limit
      BY <1>2, <1>4, <2>2, RateAssumption
    <2>7. QED
      BY <1>4, <2>1, <2>2, <2>4, <2>5, <2>6 DEF LocalInv, LocalTypeOK
  <1>5. QED
    BY <1>1, <1>2, <1>3, <1>4 DEF Admissible

LEMMA LocalTick ==
  ASSUME LocalInv, bucket' = Aged(bucket, 1), admissions' = Within(Aged(admissions, 1))
  PROVE  LocalInv'
  <1>1. PICK u : u = Aged(bucket, 1)
    OBVIOUS
  <1>2. bucket \in Seq(Ages) /\ Len(bucket) <= Limit /\ Sorted(bucket) /\ admissions = Pruned(bucket)
    BY DEF LocalInv, LocalTypeOK
  <1>3. u \in Seq(Ages) /\ Len(u) = Len(bucket) /\ Sorted(u)
    BY <1>1, <1>2, AgedAges
  <1>4. u \in Seq(Nat)
    BY <1>3, AgesAreNaturals
  <1>5. admissions' = Since(u, Window)
    BY <1>1, <1>2, SinceOfAged DEF Within, Pruned
  <1>6. Since(u, Window) \in Seq(0..Window)
    BY <1>3, <1>4, WindowIsPositive, SinceOfSorted
  <1>7. Sorted(bucket)' /\ Pruned(bucket)' = Since(u, Window)
    BY <1>1, <1>3 DEF Sorted, Pruned
  <1>8. QED
    BY <1>1, <1>2, <1>3, <1>5, <1>6, <1>7 DEF LocalInv, LocalTypeOK

LEMMA LatestIsNatural ==
  ASSUME NEW s \in Seq(Nat), NEW j \in 0..Len(s) - 1
  PROVE  Latest(s, j) \in Nat
  <1>1. Len(s) - j \in 1..Len(s)
    OBVIOUS
  <1>2. QED
    BY <1>1 DEF Latest

LEMMA SharedParts ==
  ASSUME SharedInv
  PROVE  /\ attempts \in Seq(Ages) /\ attempts \in Seq(Nat) /\ Sorted(attempts)
         /\ grants \in Seq(0..Window) /\ grants \in Seq(Ages) /\ grants \in Seq(Nat)
         /\ Sorted(grants) /\ Len(attempts) \in Nat /\ Len(grants) \in Nat
         /\ Len(attempts) <= MaxAttempts /\ Window - 1 \in Nat
  <1>1. grants \in [1..Len(grants) -> 0..Window] /\ Len(grants) \in Nat /\ Len(attempts) \in Nat
    BY LenProperties DEF SharedInv, SharedTypeOK
  <1>2. grants \in Seq(Ages)
    BY <1>1, WindowIsPositive DEF Ages
  <1>3. QED
    BY <1>1, <1>2, AgesAreNaturals, WindowIsPositive DEF SharedInv, SharedTypeOK

LEMMA SharedStep ==
  ASSUME SharedInv, CheckShared
  PROVE  SharedInv'
  <1>1. PICK t : t = InWindow(attempts)
    OBVIOUS
  <1>2. PICK a : a = Append(t, 0)
    OBVIOUS
  <1>3. /\ t \in Seq(0..Window - 1) /\ Sorted(t) /\ Len(t) <= Len(attempts)
        /\ \A j \in 0..Len(t) - 1 : Latest(t, j) = Latest(attempts, j)
        /\ \A j \in 0..Len(attempts) - 1 : Latest(attempts, j) <= Window - 1 => j < Len(t)
    BY <1>1, SharedParts, SinceOfSorted DEF InWindow
  <1>4. /\ t \in Seq(Nat) /\ t \in Seq(Ages) /\ Len(t) \in Nat
    <2>1. t \in [1..Len(t) -> 0..Window - 1] /\ Len(t) \in Nat
      BY <1>3, LenProperties
    <2>2. QED
      BY <2>1, WindowIsPositive DEF Ages
  <1>5. /\ a \in Seq(Ages) /\ Len(a) = Len(t) + 1 /\ Sorted(a) /\ Latest(a, 0) = 0
        /\ \A j \in 1..Len(t) : Latest(a, j) = Latest(t, j - 1)
    BY <1>2, <1>3, <1>4, NowIsLast, WindowIsPositive DEF Ages
  <1>6. /\ Len(t) < MaxAttempts /\ attempts' = a
        /\ grants' = IF Len(t) < Limit THEN Append(grants, 0) ELSE grants
    BY <1>1, <1>2 DEF CheckShared
  <1>7. ASSUME NEW j \in 0..Len(grants) - 1, Latest(grants, j) < Window
        PROVE  j < Len(t) /\ Latest(t, j) <= Latest(grants, j) /\ j < Limit /\ Latest(t, j) \in Nat
    <2>1. j < Len(attempts) /\ Latest(attempts, j) <= Latest(grants, j) /\ j < Limit
      BY <1>7 DEF SharedInv, GrantsAreAttempts, GrantsAreFew
    <2>2. j \in 0..Len(attempts) - 1 /\ Latest(attempts, j) \in Nat /\ Latest(grants, j) \in Nat
      BY <2>1, SharedParts, LatestIsNatural
    <2>3. j < Len(t)
      BY <1>3, <1>7, <2>1, <2>2, WindowIsPositive
    <2>4. Latest(t, j) = Latest(attempts, j)
      BY <1>3, <1>4, <2>3
    <2>5. QED
      BY <2>1, <2>2, <2>3, <2>4
  <1>8. /\ attempts' \in Seq(Ages) /\ Len(attempts)' <= MaxAttempts /\ Sorted(attempts)'
    <2>1. Len(a) <= MaxAttempts
      BY <1>4, <1>5, <1>6, RateAssumption
    <2>2. QED
      BY <1>5, <1>6, <2>1 DEF Sorted
  <1>9. CASE Len(t) < Limit
    <2>1. PICK g : g = Append(grants, 0)
      OBVIOUS
    <2>2. /\ g \in Seq(0..Window) /\ Len(g) = Len(grants) + 1 /\ Sorted(g) /\ Latest(g, 0) = 0
          /\ \A j \in 1..Len(grants) : Latest(g, j) = Latest(grants, j - 1)
      BY <2>1, SharedParts, NowIsLast, WindowIsPositive
    <2>3. grants' = g
      BY <1>6, <1>9, <2>1
    <2>4. ASSUME NEW j \in 0..Len(g) - 1, Latest(g, j) < Window
          PROVE  j < Len(a) /\ Latest(a, j) <= Latest(g, j) /\ j < Limit
      <3>1. CASE j = 0
        BY <1>4, <1>5, <2>2, <3>1, RateAssumption
      <3>2. CASE j \in 1..Len(grants)
        <4>1. j - 1 \in 0..Len(grants) - 1 /\ Latest(g, j) = Latest(grants, j - 1)
          BY <2>2, <3>2, SharedParts
        <4>2. j - 1 < Len(t) /\ Latest(t, j - 1) <= Latest(grants, j - 1)
          BY <1>7, <2>4, <4>1
        <4>3. j \in 1..Len(t) /\ j < Limit /\ j < Len(a)
          BY <1>4, <1>5, <1>9, <3>2, <4>2, RateAssumption
        <4>4. QED
          BY <1>5, <4>1, <4>2, <4>3
      <3>3. QED
        BY <2>2, <3>1, <3>2, SharedParts
    <2>5. GrantsAreAttempts' /\ GrantsAreFew'
      BY <1>6, <2>3, <2>4 DEF GrantsAreAttempts, GrantsAreFew, Latest
    <2>6. Sorted(grants)'
      BY <2>2, <2>3 DEF Sorted
    <2>7. QED
      BY <1>8, <2>2, <2>3, <2>5, <2>6 DEF SharedInv, SharedTypeOK
  <1>10. CASE ~(Len(t) < Limit)
    <2>1. grants' = grants
      BY <1>6, <1>10
    <2>2. ASSUME NEW j \in 0..Len(grants) - 1, Latest(grants, j) < Window
          PROVE  j < Len(a) /\ Latest(a, j) <= Latest(grants, j) /\ j < Limit
      <3>1. j < Len(t) /\ Latest(t, j) <= Latest(grants, j) /\ j < Limit /\ Latest(t, j) \in Nat
        BY <1>7, <2>2
      <3>2. Latest(grants, j) \in Nat
        BY SharedParts, LatestIsNatural
      <3>3. CASE j = 0
        BY <1>4, <1>5, <3>1, <3>2, <3>3
      <3>4. CASE j # 0
        <4>1. j \in 1..Len(t) /\ j < Len(a) /\ j - 1 \in 0..Len(t) - 1
          BY <1>4, <1>5, <3>1, <3>4
        <4>2. Latest(t, j - 1) <= Latest(t, j)
          <5>1. Len(t) - j \in 1..Len(t) /\ Len(t) - (j - 1) \in 1..Len(t) /\ Len(t) - j <= Len(t) - (j - 1)
            BY <1>4, <3>1, <4>1
          <5>2. QED
            BY <1>3, <5>1 DEF Sorted, Latest
        <4>3. Latest(t, j - 1) \in Nat
          BY <1>4, <4>1, LatestIsNatural
        <4>4. QED
          BY <1>5, <3>1, <3>2, <4>1, <4>2, <4>3
      <3>5. QED
        BY <3>3, <3>4
    <2>3. GrantsAreAttempts' /\ GrantsAreFew'
      BY <1>6, <2>1, <2>2 DEF GrantsAreAttempts, GrantsAreFew, Latest
    <2>4. Sorted(grants)'
      BY <2>1, SharedParts DEF Sorted
    <2>5. QED
      BY <1>8, <2>1, <2>3, <2>4 DEF SharedInv, SharedTypeOK
  <1>11. QED
    BY <1>9, <1>10

LEMMA SharedTick ==
  ASSUME SharedInv, attempts' = Aged(attempts, 1), grants' = Within(Aged(grants, 1))
  PROVE  SharedInv'
  <1>1. PICK a, u, g : a = Aged(attempts, 1) /\ u = Aged(grants, 1) /\ g = Since(u, Window)
    OBVIOUS
  <1>2. /\ a \in Seq(Ages) /\ Len(a) = Len(attempts) /\ Sorted(a)
        /\ \A j \in 0..Len(attempts) - 1 :
              Latest(a, j) = IF Latest(attempts, j) + 1 > Stale THEN Stale ELSE Latest(attempts, j) + 1
    BY <1>1, SharedParts, AgedAges
  <1>3. /\ u \in Seq(Ages) /\ Len(u) = Len(grants) /\ Sorted(u)
        /\ \A j \in 0..Len(grants) - 1 :
              Latest(u, j) = IF Latest(grants, j) + 1 > Stale THEN Stale ELSE Latest(grants, j) + 1
    BY <1>1, SharedParts, AgedAges
  <1>4. u \in Seq(Nat)
    BY <1>3, AgesAreNaturals
  <1>5. /\ g \in Seq(0..Window) /\ Sorted(g) /\ Len(g) <= Len(u)
        /\ \A j \in 0..Len(g) - 1 : Latest(g, j) = Latest(u, j)
    BY <1>1, <1>3, <1>4, SinceOfSorted, WindowIsPositive
  <1>6. grants' = g /\ attempts' = a
    BY <1>1 DEF Within
  <1>7. ASSUME NEW j \in 0..Len(g) - 1, Latest(g, j) < Window
        PROVE  j < Len(a) /\ Latest(a, j) <= Latest(g, j) /\ j < Limit
    <2>1. j \in 0..Len(grants) - 1 /\ Len(g) \in Nat
      BY <1>3, <1>5, SharedParts, LenProperties
    <2>2. Latest(grants, j) \in Nat
      BY <2>1, SharedParts, LatestIsNatural
    <2>3. Latest(g, j) = IF Latest(grants, j) + 1 > Stale THEN Stale ELSE Latest(grants, j) + 1
      BY <1>3, <1>5, <2>1
    <2>4. Latest(grants, j) + 1 = Latest(g, j) /\ Latest(grants, j) < Window
      BY <1>7, <2>2, <2>3, WindowIsPositive
    <2>5. j < Len(attempts) /\ Latest(attempts, j) <= Latest(grants, j) /\ j < Limit
      BY <2>1, <2>4 DEF SharedInv, GrantsAreAttempts, GrantsAreFew
    <2>6. j \in 0..Len(attempts) - 1 /\ Latest(attempts, j) \in Nat
      BY <2>1, <2>5, SharedParts, LatestIsNatural
    <2>7. Latest(a, j) = IF Latest(attempts, j) + 1 > Stale THEN Stale ELSE Latest(attempts, j) + 1
      BY <1>2, <2>6
    <2>8. QED
      BY <1>2, <2>2, <2>4, <2>5, <2>6, <2>7, WindowIsPositive
  <1>8. GrantsAreAttempts' /\ GrantsAreFew'
    BY <1>6, <1>7 DEF GrantsAreAttempts, GrantsAreFew, Latest
  <1>9. Sorted(attempts)' /\ Sorted(grants)'
    BY <1>2, <1>5, <1>6 DEF Sorted
  <1>10. SharedTypeOK'
    BY <1>2, <1>5, <1>6, SharedParts DEF SharedTypeOK
  <1>11. QED
    BY <1>8, <1>9, <1>10 DEF SharedInv

\* What a refused caller is told.
LEMMA ComesBackInTime ==
  ASSUME LocalInv
  PROVE  RetryAfterSuffices
  <1>1. PICK t : t = Pruned(bucket)
    OBVIOUS
  <1>2. PICK n \in 0..Len(bucket) :
           /\ t \in Seq(Nat) /\ Len(t) = Len(bucket) - n
           /\ \A i \in 1..Len(bucket) - n : t[i] = bucket[i + n]
           /\ \A i \in 1..n : bucket[i] > Window
    BY <1>1, AgesAreNaturals, WindowIsPositive, SinceDrops DEF Pruned, LocalInv, LocalTypeOK
  <1>3. /\ Len(t) \in Nat /\ Len(t) <= Limit /\ \A i \in 1..Len(t) : t[i] <= Window /\ t[i] \in Nat
    BY <1>1, <1>2, PrunedFacts
  <1>4. /\ bucket \in Seq(Ages) /\ bucket \in Seq(Nat) /\ Len(bucket) \in Nat
        /\ \A i \in 1..Len(bucket) : bucket[i] \in 0..Stale
    BY AgesAreNaturals, LenProperties DEF LocalInv, LocalTypeOK
  <1>5. n \in Nat /\ (Len(t) > 0 => n + 1 <= Len(bucket))
    BY <1>2, <1>3, <1>4
  <1>6. CASE Len(t) < Limit
    <2>1. Admissible(bucket) /\ RetryAfter(bucket) = 0 /\ Remaining(bucket) # 0
      BY <1>1, <1>3, <1>6, RateAssumption DEF Admissible, RetryAfter, Remaining
    <2>2. RetryAfter(bucket) * TicksPerSecond = 0
      BY <2>1, RateAssumption
    <2>3. Aged(bucket, 0) = bucket
      <3>1. PICK u : u = Aged(bucket, 0)
        OBVIOUS
      <3>2. /\ u \in Seq(Ages) /\ Len(u) = Len(bucket)
            /\ \A i \in 1..Len(bucket) : u[i] = IF bucket[i] + 0 > Stale THEN Stale ELSE bucket[i] + 0
        BY <1>4, <3>1, AgedAges
      <3>3. \A i \in 1..Len(u) : u[i] = bucket[i]
        BY <1>4, <3>2, WindowIsPositive
      <3>4. u = bucket
        BY <1>4, <3>2, <3>3, SeqEqual
      <3>5. QED
        BY <3>1, <3>4
    <2>4. QED
      BY <2>1, <2>2, <2>3 DEF RetryAfterSuffices
  <1>7. CASE Len(t) = Limit
    <2>1. /\ 1 \in 1..Len(t) /\ Head(t) = t[1] /\ t[1] \in Nat /\ t[1] <= Window
          /\ n + 1 <= Len(bucket)
      BY <1>2, <1>3, <1>5, <1>7, RateAssumption
    <2>2. PICK r : r = (Window - Head(t)) \div TicksPerSecond + 1
      OBVIOUS
    <2>3. PICK d : d = r * TicksPerSecond
      OBVIOUS
    <2>4. r \in Nat /\ d \in Nat /\ d > Window - t[1] /\ r > 0
      <3>1. Window - t[1] \in Nat
        BY <2>1, WindowIsPositive
      <3>2. r \in Nat /\ d \in Nat /\ d > Window - t[1]
        BY <2>1, <2>2, <2>3, <3>1, RoundedUp, RateAssumption
      <3>3. r # 0
        BY <2>3, <3>1, <3>2, RateAssumption
      <3>4. QED
        BY <3>2, <3>3
    <2>5. ~Admissible(bucket) /\ RetryAfter(bucket) = r /\ Remaining(bucket) = 0
      BY <1>1, <1>3, <1>7, <2>2, RateAssumption DEF Admissible, RetryAfter, Remaining
    <2>6. PICK u : u = Aged(bucket, d)
      OBVIOUS
    <2>7. /\ u \in Seq(Nat) /\ Len(u) = Len(bucket)
          /\ \A i \in 1..Len(bucket) : u[i] = IF bucket[i] + d > Stale THEN Stale ELSE bucket[i] + d
      BY <1>4, <2>4, <2>6, AgedAges, AgesAreNaturals
    <2>8. ASSUME NEW i \in 1..n + 1 PROVE u[i] > Window
      <3>1. i \in 1..Len(bucket) /\ bucket[i] \in Nat
        BY <1>4, <1>5, <2>1
      <3>2. bucket[i] + d > Window
        <4>1. CASE i \in 1..n
          BY <1>2, <2>4, <3>1, <4>1, WindowIsPositive
        <4>2. CASE i = n + 1
          <5>1. bucket[n + 1] = t[1]
            BY <1>2, <2>1
          <5>2. QED
            BY <2>1, <2>4, <4>2, <5>1, WindowIsPositive
        <4>3. QED
          BY <1>2, <4>1, <4>2
      <3>3. QED
        BY <2>4, <2>7, <3>1, <3>2, WindowIsPositive
    <2>9. PICK k \in 0..Len(u) :
             /\ Len(Since(u, Window)) = Len(u) - k
             /\ k < Len(u) => u[k + 1] <= Window
      BY <2>7, WindowIsPositive, SinceDrops
    <2>10. k >= n + 1
      <3>1. SUFFICES ASSUME k < n + 1 PROVE FALSE
        BY <1>2, <2>9
      <3>2. k < Len(u) /\ k + 1 \in 1..n + 1 /\ k + 1 \in 1..Len(u)
        <4>1. k \in Nat /\ n \in Nat /\ Len(u) \in Nat /\ n + 1 <= Len(u)
          BY <1>2, <1>4, <1>5, <2>1, <2>7, <2>9
        <4>2. QED
          BY <3>1, <4>1
      <3>3. u[k + 1] \in Nat
        BY <2>7, <3>2
      <3>4. QED
        BY <2>8, <2>9, <3>2, <3>3, WindowIsPositive
    <2>11. Len(Pruned(u)) < Limit
      BY <1>2, <1>3, <1>4, <1>7, <2>7, <2>9, <2>10, RateAssumption DEF Pruned
    <2>12. QED
      BY <2>3, <2>4, <2>5, <2>6, <2>11 DEF RetryAfterSuffices, Admissible
  <1>8. QED
    BY <1>3, <1>6, <1>7, RateAssumption

\* What a window sees.
LEMMA FewInAWindow ==
  ASSUME LocalInv, SharedInv
  PROVE  WindowsBounded
  <1>1. Len(admissions) <= Limit
    BY PrunedFacts DEF LocalInv
  <1>2. PICK S : S = {i \in DOMAIN grants : grants[i] < Window}
    OBVIOUS
  <1>3. \A i \in S : i \in Len(grants) - Limit + 1..Len(grants)
    <2> TAKE i \in S
    <2>1. i \in 1..Len(grants) /\ grants[i] < Window
      BY <1>2, SharedParts
    <2>2. Len(grants) - i \in 0..Len(grants) - 1 /\ Len(grants) - (Len(grants) - i) = i
      BY <2>1, SharedParts
    <2>3. Len(grants) - i < Limit
      BY <2>1, <2>2 DEF SharedInv, GrantsAreFew, Latest
    <2>4. QED
      BY <2>1, <2>3, SharedParts, RateAssumption
  <1>4. PICK a, b : a = Len(grants) - Limit + 1 /\ b = Len(grants)
    OBVIOUS
  <1>5. a \in Int /\ b \in Int /\ ~(a > b) /\ b - a + 1 = Limit
    BY <1>4, SharedParts, RateAssumption
  <1>6. IsFiniteSet(a..b) /\ Cardinality(a..b) = Limit
    BY <1>5, FS_Interval
  <1>7. S \in SUBSET (a..b)
    BY <1>3, <1>4
  <1>8. Cardinality(S) <= Limit
    BY <1>6, <1>7, FS_Subset
  <1>9. QED
    BY <1>1, <1>2, <1>8 DEF WindowsBounded

RateInv == LocalInv /\ SharedInv

LEMMA RateNextKeeps ==
  ASSUME RateInv, [RateNext]_rateVars
  PROVE  RateInv'
  <1>1. ASSUME UNCHANGED <<attempts, grants>> PROVE SharedInv'
    BY <1>1 DEF RateInv, SharedInv, SharedTypeOK, Sorted, GrantsAreAttempts, GrantsAreFew, Latest
  <1>2. ASSUME UNCHANGED <<bucket, admissions>> PROVE LocalInv'
    BY <1>2 DEF RateInv, LocalInv, LocalTypeOK, Sorted, Pruned
  <1>3. CASE Check
    <2>1. LocalInv'
      BY <1>3, LocalStep DEF RateInv, Check
    <2>2. QED
      BY <1>1, <1>3, <2>1 DEF RateInv, Check
  <1>4. CASE Ask
    <2>1. LocalInv'
      BY <1>4, LocalStep DEF RateInv, Ask
    <2>2. QED
      BY <1>1, <1>4, <2>1 DEF RateInv, Ask
  <1>5. CASE CheckShared
    <2>1. SharedInv'
      BY <1>5, SharedStep DEF RateInv
    <2>2. QED
      BY <1>2, <1>5, <2>1 DEF RateInv, CheckShared
  <1>6. CASE Tick
    BY <1>6, LocalTick, SharedTick DEF RateInv, Tick
  <1>7. CASE UNCHANGED rateVars
    BY <1>1, <1>2, <1>7 DEF RateInv, rateVars
  <1>8. QED
    BY <1>3, <1>4, <1>5, <1>6, <1>7 DEF RateNext

LEMMA AlwaysRateInv == RateSpec => []RateInv
  <1>1. RateInit => RateInv
    <2>1. SUFFICES ASSUME RateInit PROVE RateInv
      OBVIOUS
    <2>2. PICK e : e = <<>>
      OBVIOUS
    <2>3. /\ bucket = e /\ admissions = e /\ attempts = e /\ grants = e
      BY <2>1, <2>2 DEF RateInit
    <2>4. e \in Seq(Nat) /\ e \in Seq(Ages) /\ e \in Seq(0..Window) /\ Len(e) = 0
      BY <2>2
    <2>5. Pruned(e) = e
      <3>1. \A i \in 1..Len(e) : e[i] <= Window
        BY <2>4
      <3>2. QED
        BY <2>4, <3>1, SinceOfYoung, WindowIsPositive DEF Pruned
    <2>6. QED
      BY <2>3, <2>4, <2>5, RateAssumption
      DEF RateInv, LocalInv, LocalTypeOK, SharedInv, SharedTypeOK, Sorted, GrantsAreAttempts, GrantsAreFew
  <1>2. QED
    BY <1>1, RateNextKeeps, PTL DEF RateSpec

\* The deque, the sorted set and the histories keep their types, with any limit, window and
\* resolution of the clock.
THEOREM RateTypeCorrect == RateSpec => []RateTypeOK
  <1>1. RateInv => RateTypeOK
    BY DEF RateInv, LocalInv, LocalTypeOK, SharedInv, SharedTypeOK, RateTypeOK
  <1>2. QED
    BY <1>1, AlwaysRateInv, PTL

\* No window sees more than the limit, and Retry-After is long enough: what check()
\* and get_retry_after() of rate_limit.py compute from what they pruned.
THEOREM LimitsAreKept == RateSpec => []LimitsHold
  <1>1. RateInv => LimitsHold
    BY FewInAWindow, ComesBackInTime DEF RateInv, LimitsHold
  <1>2. QED
    BY <1>1, AlwaysRateInv, PTL

-----------------------------------------------------------------------------
(* The listeners of an event *)

\* The more important come first, and none is there twice.
Proper(list) ==
    \A i, k \in 1..Len(list) : i < k => /\ list[i].priority >= list[k].priority
                                        /\ list[i] # list[k]

\* t is what is left of the first n of list.
LeftOf(t, list, n) ==
    /\ t \in Seq(EventListener) /\ Proper(t)
    /\ \A i \in 1..Len(t) : \E k \in 1..n : t[i] = list[k]

LEMMA OneLeftMore ==
  ASSUME NEW list \in Seq(EventListener), Proper(list), NEW n \in 1..Len(list), NEW t,
         LeftOf(t, list, n - 1)
  PROVE  LeftOf(Append(t, list[n]), list, n) /\ LeftOf(t, list, n)
  <1>1. PICK u : u = Append(t, list[n])
    OBVIOUS
  <1>2. t \in Seq(EventListener) /\ Proper(t) /\ list[n] \in EventListener
    BY DEF LeftOf
  <1>3. /\ u \in Seq(EventListener) /\ Len(u) = Len(t) + 1 /\ Len(t) \in Nat
        /\ u[Len(t) + 1] = list[n] /\ \A i \in 1..Len(t) : u[i] = t[i]
    BY <1>1, <1>2
  <1>4. \A i \in 1..Len(t) : \E k \in 1..n - 1 : t[i] = list[k]
    BY DEF LeftOf
  <1>5. \A i \in 1..Len(t) : \E k \in 1..n : t[i] = list[k]
    BY <1>4
  <1>6. ASSUME NEW i \in 1..Len(u), NEW k \in 1..Len(u), i < k
        PROVE  u[i].priority >= u[k].priority /\ u[i] # u[k]
    <2>1. CASE k = Len(t) + 1
      <3>1. i \in 1..Len(t) /\ u[i] = t[i] /\ u[k] = list[n]
        BY <1>3, <1>6, <2>1
      <3>2. PICK m \in 1..n - 1 : t[i] = list[m]
        BY <1>4, <3>1
      <3>3. m \in 1..Len(list) /\ m < n
        OBVIOUS
      <3>4. QED
        BY <3>1, <3>2, <3>3 DEF Proper
    <2>2. CASE k # Len(t) + 1
      <3>1. k \in 1..Len(t) /\ u[k] = t[k]
        BY <1>3, <2>2
      <3>2. i \in 1..Len(t) /\ u[i] = t[i]
        BY <1>3, <1>6, <3>1
      <3>3. QED
        BY <1>2, <1>6, <3>1, <3>2 DEF Proper
    <2>3. QED
      BY <2>1, <2>2
  <1>7. ASSUME NEW i \in 1..Len(u) PROVE \E k \in 1..n : u[i] = list[k]
    <2>1. CASE i = Len(t) + 1
      BY <1>3, <2>1
    <2>2. CASE i # Len(t) + 1
      <3>1. i \in 1..Len(t)
        BY <1>3, <2>2
      <3>2. QED
        BY <1>3, <1>5, <3>1
    <2>3. QED
      BY <2>1, <2>2
  <1>8. Proper(u)
    BY <1>6 DEF Proper
  <1>9. LeftOf(u, list, n)
    BY <1>3, <1>7, <1>8 DEF LeftOf
  <1>10. LeftOf(t, list, n)
    BY <1>2, <1>5 DEF LeftOf
  <1>11. QED
    BY <1>1, <1>9, <1>10

\* f[m] is what is left of the first m of list.
Filters(f, list, removed, n) ==
    /\ f \in [0..n -> Seq(EventListener)] /\ f[0] = <<>>
    /\ \A m \in 1..n : f[m] = IF list[m] \in removed THEN f[m - 1] ELSE Append(f[m - 1], list[m])

\* There is what Filtered stands for, of as much of the list as one wants.
LEMMA FilteringExists ==
  ASSUME NEW list \in Seq(EventListener), NEW removed, NEW n \in Nat, n <= Len(list)
  PROVE  \E f : Filters(f, list, removed, n)
  <1> DEFINE Missing == {m \in Nat : m <= Len(list) /\ ~\E f : Filters(f, list, removed, m)}
  <1>1. SUFFICES ASSUME Missing # {} PROVE FALSE
    OBVIOUS
  <1>2. PICK m \in Missing : \A k \in Missing : m <= k
    <2>1. Missing \in SUBSET Nat
      OBVIOUS
    <2>2. QED
      BY <1>1, <2>1, Least
  <1>3. m # 0
    <2>1. PICK e : e = <<>>
      OBVIOUS
    <2>2. e \in Seq(EventListener)
      BY <2>1
    <2>3. PICK f : f = [k \in 0..0 |-> e]
      OBVIOUS
    <2>4. f \in [0..0 -> Seq(EventListener)] /\ f[0] = e /\ (\A k \in 1..0 : FALSE)
      BY <2>2, <2>3
    <2>5. Filters(f, list, removed, 0)
      BY <2>1, <2>4 DEF Filters
    <2>6. QED
      BY <1>2, <2>5
  <1>4. /\ m \in Nat /\ m - 1 \in Nat /\ ~(m <= m - 1) /\ m <= Len(list) /\ m - 1 <= Len(list)
        /\ m \in 1..Len(list)
    BY <1>2, <1>3
  <1>5. PICK f : Filters(f, list, removed, m - 1)
    BY <1>2, <1>4
  <1>6. PICK t : t = IF list[m] \in removed THEN f[m - 1] ELSE Append(f[m - 1], list[m])
    OBVIOUS
  <1>7. t \in Seq(EventListener)
    <2>1. f[m - 1] \in Seq(EventListener) /\ list[m] \in EventListener
      BY <1>4, <1>5 DEF Filters
    <2>2. QED
      BY <1>6, <2>1
  <1>8. PICK g : g = [k \in 0..m |-> IF k = m THEN t ELSE f[k]]
    OBVIOUS
  <1>9. g \in [0..m -> Seq(EventListener)] /\ g[m] = t /\ \A k \in 0..m - 1 : g[k] = f[k]
    BY <1>4, <1>5, <1>7, <1>8 DEF Filters
  <1>10. g[0] = <<>>
    BY <1>4, <1>5, <1>9 DEF Filters
  <1>11. ASSUME NEW k \in 1..m
         PROVE  g[k] = IF list[k] \in removed THEN g[k - 1] ELSE Append(g[k - 1], list[k])
    <2>1. g[k - 1] = f[k - 1]
      BY <1>4, <1>9
    <2>2. CASE k = m
      BY <1>6, <1>9, <2>1, <2>2
    <2>3. CASE k # m
      <3>1. k \in 1..m - 1 /\ k \in 0..m - 1
        BY <1>4, <2>3
      <3>2. QED
        BY <1>5, <1>9, <2>1, <3>1 DEF Filters
    <2>4. QED
      BY <2>2, <2>3
  <1>12. Filters(g, list, removed, m)
    BY <1>9, <1>10, <1>11 DEF Filters
  <1>13. QED
    BY <1>2, <1>12

\* What is left of a list is in its order.
LEMMA FilteredIsLeft ==
  ASSUME NEW list \in Seq(EventListener), Proper(list), NEW removed
  PROVE  LeftOf(Filtered(list, removed), list, Len(list))
  <1> DEFINE Steps(f) == f = [n \in 0..Len(list) |->
                                 IF n = 0 THEN <<>>
                                 ELSE IF list[n] \in removed THEN f[n - 1]
                                                             ELSE Append(f[n - 1], list[n])]
  <1>1. Len(list) \in Nat /\ Len(list) <= Len(list)
    OBVIOUS
  <1>2. PICK f : Filters(f, list, removed, Len(list))
    BY <1>1, FilteringExists
  <1>3. Steps(f)
    <2>1. \A n \in 0..Len(list) : f[n] = IF n = 0 THEN <<>>
                         ELSE IF list[n] \in removed THEN f[n - 1] ELSE Append(f[n - 1], list[n])
      <3> TAKE n \in 0..Len(list)
      <3>1. CASE n = 0
        BY <1>2, <3>1 DEF Filters
      <3>2. CASE n # 0
        <4>1. n \in 1..Len(list)
          BY <1>1, <3>2
        <4>2. QED
          BY <1>2, <3>2, <4>1 DEF Filters
      <3>3. QED
        BY <3>1, <3>2
    <2>2. f \in [0..Len(list) -> Seq(EventListener)]
      BY <1>2 DEF Filters
    <2>3. QED
      BY <2>1, <2>2
  <1>4. PICK g : g = CHOOSE h : Steps(h)
    OBVIOUS
  <1>5. Steps(g)
    BY <1>3, <1>4
  <1>6. Filtered(list, removed) = g[Len(list)]
    BY <1>4 DEF Filtered
  <1>7. /\ g[0] = <<>>
        /\ \A n \in 1..Len(list) :
              g[n] = IF list[n] \in removed THEN g[n - 1] ELSE Append(g[n - 1], list[n])
    <2>1. 0 \in 0..Len(list) /\ \A n \in 1..Len(list) : n \in 0..Len(list) /\ n # 0
      BY <1>1
    <2>2. QED
      BY <1>5, <2>1
  <1> HIDE DEF Steps
  <1> DEFINE Bad == {n \in Nat : n <= Len(list) /\ ~LeftOf(g[n], list, n)}
  <1>8. Bad = {}
    <2>1. SUFFICES ASSUME Bad # {} PROVE FALSE
      OBVIOUS
    <2>2. PICK n \in Bad : \A k \in Bad : n <= k
      <3>1. Bad \in SUBSET Nat
        OBVIOUS
      <3>2. QED
        BY <2>1, <3>1, Least
    <2>3. n # 0
      <3>1. PICK e : e = g[0]
        OBVIOUS
      <3>2. e \in Seq(EventListener) /\ Len(e) = 0
        BY <1>7, <3>1
      <3>3. LeftOf(e, list, 0)
        BY <3>2 DEF LeftOf, Proper
      <3>4. QED
        BY <2>2, <3>1, <3>3
    <2>4. n \in 1..Len(list) /\ n - 1 \in Nat /\ n - 1 <= Len(list) /\ ~(n <= n - 1)
      BY <1>1, <2>2, <2>3
    <2>5. LeftOf(g[n - 1], list, n - 1)
      BY <2>2, <2>4
    <2>6. g[n] = IF list[n] \in removed THEN g[n - 1] ELSE Append(g[n - 1], list[n])
      BY <1>7, <2>4
    <2>7. LeftOf(g[n], list, n)
      <3>1. PICK t : t = g[n - 1]
        OBVIOUS
      <3>2. LeftOf(Append(t, list[n]), list, n) /\ LeftOf(t, list, n)
        BY <2>4, <2>5, <3>1, OneLeftMore
      <3>3. g[n] = t \/ g[n] = Append(t, list[n])
        BY <2>6, <3>1
      <3>4. QED
        BY <3>2, <3>3
    <2>8. QED
      BY <2>2, <2>7
  <1>9. QED
    BY <1>1, <1>6, <1>8

-----------------------------------------------------------------------------
\* A new listener comes after those that are as important as it is, and before the others.
LEMMA PlaceInList ==
  ASSUME listeners \in Seq(EventListener), Proper(listeners),
         NEW l \in EventListener, Priorities \subseteq Int
  PROVE  /\ PlaceOf(l) \in 1..Len(listeners) + 1
         /\ \A i \in 1..Len(listeners) : listeners[i].priority >= l.priority <=> i < PlaceOf(l)
  <1>1. /\ Len(listeners) \in Nat /\ DOMAIN listeners = 1..Len(listeners)
        /\ \A i \in 1..Len(listeners) : listeners[i].priority \in Int
        /\ l.priority \in Int
    <2>1. Len(listeners) \in Nat /\ listeners \in [1..Len(listeners) -> EventListener]
      BY LenProperties
    <2>2. \A i \in 1..Len(listeners) : listeners[i] \in EventListener
      BY <2>1
    <2>3. \A m \in EventListener : m.priority \in Int
      BY DEF EventListener
    <2>4. QED
      BY <2>1, <2>2, <2>3
  <1> DEFINE Behind == {n \in Nat : n \in 1..Len(listeners) + 1 /\
                          (n <= Len(listeners) => ~(listeners[n].priority >= l.priority))}
  <1>2. PICK n \in Behind : \A k \in Behind : n <= k
    <2>1. Len(listeners) + 1 \in Behind
      BY <1>1
    <2>2. Behind \in SUBSET Nat /\ Behind # {}
      BY <2>1
    <2>3. QED
      BY <2>2, Least
  <1>3. n \in Nat /\ n \in 1..Len(listeners) + 1
    BY <1>2
  <1>4. ASSUME NEW i \in 1..Len(listeners)
        PROVE  listeners[i].priority >= l.priority <=> i < n
    <2>1. CASE i < n
      <3>1. i \notin Behind /\ i \in Nat /\ i \in 1..Len(listeners) + 1 /\ i <= Len(listeners)
        BY <1>1, <1>2, <1>3, <2>1
      <3>2. QED
        BY <2>1, <3>1
    <2>2. CASE i = n
      BY <1>1, <1>2, <2>2
    <2>3. CASE n < i
      <3>1. n \in 1..Len(listeners)
        BY <1>1, <1>3, <2>3
      <3>2. listeners[n].priority >= listeners[i].priority /\ ~(listeners[n].priority >= l.priority)
        BY <1>2, <2>3, <3>1 DEF Proper
      <3>3. QED
        BY <1>1, <1>3, <2>3, <3>1, <3>2
    <2>4. QED
      BY <1>3, <2>1, <2>2, <2>3
  <1>5. PICK S : S = {i \in DOMAIN listeners : listeners[i].priority >= l.priority}
    OBVIOUS
  <1>6. S = 1..n - 1
    BY <1>1, <1>3, <1>4, <1>5
  <1>7. PlaceOf(l) = n
    <2>1. n - 1 \in Int /\ 1 \in Int
      BY <1>3
    <2>2. Cardinality(S) = IF 1 > n - 1 THEN 0 ELSE n - 1 - 1 + 1
      BY <1>6, <2>1, FS_Interval
    <2>3. PlaceOf(l) = 1 + Cardinality(S)
      BY <1>5 DEF PlaceOf
    <2>4. QED
      BY <1>3, <2>2, <2>3
  <1>8. QED
    BY <1>3, <1>4, <1>7

\* t is s with l at place p.
Grown(T, s, p, l, t) ==
    /\ t \in Seq(T) /\ Len(t) = Len(s) + 1
    /\ \A i \in 1..Len(s) : i < p => t[i] = s[i]
    /\ t[p] = l
    /\ \A i \in 1..Len(s) : p <= i => t[i + 1] = s[i]

LEMMA InsertedAt ==
  ASSUME NEW T, NEW s \in Seq(T), NEW p \in 1..Len(s) + 1, NEW l \in T
  PROVE  Grown(T, s, p, l, InsertAt(s, p, l))
  <1>1. PICK a, b, c, t : /\ a = SubSeq(s, 1, p - 1) /\ b = SubSeq(s, p, Len(s)) /\ c = <<l>>
                          /\ t = a \o c \o b
    OBVIOUS
  <1>2. Len(s) \in Nat /\ p \in Nat /\ p <= Len(s) + 1 /\ 1 <= p
    OBVIOUS
  <1>3. /\ a \in Seq(T) /\ Len(a) = p - 1
        /\ \A i \in 1..p - 1 : a[i] = s[i]
    <2>1. \A i \in 1..p - 1 : s[i] \in T
      BY <1>2
    <2>2. /\ a \in Seq(T) /\ Len(a) = IF 1 <= p - 1 THEN p - 1 - 1 + 1 ELSE 0
          /\ \A i \in 1..p - 1 - 1 + 1 : a[i] = s[1 + i - 1]
      BY <1>1, <1>2, <2>1, SubSeqProperties
    <2>3. QED
      BY <1>2, <2>2
  <1>4. /\ b \in Seq(T) /\ Len(b) = Len(s) - p + 1
        /\ \A i \in 1..Len(s) - p + 1 : b[i] = s[p + i - 1]
    <2>1. \A i \in p..Len(s) : s[i] \in T
      BY <1>2
    <2>2. /\ b \in Seq(T) /\ Len(b) = IF p <= Len(s) THEN Len(s) - p + 1 ELSE 0
          /\ \A i \in 1..Len(s) - p + 1 : b[i] = s[p + i - 1]
      BY <1>1, <1>2, <2>1, SubSeqProperties
    <2>3. QED
      BY <1>2, <2>2
  <1>5. c \in Seq(T) /\ Len(c) = 1 /\ c[1] = l
    BY <1>1
  <1>6. PICK d : d = a \o c
    OBVIOUS
  <1>7. /\ d \in Seq(T) /\ Len(d) = p /\ d[p] = l
        /\ \A i \in 1..p - 1 : d[i] = s[i]
    <2>0. d \in Seq(T) /\ Len(d) = Len(a) + Len(c)
      BY <1>3, <1>5, <1>6, ConcatProperties
    <2>1. d \in Seq(T) /\ Len(d) = p
      BY <1>2, <1>3, <1>5, <2>0
    <2>2. \A i \in 1..p : d[i] = IF i <= p - 1 THEN a[i] ELSE c[i - (p - 1)]
      BY <1>2, <1>3, <1>5, <1>6, <2>1, ConcatProperties
    <2>3. d[p] = l
      <3>1. p \in 1..p /\ ~(p <= p - 1) /\ p - (p - 1) = 1
        BY <1>2
      <3>2. QED
        BY <1>5, <2>2, <3>1
    <2>4. \A i \in 1..p - 1 : d[i] = s[i]
      <3> TAKE i \in 1..p - 1
      <3>1. i \in 1..p /\ i <= p - 1
        BY <1>2
      <3>2. QED
        BY <1>3, <2>2, <3>1
    <2>5. QED
      BY <1>2, <2>1, <2>3, <2>4
  <1>8. /\ t = d \o b /\ t \in Seq(T) /\ Len(t) = Len(s) + 1
        /\ \A i \in 1..p : t[i] = d[i]
    <2>1. t = d \o b
      BY <1>1, <1>6
    <2>2. t \in Seq(T) /\ Len(t) = p + (Len(s) - p + 1)
      BY <1>4, <1>7, <2>1, ConcatProperties
    <2>3. Len(t) = Len(s) + 1
      BY <1>2, <2>2
    <2>4. \A i \in 1..Len(t) : t[i] = IF i <= p THEN d[i] ELSE b[i - p]
      BY <1>4, <1>7, <2>1, <2>2, ConcatProperties
    <2>5. \A i \in 1..p : t[i] = d[i]
      <3> TAKE i \in 1..p
      <3>1. i \in 1..Len(t) /\ i <= p
        BY <1>2, <2>3
      <3>2. QED
        BY <2>4, <3>1
    <2>6. QED
      BY <2>1, <2>2, <2>3, <2>5
  <1>9. ASSUME NEW i \in 1..Len(s), p <= i PROVE t[i + 1] = s[i]
    <2>1. i + 1 - p \in 1..Len(s) - p + 1 /\ p + (i + 1 - p) - 1 = i
      BY <1>2, <1>9
    <2>2. t[i + 1] = b[i + 1 - p]
      BY <1>2, <1>4, <1>7, <1>8, <1>9
    <2>3. QED
      BY <1>4, <2>1, <2>2
  <1>10. t = InsertAt(s, p, l)
    BY <1>1 DEF InsertAt
  <1>11. \A i \in 1..Len(s) : i < p => t[i] = s[i]
    <2> TAKE i \in 1..Len(s)
    <2> HAVE i < p
    <2>1. i \in 1..p /\ i \in 1..p - 1
      BY <1>2
    <2>2. QED
      BY <1>7, <1>8, <2>1
  <1>12. t[p] = l
    <2>1. p \in 1..p
      BY <1>2
    <2>2. QED
      BY <1>7, <1>8, <2>1
  <1>13. /\ t \in Seq(T) /\ Len(t) = Len(s) + 1
         /\ \A i \in 1..Len(s) : p <= i => t[i + 1] = s[i]
    BY <1>8, <1>9
  <1>14. QED
    BY <1>10, <1>11, <1>12, <1>13 DEF Grown

-----------------------------------------------------------------------------
DispatchRecord ==
    [at : {"calling", "gathering", "ended"}, shared : BOOLEAN, own : Seq(EventListener), taken : Nat,
     todo : SUBSET EventListener, called : Seq(EventListener), stayed : SUBSET EventListener,
     overtaken : BOOLEAN]

Calls(dispatch, l) == \E i \in 1..Len(dispatch.called) : dispatch.called[i] = l

Distinct(list) == \A i, k \in 1..Len(list) : list[i] = list[k] => i = k

\* A dispatch that calls: who stayed was called or is to come, and if none was
\* registered before one that was taken, what was called is what was taken.
Going(dispatch, list) ==
    /\ \A l \in dispatch.stayed :
          Calls(dispatch, l) \/ \E i \in dispatch.taken + 1..Len(list) : list[i] = l
    /\ ~dispatch.overtaken =>
          /\ Len(dispatch.called) = dispatch.taken
          /\ \A i \in 1..dispatch.taken : dispatch.called[i] = list[i]

\* One that waits for its tasks: who stayed was called or has a task, not both.
Gathering(dispatch) ==
    /\ \A l \in dispatch.stayed : Calls(dispatch, l) \/ l \in dispatch.todo
    /\ \A l \in dispatch.todo : ~Calls(dispatch, l)
    /\ Distinct(dispatch.called)

Through(dispatch) ==
    /\ \A l \in dispatch.stayed : Calls(dispatch, l)
    /\ ~dispatch.overtaken => Distinct(dispatch.called)

DispatchOK(dispatch, list) ==
    /\ dispatch.taken <= Len(list)
    /\ dispatch.shared => dispatch.at = "calling"
    /\ dispatch.at = "calling" => Going(dispatch, list)
    /\ dispatch.at = "gathering" => Gathering(dispatch)
    /\ dispatch.at = "ended" => Through(dispatch)

EventInv ==
    /\ listeners \in Seq(EventListener) /\ Proper(listeners)
    /\ registrations \in 0..MaxRegistrations
    /\ \A i \in 1..Len(listeners) : listeners[i].number <= registrations
    /\ dispatches \in [Dispatches -> DispatchRecord]
    /\ \A d \in Dispatches : Proper(dispatches[d].own) /\ DispatchOK(dispatches[d], ListOf(d))

LEMMA ListFacts ==
  ASSUME EventInv, NEW d \in Dispatches
  PROVE  /\ dispatches[d] \in DispatchRecord /\ DispatchOK(dispatches[d], ListOf(d))
         /\ ListOf(d) \in Seq(EventListener) /\ Proper(ListOf(d)) /\ Len(ListOf(d)) \in Nat
  BY DEF EventInv, DispatchRecord, ListOf

\* A call more or a call less makes no other call.
LEMMA OneCallMore ==
  ASSUME NEW dispatch \in DispatchRecord, NEW l \in EventListener, NEW after \in DispatchRecord,
         after.called = Append(dispatch.called, l)
  PROVE  /\ \A m : Calls(after, m) <=> Calls(dispatch, m) \/ m = l
         /\ ~Calls(dispatch, l) /\ Distinct(dispatch.called) => Distinct(after.called)
         /\ Len(after.called) = Len(dispatch.called) + 1 /\ after.called[Len(after.called)] = l
         /\ \A i \in 1..Len(dispatch.called) : after.called[i] = dispatch.called[i]
  <1>1. PICK s, t : s = dispatch.called /\ t = after.called
    OBVIOUS
  <1>2. s \in Seq(EventListener) /\ t = Append(s, l)
    BY <1>1 DEF DispatchRecord
  <1>3. /\ Len(t) = Len(s) + 1 /\ t[Len(s) + 1] = l /\ Len(s) \in Nat
        /\ \A i \in 1..Len(s) : t[i] = s[i]
    BY <1>2
  <1>4. \A i : i \in 1..Len(t) <=> i \in 1..Len(s) \/ i = Len(s) + 1
    BY <1>3
  <1>5. \A m : (\E i \in 1..Len(t) : t[i] = m) <=> (\E i \in 1..Len(s) : s[i] = m) \/ m = l
    BY <1>3, <1>4
  <1>6. (\A i \in 1..Len(s) : s[i] # l) /\ Distinct(s) => Distinct(t)
    BY <1>3, <1>4 DEF Distinct
  <1>7. QED
    BY <1>1, <1>3, <1>5, <1>6 DEF Calls

\* A new listener is put in its place of the list.
LEMMA RegisterKeeps ==
  ASSUME EventInv, RegisterListener
  PROVE  EventInv'
  <1>1. PICK callback \in Callbacks, priority \in Priorities :
           LET l == [callback |-> callback, priority |-> priority, number |-> registrations']
           IN  /\ listeners' = InsertAt(listeners, PlaceOf(l), l)
               /\ dispatches' = [d \in Dispatches |->
                     IF dispatches[d].shared /\ PlaceOf(l) <= dispatches[d].taken
                     THEN [dispatches[d] EXCEPT !.overtaken = TRUE] ELSE dispatches[d]]
    BY DEF RegisterListener
  <1>2. PICK l : l = [callback |-> callback, priority |-> priority, number |-> registrations']
    OBVIOUS
  <1>3. PICK p : p = PlaceOf(l)
    OBVIOUS
  <1>4. PICK s, t : s = listeners /\ t = InsertAt(s, p, l)
    OBVIOUS
  <1>5. /\ registrations' = registrations + 1 /\ registrations < MaxRegistrations
        /\ registrations \in Nat /\ MaxRegistrations \in Nat /\ Priorities \subseteq Int
    BY EventAssumption DEF RegisterListener, EventInv
  <1>6. l \in EventListener /\ l.number = registrations + 1
    <2>1. registrations + 1 \in 1..MaxRegistrations
      BY <1>5
    <2>2. QED
      BY <1>2, <1>5, <2>1 DEF EventListener
  <1>7. /\ s \in Seq(EventListener) /\ Proper(s) /\ Len(s) \in Nat
        /\ \A i \in 1..Len(s) : s[i].number <= registrations /\ s[i].number \in Nat
                                /\ s[i].priority \in Int
    <2>1. s \in Seq(EventListener) /\ Proper(s) /\ \A i \in 1..Len(s) : s[i].number <= registrations
      BY <1>4 DEF EventInv
    <2>2. Len(s) \in Nat /\ \A i \in 1..Len(s) : s[i] \in EventListener
      BY <2>1
    <2>3. \A m \in EventListener : m.number \in Nat /\ m.priority \in Int
      <3> TAKE m \in EventListener
      <3>1. m.number \in 1..MaxRegistrations /\ m.priority \in Priorities
        BY DEF EventListener
      <3>2. m.number \in Nat
        BY <1>5, <3>1
      <3>3. m.priority \in Int
        BY <1>5, <3>1
      <3>4. QED
        BY <3>2, <3>3
    <2>4. QED
      BY <2>1, <2>2, <2>3
  <1>8. /\ p \in 1..Len(s) + 1
        /\ \A i \in 1..Len(s) : s[i].priority >= l.priority <=> i < p
    BY <1>3, <1>4, <1>5, <1>6, <1>7, PlaceInList
  <1>9. /\ t \in Seq(EventListener) /\ Len(t) = Len(s) + 1 /\ t[p] = l
        /\ \A i \in 1..Len(s) : i < p => t[i] = s[i]
        /\ \A i \in 1..Len(s) : p <= i => t[i + 1] = s[i]
    <2>1. Grown(EventListener, s, p, l, t)
      BY <1>4, <1>6, <1>7, <1>8, InsertedAt
    <2>2. QED
      BY <2>1 DEF Grown
  <1>10. \A i \in 1..Len(t) : \/ i < p /\ i \in 1..Len(s) /\ t[i] = s[i]
                              \/ i = p /\ t[i] = l
                              \/ p < i /\ i - 1 \in 1..Len(s) /\ t[i] = s[i - 1]
    <2> SUFFICES ASSUME NEW i \in 1..Len(t), i # p
                 PROVE  \/ i < p /\ i \in 1..Len(s) /\ t[i] = s[i]
                        \/ p < i /\ i - 1 \in 1..Len(s) /\ t[i] = s[i - 1]
      BY <1>9
    <2>1. CASE i < p
      <3>1. i \in 1..Len(s)
        BY <1>7, <1>8, <1>9, <2>1
      <3>2. QED
        BY <1>9, <2>1, <3>1
    <2>2. CASE p < i
      <3>1. i - 1 \in 1..Len(s) /\ p <= i - 1 /\ (i - 1) + 1 = i
        BY <1>7, <1>8, <1>9, <2>2
      <3>2. QED
        BY <1>9, <2>2, <3>1
    <2>3. QED
      BY <1>8, <2>1, <2>2
  <1>11. \A i \in 1..Len(s) : s[i] # l
    BY <1>5, <1>6, <1>7
  <1>12. Proper(t)
    <2> SUFFICES ASSUME NEW i \in 1..Len(t), NEW k \in 1..Len(t), i < k
                 PROVE  t[i].priority >= t[k].priority /\ t[i] # t[k]
      BY DEF Proper
    <2>1. l.priority \in Int
      BY <1>2, <1>5
    <2>2. CASE i < p /\ k < p
      BY <1>7, <1>8, <1>10, <2>2 DEF Proper
    <2>3. CASE i < p /\ k = p
      BY <1>8, <1>10, <1>11, <2>3
    <2>4. CASE i < p /\ p < k
      <3>1. i \in 1..Len(s) /\ k - 1 \in 1..Len(s) /\ i < k - 1 /\ t[i] = s[i] /\ t[k] = s[k - 1]
        BY <1>8, <1>10, <2>4
      <3>2. QED
        BY <1>7, <3>1 DEF Proper
    <2>5. CASE i = p /\ p < k
      <3>1. k - 1 \in 1..Len(s) /\ t[k] = s[k - 1] /\ ~(k - 1 < p) /\ t[i] = l
        BY <1>8, <1>10, <2>5
      <3>2. QED
        BY <1>7, <1>8, <1>11, <2>1, <3>1
    <2>6. CASE p < i
      <3>1. /\ i - 1 \in 1..Len(s) /\ k - 1 \in 1..Len(s) /\ i - 1 < k - 1
            /\ t[i] = s[i - 1] /\ t[k] = s[k - 1]
        BY <1>8, <1>10, <2>6
      <3>2. QED
        BY <1>7, <3>1 DEF Proper
    <2>7. QED
      BY <1>8, <2>2, <2>3, <2>4, <2>5, <2>6
  <1>13. \A i \in 1..Len(t) : t[i].number <= registrations'
    <2> TAKE i \in 1..Len(t)
    <2>1. t[i] = l \/ \E j \in 1..Len(s) : t[i] = s[j]
      BY <1>10
    <2>2. QED
      BY <1>5, <1>6, <1>7, <2>1
  <1>14. listeners' = t
    BY <1>1, <1>2, <1>3, <1>4
  <1>15. ASSUME NEW d \in Dispatches
         PROVE  /\ dispatches'[d] \in DispatchRecord /\ Proper(dispatches'[d].own)
                /\ DispatchOK(dispatches'[d], ListOf(d)')
    <2>1. dispatches'[d] = IF dispatches[d].shared /\ p <= dispatches[d].taken
                           THEN [dispatches[d] EXCEPT !.overtaken = TRUE] ELSE dispatches[d]
      BY <1>1, <1>2, <1>3
    <2>2. PICK e, f : e = dispatches[d] /\ f = dispatches'[d]
      OBVIOUS
    <2>3. e \in DispatchRecord /\ DispatchOK(e, ListOf(d)) /\ Proper(e.own)
      BY <2>2, ListFacts DEF EventInv
    <2>4. /\ f \in DispatchRecord /\ f.at = e.at /\ f.shared = e.shared /\ f.own = e.own
          /\ f.taken = e.taken /\ f.called = e.called /\ f.stayed = e.stayed /\ f.todo = e.todo
      BY <2>1, <2>2, <2>3 DEF DispatchRecord
    <2>5. ListOf(d)' = IF e.shared THEN t ELSE e.own
      BY <1>14, <2>2, <2>4 DEF ListOf
    <2>6. CASE ~e.shared
      <3>1. f = e /\ ListOf(d)' = ListOf(d)
        BY <2>1, <2>2, <2>5, <2>6 DEF ListOf
      <3>2. QED
        BY <2>2, <2>3, <3>1
    <2>7. CASE e.shared
      <3>1. e.at = "calling" /\ Going(e, s) /\ e.taken <= Len(s) /\ e.taken \in Nat
        BY <1>4, <2>2, <2>3, <2>7 DEF ListOf, DispatchOK, DispatchRecord
      <3>2. ASSUME NEW m \in f.stayed
            PROVE  Calls(f, m) \/ \E i \in f.taken + 1..Len(t) : t[i] = m
        <4>1. CASE Calls(e, m)
          BY <2>4, <4>1 DEF Calls
        <4>2. CASE \E i \in e.taken + 1..Len(s) : s[i] = m
          <5>1. PICK i \in e.taken + 1..Len(s) : s[i] = m
            BY <4>2
          <5>2. i \in 1..Len(s)
            BY <3>1
          <5>3. CASE i < p
            <6>1. i \in f.taken + 1..Len(t) /\ t[i] = m
              BY <1>7, <1>9, <2>4, <3>1, <5>1, <5>2, <5>3
            <6>2. QED
              BY <6>1
          <5>4. CASE p <= i
            <6>1. i + 1 \in f.taken + 1..Len(t) /\ t[i + 1] = m
              BY <1>7, <1>9, <2>4, <3>1, <5>1, <5>2, <5>4
            <6>2. QED
              BY <6>1
          <5>5. QED
            BY <1>8, <5>2, <5>3, <5>4
        <4>3. QED
          BY <2>4, <3>1, <4>1, <4>2 DEF Going
      <3>3. ASSUME ~f.overtaken
            PROVE  Len(f.called) = f.taken /\ \A i \in 1..f.taken : f.called[i] = t[i]
        <4>1. ~e.overtaken /\ e.taken < p
          <5>1. p <= e.taken => f.overtaken
            BY <2>1, <2>2, <2>3, <2>7 DEF DispatchRecord
          <5>2. e.overtaken => f.overtaken
            BY <2>1, <2>2, <2>3 DEF DispatchRecord
          <5>3. QED
            BY <1>8, <3>1, <3>3, <5>1, <5>2
        <4>2. Len(e.called) = e.taken /\ \A i \in 1..e.taken : e.called[i] = s[i]
          BY <3>1, <4>1 DEF Going
        <4>3. \A i \in 1..e.taken : t[i] = s[i]
          BY <1>7, <1>8, <1>9, <3>1, <4>1
        <4>4. QED
          BY <2>4, <4>2, <4>3
      <3>4. Going(f, t)
        BY <3>2, <3>3 DEF Going
      <3>5. f.taken <= Len(t)
        BY <1>7, <1>9, <2>4, <3>1
      <3>6. QED
        BY <2>2, <2>3, <2>4, <2>5, <2>7, <3>1, <3>4, <3>5 DEF DispatchOK
    <2>8. QED
      BY <2>6, <2>7
  <1>16. dispatches' \in [Dispatches -> DispatchRecord]
    <2>1. \E g : dispatches' = [d \in Dispatches |-> g[d]]
      <3>1. PICK g : g = dispatches'
        OBVIOUS
      <3>2. dispatches' = [d \in Dispatches |-> g[d]]
        BY <1>1, <3>1
      <3>3. QED
        BY <3>2
    <2>2. QED
      BY <1>15, <2>1
  <1>17. registrations' \in 0..MaxRegistrations
    BY <1>5
  <1>18. QED
    BY <1>9, <1>12, <1>13, <1>14, <1>15, <1>16, <1>17 DEF EventInv

\* One dispatch changes, and the registry does not.
LEMMA DispatchKeeps ==
  ASSUME EventInv, NEW d \in Dispatches, NEW f \in DispatchRecord, UNCHANGED <<listeners, registrations>>,
         dispatches' = [dispatches EXCEPT ![d] = f], Proper(f.own),
         DispatchOK(f, IF f.shared THEN listeners ELSE f.own)
  PROVE  EventInv'
  <1>1. \A c \in Dispatches : dispatches'[c] = IF c = d THEN f ELSE dispatches[c]
    BY DEF EventInv
  <1>2. dispatches' \in [Dispatches -> DispatchRecord]
    BY DEF EventInv
  <1>3. ASSUME NEW c \in Dispatches
        PROVE  Proper(dispatches'[c].own) /\ DispatchOK(dispatches'[c], ListOf(c)')
    <2>1. CASE c = d
      BY <1>1, <2>1 DEF ListOf
    <2>2. CASE c # d
      <3>1. dispatches'[c] = dispatches[c] /\ ListOf(c)' = ListOf(c)
        BY <1>1, <2>2 DEF ListOf
      <3>2. QED
        BY <3>1 DEF EventInv
    <2>3. QED
      BY <2>1, <2>2
  <1>4. QED
    BY <1>2, <1>3 DEF EventInv

\* Listeners are removed: dispatches under way go on with the list as it was.
LEMMA RemovalKeeps ==
  ASSUME EventInv, NEW removed, WithoutListeners(removed)
  PROVE  EventInv'
  <1>1. PICK s, t : s = listeners /\ t = Filtered(listeners, removed)
    OBVIOUS
  <1>2. /\ listeners' = t /\ UNCHANGED registrations
        /\ dispatches' = [d \in Dispatches |-> IF dispatches[d].at = "ended" THEN dispatches[d]
                                                                         ELSE Detached(d, removed)]
    BY <1>1 DEF WithoutListeners
  <1>3. s \in Seq(EventListener) /\ Proper(s)
    BY <1>1 DEF EventInv
  <1>4. /\ t \in Seq(EventListener) /\ Proper(t)
        /\ \A i \in 1..Len(t) : \E k \in 1..Len(s) : t[i] = s[k]
    BY <1>1, <1>3, FilteredIsLeft DEF LeftOf
  <1>5. \A i \in 1..Len(t) : t[i].number <= registrations'
    BY <1>1, <1>2, <1>4 DEF EventInv
  <1>6. ASSUME NEW d \in Dispatches
         PROVE  /\ dispatches'[d] \in DispatchRecord /\ Proper(dispatches'[d].own)
                /\ DispatchOK(dispatches'[d], ListOf(d)')
    <2>1. PICK e, f, list : e = dispatches[d] /\ f = dispatches'[d] /\ list = ListOf(d)
      OBVIOUS
    <2>2. /\ e \in DispatchRecord /\ DispatchOK(e, list) /\ Proper(e.own)
          /\ list \in Seq(EventListener) /\ Proper(list)
      BY <2>1, ListFacts DEF EventInv
    <2>3. CASE e.at = "ended"
      <3>1. f = e /\ ~e.shared
        BY <1>2, <2>1, <2>2, <2>3 DEF DispatchOK
      <3>2. ListOf(d)' = list
        BY <2>1, <3>1 DEF ListOf
      <3>3. QED
        BY <2>1, <2>2, <3>1, <3>2
    <2>4. CASE e.at # "ended"
      <3>1. f = [e EXCEPT !.shared = FALSE, !.own = list, !.stayed = @ \ removed]
        BY <1>2, <2>1, <2>4 DEF Detached
      <3>2. /\ f \in DispatchRecord /\ ~f.shared /\ f.own = list /\ f.stayed \subseteq e.stayed
            /\ f.at = e.at /\ f.taken = e.taken /\ f.called = e.called /\ f.todo = e.todo
            /\ f.overtaken = e.overtaken
        BY <2>2, <3>1 DEF DispatchRecord
      <3>3. ListOf(d)' = list
        BY <2>1, <3>2 DEF ListOf
      <3>4. Going(e, list) => Going(f, list)
        BY <3>2 DEF Going, Calls
      <3>5. Gathering(e) => Gathering(f)
        BY <3>2 DEF Gathering, Calls
      <3>6. DispatchOK(f, list)
        BY <2>2, <2>4, <3>2, <3>4, <3>5 DEF DispatchOK
      <3>7. QED
        BY <2>1, <2>2, <3>2, <3>3, <3>6
    <2>5. QED
      BY <2>3, <2>4
  <1>7. dispatches' \in [Dispatches -> DispatchRecord]
    <2>1. PICK g : g = dispatches'
      OBVIOUS
    <2>2. g = [d \in Dispatches |-> g[d]]
      BY <1>2, <2>1
    <2>3. QED
      BY <1>6, <2>1, <2>2
  <1>8. QED
    BY <1>2, <1>4, <1>5, <1>6, <1>7 DEF EventInv

LEMMA BeginsCalling ==
  ASSUME EventInv, NEW d \in Dispatches, DispatchEvent(d)
  PROVE  EventInv'
  <1>1. PICK e, r : e = <<>> /\ r = Range(listeners)
    OBVIOUS
  <1>2. PICK b \in BOOLEAN : b = (listeners # <<>>)
    OBVIOUS
  <1>3. PICK f : f = [NotDispatching EXCEPT !.at = "calling", !.shared = b, !.stayed = r]
    OBVIOUS
  <1>4. e \in Seq(EventListener) /\ Len(e) = 0 /\ Proper(e)
    BY <1>1 DEF Proper
  <1>5. \A l : l \in r <=> \E i \in 1..Len(listeners) : listeners[i] = l
    <2>1. DOMAIN listeners = 1..Len(listeners)
      BY LenProperties DEF EventInv
    <2>2. QED
      BY <1>1, <2>1 DEF Range
  <1>6. r \subseteq EventListener /\ Len(listeners) \in Nat
    BY <1>5 DEF EventInv
  <1>7. /\ f = [at |-> "calling", shared |-> b, own |-> e, taken |-> 0, todo |-> {},
                called |-> e, stayed |-> r, overtaken |-> FALSE]
    BY <1>1, <1>3 DEF NotDispatching
  <1>8. f \in DispatchRecord
    BY <1>4, <1>6, <1>7 DEF DispatchRecord
  <1>9. PICK list : list = IF f.shared THEN listeners ELSE f.own
    OBVIOUS
  <1>10. list = listeners
    BY <1>1, <1>2, <1>7, <1>9
  <1>11. Going(f, list)
    <2>1. \A l \in r : \E i \in 0 + 1..Len(list) : list[i] = l
      BY <1>5, <1>10
    <2>2. QED
      BY <1>4, <1>7, <2>1 DEF Going
  <1>12. DispatchOK(f, list)
    BY <1>6, <1>7, <1>10, <1>11 DEF DispatchOK
  <1>13. dispatches' = [dispatches EXCEPT ![d] = f] /\ UNCHANGED <<listeners, registrations>>
    BY <1>1, <1>2, <1>3 DEF DispatchEvent
  <1>14. Proper(f.own)
    BY <1>4, <1>7
  <1>15. QED
    BY <1>8, <1>9, <1>12, <1>13, <1>14, DispatchKeeps

LEMMA CallKeeps ==
  ASSUME EventInv, NEW d \in Dispatches, CallListener(d)
  PROVE  EventInv'
  <1>1. PICK e, list : e = dispatches[d] /\ list = ListOf(d)
    OBVIOUS
  <1>2. /\ e \in DispatchRecord /\ DispatchOK(e, list) /\ Proper(e.own)
        /\ list \in Seq(EventListener) /\ Proper(list) /\ Len(list) \in Nat
        /\ list = IF e.shared THEN listeners ELSE e.own
    BY <1>1, ListFacts DEF EventInv, ListOf
  <1>3. /\ e.at = "calling" /\ e.taken \in Nat /\ e.taken <= Len(list) /\ Going(e, list)
        /\ e.called \in Seq(EventListener) /\ Len(e.called) \in Nat /\ e.overtaken \in BOOLEAN
    BY <1>1, <1>2 DEF CallListener, DispatchOK, DispatchRecord
  <1>4. PICK f : f = IF e.taken < Len(list)
                     THEN [e EXCEPT !.taken = @ + 1, !.called = Append(@, list[e.taken + 1])]
                     ELSE [e EXCEPT !.at = "ended", !.shared = FALSE, !.own = <<>>, !.taken = 0]
    OBVIOUS
  <1>5. dispatches' = [dispatches EXCEPT ![d] = f] /\ UNCHANGED <<listeners, registrations>>
    BY <1>1, <1>4 DEF CallListener
  <1>6. CASE e.taken < Len(list)
    <2>1. PICK l : l = list[e.taken + 1]
      OBVIOUS
    <2>2. l \in EventListener /\ e.taken + 1 \in 1..Len(list)
      BY <1>2, <1>3, <1>6, <2>1
    <2>3. /\ f \in DispatchRecord /\ f.taken = e.taken + 1 /\ f.called = Append(e.called, l)
          /\ f.at = e.at /\ f.shared = e.shared /\ f.own = e.own /\ f.stayed = e.stayed
          /\ f.overtaken = e.overtaken
      <3>1. PICK c, k : c = Append(e.called, l) /\ k = e.taken + 1
        OBVIOUS
      <3>2. c \in Seq(EventListener) /\ k \in Nat
        BY <1>3, <2>2, <3>1, AppendProperties
      <3>3. f = [e EXCEPT !.taken = k, !.called = c]
        BY <1>2, <1>4, <1>6, <2>1, <3>1 DEF DispatchRecord
      <3>4. QED
        BY <1>2, <1>3, <3>1, <3>2, <3>3 DEF DispatchRecord
    <2>4. /\ \A m : Calls(f, m) <=> Calls(e, m) \/ m = l
          /\ Len(f.called) = Len(e.called) + 1 /\ f.called[Len(f.called)] = l
          /\ \A i \in 1..Len(e.called) : f.called[i] = e.called[i]
      BY <1>2, <2>2, <2>3, OneCallMore
    <2>5. ASSUME NEW m \in f.stayed
          PROVE  Calls(f, m) \/ \E i \in f.taken + 1..Len(list) : list[i] = m
      <3>1. Calls(e, m) \/ \E i \in e.taken + 1..Len(list) : list[i] = m
        BY <1>3, <2>3 DEF Going
      <3>2. CASE \E i \in e.taken + 1..Len(list) : list[i] = m
        <4>1. PICK i \in e.taken + 1..Len(list) : list[i] = m
          BY <3>2
        <4>2. CASE i = e.taken + 1
          BY <2>1, <2>4, <4>1, <4>2
        <4>3. CASE i # e.taken + 1
          <5>1. i \in f.taken + 1..Len(list)
            BY <1>2, <1>3, <2>3, <4>3
          <5>2. QED
            BY <4>1, <5>1
        <4>4. QED
          BY <4>2, <4>3
      <3>3. QED
        BY <2>4, <3>1, <3>2
    <2>6. ASSUME ~f.overtaken
          PROVE  Len(f.called) = f.taken /\ \A i \in 1..f.taken : f.called[i] = list[i]
      <3>1. Len(e.called) = e.taken /\ \A i \in 1..e.taken : e.called[i] = list[i]
        BY <1>3, <2>3, <2>6 DEF Going
      <3>2. ASSUME NEW i \in 1..f.taken PROVE f.called[i] = list[i]
        <4>1. CASE i = e.taken + 1
          BY <2>1, <2>4, <3>1, <4>1
        <4>2. CASE i # e.taken + 1
          <5>1. i \in 1..e.taken
            BY <1>3, <2>3, <4>2
          <5>2. QED
            BY <2>4, <3>1, <5>1
        <4>3. QED
          BY <4>1, <4>2
      <3>3. QED
        BY <2>3, <2>4, <3>1, <3>2
    <2>7. Going(f, list)
      BY <2>5, <2>6 DEF Going
    <2>8. f.taken <= Len(list)
      BY <1>2, <1>3, <1>6, <2>3
    <2>9. DispatchOK(f, list)
      BY <1>3, <2>3, <2>7, <2>8 DEF DispatchOK
    <2>10. Proper(f.own) /\ list = IF f.shared THEN listeners ELSE f.own
      BY <1>2, <2>3
    <2>11. QED
      BY <1>5, <2>3, <2>9, <2>10, DispatchKeeps
  <1>7. CASE ~(e.taken < Len(list))
    <2>1. PICK g : g = <<>>
      OBVIOUS
    <2>2. g \in Seq(EventListener) /\ Len(g) = 0 /\ Proper(g)
      BY <2>1 DEF Proper
    <2>3. /\ f \in DispatchRecord /\ f.at = "ended" /\ ~f.shared /\ f.own = g /\ f.taken = 0
          /\ f.called = e.called /\ f.stayed = e.stayed /\ f.overtaken = e.overtaken
      BY <1>2, <1>4, <1>7, <2>1, <2>2 DEF DispatchRecord
    <2>4. e.taken = Len(list)
      BY <1>2, <1>3, <1>7
    <2>5. \A m \in f.stayed : Calls(f, m)
      BY <1>2, <1>3, <2>3, <2>4 DEF Going, Calls
    <2>6. ASSUME ~f.overtaken PROVE Distinct(f.called)
      <3>1. Len(e.called) = Len(list) /\ \A i \in 1..Len(list) : e.called[i] = list[i]
        BY <1>3, <2>3, <2>4, <2>6 DEF Going
      <3>2. \A i, k \in 1..Len(list) : list[i] = list[k] => i = k
        <4> TAKE i, k \in 1..Len(list)
        <4>1. i < k \/ k < i \/ i = k
          OBVIOUS
        <4>2. QED
          BY <1>2, <4>1 DEF Proper
      <3>3. QED
        BY <2>3, <3>1, <3>2 DEF Distinct
    <2>7. Through(f)
      BY <2>5, <2>6 DEF Through
    <2>8. DispatchOK(f, f.own)
      BY <2>2, <2>3, <2>7 DEF DispatchOK
    <2>9. QED
      BY <1>5, <2>2, <2>3, <2>8, DispatchKeeps
  <1>8. QED
    BY <1>6, <1>7

LEMMA BeginsGathering ==
  ASSUME EventInv, NEW d \in Dispatches, DispatchAsync(d)
  PROVE  EventInv'
  <1>1. PICK e, r : e = <<>> /\ r = Range(listeners)
    OBVIOUS
  <1>2. PICK f : f = [NotDispatching EXCEPT !.at = "gathering", !.todo = r, !.stayed = r]
    OBVIOUS
  <1>3. e \in Seq(EventListener) /\ Len(e) = 0 /\ Proper(e) /\ Distinct(e)
    BY <1>1 DEF Proper, Distinct
  <1>4. r \subseteq EventListener
    <2>1. listeners \in [1..Len(listeners) -> EventListener] /\ DOMAIN listeners = 1..Len(listeners)
      BY LenProperties DEF EventInv
    <2>2. QED
      BY <1>1, <2>1 DEF Range
  <1>5. /\ f = [at |-> "gathering", shared |-> FALSE, own |-> e, taken |-> 0, todo |-> r,
                called |-> e, stayed |-> r, overtaken |-> FALSE]
    BY <1>1, <1>2 DEF NotDispatching
  <1>6. f \in DispatchRecord
    BY <1>3, <1>4, <1>5 DEF DispatchRecord
  <1>7. Gathering(f)
    BY <1>3, <1>5 DEF Gathering, Calls
  <1>8. DispatchOK(f, f.own)
    BY <1>3, <1>5, <1>7 DEF DispatchOK
  <1>9. dispatches' = [dispatches EXCEPT ![d] = f] /\ UNCHANGED <<listeners, registrations>>
    BY <1>1, <1>2 DEF DispatchAsync
  <1>10. Proper(f.own) /\ ~f.shared
    BY <1>3, <1>5
  <1>11. QED
    BY <1>6, <1>8, <1>9, <1>10, DispatchKeeps

LEMMA RunKeeps ==
  ASSUME EventInv, NEW d \in Dispatches, RunListener(d)
  PROVE  EventInv'
  <1>1. PICK e : e = dispatches[d]
    OBVIOUS
  <1>2. /\ e \in DispatchRecord /\ Proper(e.own) /\ DispatchOK(e, ListOf(d))
        /\ e.at = "gathering" /\ ~e.shared /\ Gathering(e) /\ ListOf(d) = e.own /\ e.taken <= Len(e.own)
        /\ UNCHANGED <<listeners, registrations>>
    BY <1>1, ListFacts DEF EventInv, RunListener, DispatchOK, ListOf
  <1>3. ASSUME NEW l \in e.todo,
               dispatches' = [dispatches EXCEPT ![d].todo = @ \ {l}, ![d].called = Append(@, l)]
        PROVE  EventInv'
    <2>1. PICK f : f = [e EXCEPT !.todo = @ \ {l}, !.called = Append(@, l)]
      OBVIOUS
    <2>2. dispatches' = [dispatches EXCEPT ![d] = f]
      BY <1>1, <1>3, <2>1 DEF EventInv
    <2>3. l \in EventListener /\ e.called \in Seq(EventListener)
      BY <1>2 DEF DispatchRecord
    <2>4. /\ f \in DispatchRecord /\ f.at = e.at /\ f.shared = e.shared /\ f.own = e.own
          /\ f.taken = e.taken /\ f.stayed = e.stayed /\ f.todo = e.todo \ {l}
          /\ f.called = Append(e.called, l)
      <3>1. PICK c, n : c = Append(e.called, l) /\ n = e.todo \ {l}
        OBVIOUS
      <3>2. c \in Seq(EventListener)
        BY <2>3, <3>1, AppendProperties
      <3>3. n \subseteq EventListener
        BY <1>2, <3>1 DEF DispatchRecord
      <3>4. f = [e EXCEPT !.todo = n, !.called = c]
        BY <1>2, <2>1, <3>1 DEF DispatchRecord
      <3>5. QED
        BY <1>2, <3>1, <3>2, <3>3, <3>4 DEF DispatchRecord
    <2>5. /\ \A m : Calls(f, m) <=> Calls(e, m) \/ m = l
          /\ ~Calls(e, l) /\ Distinct(e.called) => Distinct(f.called)
      BY <1>2, <2>3, <2>4, OneCallMore
    <2>6. Gathering(f)
      BY <1>2, <2>4, <2>5 DEF Gathering
    <2>7. DispatchOK(f, f.own)
      BY <1>2, <2>4, <2>6 DEF DispatchOK
    <2>8. QED
      BY <1>2, <2>2, <2>4, <2>7, DispatchKeeps
  <1>4. ASSUME e.todo = {}, dispatches' = [dispatches EXCEPT ![d].at = "ended"]
        PROVE  EventInv'
    <2>1. PICK f : f = [e EXCEPT !.at = "ended"]
      OBVIOUS
    <2>2. dispatches' = [dispatches EXCEPT ![d] = f]
      BY <1>1, <1>4, <2>1 DEF EventInv
    <2>3. /\ f \in DispatchRecord /\ f.at = "ended" /\ f.shared = e.shared /\ f.own = e.own
          /\ f.taken = e.taken /\ f.stayed = e.stayed /\ f.called = e.called
      BY <1>2, <2>1 DEF DispatchRecord
    <2>4. Through(f)
      BY <1>2, <1>4, <2>3 DEF Gathering, Through, Calls
    <2>5. DispatchOK(f, f.own)
      BY <1>2, <2>3, <2>4 DEF DispatchOK
    <2>6. QED
      BY <1>2, <2>2, <2>3, <2>5, DispatchKeeps
  <1>5. QED
    BY <1>1, <1>3, <1>4 DEF RunListener

LEMMA EventNextKeeps ==
  ASSUME EventInv, [EventNext]_eventVars
  PROVE  EventInv'
  <1>1. CASE UNCHANGED eventVars
    BY <1>1 DEF eventVars, EventInv, ListOf
  <1>2. CASE EventNext
    BY <1>2, RegisterKeeps, RemovalKeeps, BeginsCalling, CallKeeps, BeginsGathering, RunKeeps
    DEF EventNext, RemoveListeners, RemoveAllListeners
  <1>3. QED
    BY <1>1, <1>2

LEMMA AlwaysEventInv == EventSpec => []EventInv
  <1>1. EventInit => EventInv
    <2> SUFFICES ASSUME EventInit PROVE EventInv
      OBVIOUS
    <2>1. PICK e : e = <<>>
      OBVIOUS
    <2>2. e \in Seq(EventListener) /\ Len(e) = 0 /\ Proper(e) /\ Distinct(e)
      BY <2>1 DEF Proper, Distinct
    <2>3. NotDispatching = [at |-> "ended", shared |-> FALSE, own |-> e, taken |-> 0, todo |-> {},
                            called |-> e, stayed |-> {}, overtaken |-> FALSE]
      BY <2>1 DEF NotDispatching
    <2>4. NotDispatching \in DispatchRecord /\ DispatchOK(NotDispatching, e) /\ Proper(NotDispatching.own)
      BY <2>2, <2>3 DEF DispatchRecord, DispatchOK, Through
    <2>5. \A d \in Dispatches : dispatches[d] = NotDispatching /\ ListOf(d) = e
      BY <2>3 DEF EventInit, ListOf
    <2>6. listeners = e /\ registrations = 0 /\ dispatches \in [Dispatches -> DispatchRecord]
      BY <2>1, <2>4 DEF EventInit
    <2>7. 0 \in 0..MaxRegistrations
      BY EventAssumption
    <2>8. QED
      BY <2>2, <2>4, <2>5, <2>6, <2>7 DEF EventInv
  <1>2. QED
    BY <1>1, EventNextKeeps, PTL DEF EventSpec

\* The registry's list and the dispatches keep their types, whoever registers and removes.
THEOREM EventsTypeCorrect == EventSpec => []EventTypeOK
  <1>1. EventInv => EventTypeOK
    <2> SUFFICES ASSUME EventInv PROVE EventTypeOK
      OBVIOUS
    <2>1. ASSUME NEW d \in Dispatches
          PROVE  /\ dispatches[d] \in DispatchRecord /\ dispatches[d].taken \in 0..Len(ListOf(d))
      BY ListFacts DEF DispatchOK, DispatchRecord
    <2>2. QED
      BY <2>1 DEF EventTypeOK, EventInv, DispatchRecord
  <1>2. QED
    BY <1>1, AlwaysEventInv, PTL

\* With any number of dispatches at a time, of callbacks and of priorities, and whatever
\* is registered and removed meanwhile: who was there all the time is called, in the
\* order of priority, and twice only if a dispatch was overtaken.
THEOREM ListenersHear == EventSpec => []EachListenerHears
  <1>1. ASSUME EventInv, NEW d \in Dispatches
        PROVE  LET dispatch == dispatches[d]
               IN  /\ dispatch.at = "ended" => dispatch.stayed \subseteq Range(dispatch.called)
                   /\ ~dispatch.overtaken => IsInjective(dispatch.called)
                   /\ dispatch.at = "calling" /\ ~dispatch.overtaken =>
                         \A i, k \in DOMAIN dispatch.called :
                             i < k => dispatch.called[i].priority >= dispatch.called[k].priority
    <2>1. PICK e, list : e = dispatches[d] /\ list = ListOf(d)
      OBVIOUS
    <2>2. /\ e \in DispatchRecord /\ DispatchOK(e, list) /\ Proper(list) /\ Len(list) \in Nat
      BY <1>1, <2>1, ListFacts
    <2>3. DOMAIN e.called = 1..Len(e.called) /\ e.called \in Seq(EventListener) /\ e.taken \in Nat
      BY <2>2, LenProperties DEF DispatchRecord
    <2>4. ASSUME e.at = "ended" PROVE e.stayed \subseteq Range(e.called)
      BY <2>2, <2>3, <2>4 DEF DispatchOK, Through, Calls, Range
    <2>5. ASSUME e.at = "calling", ~e.overtaken
          PROVE  \A i, k \in 1..Len(e.called) :
                    i < k => e.called[i].priority >= e.called[k].priority /\ e.called[i] # e.called[k]
      <3>1. /\ Len(e.called) = e.taken /\ e.taken <= Len(list)
            /\ \A i \in 1..e.taken : e.called[i] = list[i]
        BY <2>2, <2>5 DEF DispatchOK, Going
      <3>2. \A i \in 1..e.taken : i \in 1..Len(list)
        BY <2>2, <2>3, <3>1
      <3>3. QED
        BY <2>2, <3>1, <3>2 DEF Proper
    <2>6. ASSUME ~e.overtaken PROVE Distinct(e.called)
      <3>1. CASE e.at = "calling"
        <4> SUFFICES ASSUME NEW i \in 1..Len(e.called), NEW k \in 1..Len(e.called), i # k
                     PROVE  e.called[i] # e.called[k]
          BY DEF Distinct
        <4>1. i < k \/ k < i
          OBVIOUS
        <4>2. QED
          BY <2>5, <2>6, <3>1, <4>1
      <3>2. CASE e.at = "gathering"
        BY <2>2, <3>2 DEF DispatchOK, Gathering
      <3>3. CASE e.at = "ended"
        BY <2>2, <2>6, <3>3 DEF DispatchOK, Through
      <3>4. QED
        BY <2>2, <3>1, <3>2, <3>3 DEF DispatchRecord
    <2>7. ~e.overtaken => IsInjective(e.called)
      BY <2>3, <2>6 DEF Distinct, IsInjective
    <2>8. QED
      BY <2>1, <2>3, <2>4, <2>5, <2>7
  <1>2. EventInv => EachListenerHears
    BY <1>1 DEF EachListenerHears
  <1>3. QED
    BY <1>2, AlwaysEventInv, PTL

-----------------------------------------------------------------------------
(* The response to a request *)

Starts ==
    [type : {"start"}, of : SUBSET Nat, length : {Unknown} \union 0..MaxSize, fit : BOOLEAN]

Parts == [type : {"body"}, of : SUBSET Nat, size : Nat, more : BOOLEAN]

Message == Starts \union Parts

NothingWithheld == [start |-> NoStart, of |-> {}, size |-> 0]

\* The messages of one response, all of them.
Complete(q) ==
    /\ q \in Seq(Message) /\ Len(q) >= 2 /\ q[1] \in Starts
    /\ \A i \in 2..Len(q) : q[i] \in Parts /\ q[i].of = q[1].of /\ (~q[i].more => i = Len(q))
    /\ ~q[Len(q)].more
    /\ request.method = "GET" => q[1].length \in {Unknown, BytesTo(q)[Len(q)]}

Unsent == out = <<>> /\ withheld = NothingWithheld /\ ~flushing

\* What the server has and what is to be sent are one response.
Passing ==
    /\ Complete(out \o pending)
    /\ withheld.start # NoStart => flushing
    /\ out = <<>> => withheld = NothingWithheld \/ (flushing /\ withheld.start # NoStart)

\* Compression has the first k messages of a response q, and the others are to be sent.
Holding(q, k) ==
    /\ Complete(q) /\ k \in 1..Len(q) - 1 /\ pending = SubSeq(q, k + 1, Len(q))
    /\ withheld.start = q[1] /\ withheld.of \subseteq q[1].of /\ withheld.size = BytesTo(q)[k]

Withholding == out = <<>> /\ Compresses /\ \E q, k : Holding(q, k)

\* Unless an error was answered too late.
InOnePiece ==
    /\ progress \in {"arriving", "running"} => Unsent /\ pending = <<>>
    /\ progress = "saving" => Unsent /\ Complete(pending)
    /\ progress \in {"responding", "done"} => Passing \/ Withholding
    /\ progress = "done" => pending = <<>>

\* Each answer is that of a layer outside the one before.
AnswersFromOutside ==
    /\ answers + sender <= Layers + 2
    /\ progress \in {"arriving", "running"} => answers = 0 /\ sender = Layers + 1
    /\ progress = "saving" => answers = 1 /\ sender = Layers + 1

MessagesTypeOK ==
    /\ request \in Requests /\ received \in 0..MaxBody + 1 /\ flushing \in BOOLEAN
    /\ progress \in {"arriving", "running", "saving", "responding", "done"}
    /\ sender \in 0..Layers + 1 /\ answers \in Nat /\ late \in BOOLEAN
    /\ pending \in Seq(Message) /\ out \in Seq(Message)
    /\ withheld \in [start : {NoStart} \union Starts, of : SUBSET Nat, size : Nat]

ExchangeInv == MessagesTypeOK /\ AnswersFromOutside /\ (~late => InOnePiece)

LEMMA SetStacks ==
  ASSUME MessagesTypeOK
  PROVE  /\ Layers \in Nat
         /\ \A layer : Uses(layer) => At(layer) \in 1..Layers
         /\ \A i \in Nat : Handler(i) \in Nat /\ (i > 0 => Handler(i) < i)
         /\ request.accepts \in BOOLEAN
  <1>1. request.stack \in Seq({"recovery", "timeout", "compression", "limit"})
        /\ request.accepts \in BOOLEAN
    BY ExchangeAssumption DEF MessagesTypeOK, Requests
  <1>2. Layers \in Nat
    BY <1>1 DEF Layers
  <1>3. ASSUME NEW layer, Uses(layer) PROVE At(layer) \in 1..Layers
    <2>1. \E i \in 1..Layers : request.stack[i] = layer
      BY <1>3 DEF Uses, Contains, Layers
    <2>2. QED
      BY <2>1 DEF At
  <1>4. ASSUME NEW i \in Nat PROVE Handler(i) \in Nat /\ (i > 0 => Handler(i) < i)
    <2>1. CASE Uses("recovery") /\ At("recovery") < i
      <3>1. Handler(i) = At("recovery")
        BY <2>1 DEF Handler
      <3>2. At("recovery") \in 1..Layers
        BY <1>3, <2>1
      <3>3. QED
        BY <1>2, <2>1, <3>1, <3>2
    <2>2. CASE ~(Uses("recovery") /\ At("recovery") < i)
      BY <2>2 DEF Handler
    <2>3. QED
      BY <2>1, <2>2
  <1>5. QED
    BY <1>1, <1>2, <1>3, <1>4

-----------------------------------------------------------------------------
(* The bytes of a response *)

BodyOf(m) == IF m.type = "body" THEN m.size ELSE 0

LEMMA MessageTypes ==
  ASSUME NEW q \in Seq(Message)
  PROVE  /\ Len(q) \in Nat /\ \A i \in 1..Len(q) : q[i] \in Message /\ BodyOf(q[i]) \in Nat
         /\ \A m \in Starts : m \in Message /\ m.type = "start" /\ BodyOf(m) = 0
         /\ \A m \in Parts : m \in Message /\ m.type = "body" /\ BodyOf(m) = m.size /\ m.size \in Nat
  <1>1. \A m \in Starts : m \in Message /\ m.type = "start" /\ BodyOf(m) = 0
    BY DEF Starts, Message, BodyOf
  <1>2. \A m \in Parts : m \in Message /\ m.type = "body" /\ BodyOf(m) = m.size /\ m.size \in Nat
    BY DEF Parts, Message, BodyOf
  <1>3. \A m \in Message : BodyOf(m) \in Nat
    BY <1>1, <1>2 DEF Message
  <1>4. Len(q) \in Nat /\ \A i \in 1..Len(q) : q[i] \in Message
    BY LenProperties, ElementOfSeq
  <1>5. QED
    BY <1>1, <1>2, <1>3, <1>4

\* There are the sums that BytesTo stands for, as far as one wants them.
LEMMA BytesExist ==
  ASSUME NEW q \in Seq(Message), NEW n \in Nat, n <= Len(q)
  PROVE  \E f \in [0..n -> Nat] :
            f[0] = 0 /\ \A i \in 1..n : f[i] = f[i - 1] + BodyOf(q[i])
  <1> DEFINE Sums(m) == \E f \in [0..m -> Nat] :
                           f[0] = 0 /\ \A i \in 1..m : f[i] = f[i - 1] + BodyOf(q[i])
             Without == {m \in Nat : m <= Len(q) /\ ~Sums(m)}
  <1>1. SUFFICES ASSUME Without # {} PROVE FALSE
    BY DEF Without
  <1>2. PICK m \in Without : \A k \in Without : m <= k
    BY <1>1, Least
  <1>3. m # 0
    <2>1. Sums(0)
      <3>1. PICK f : f = [i \in 0..0 |-> 0]
        OBVIOUS
      <3>2. f \in [0..0 -> Nat] /\ f[0] = 0 /\ \A i \in 1..0 : FALSE
        BY <3>1
      <3>3. QED
        BY <3>2
    <2>2. QED
      BY <2>1
  <1>4. m - 1 \in Nat /\ ~(m <= m - 1) /\ m \in Nat /\ m \in 1..Len(q) /\ m - 1 <= Len(q)
    BY <1>3, MessageTypes
  <1>5. Sums(m - 1)
    BY <1>2, <1>4
  <1>6. PICK f \in [0..m - 1 -> Nat] :
           f[0] = 0 /\ \A i \in 1..m - 1 : f[i] = f[i - 1] + BodyOf(q[i])
    BY <1>5
  <1>7. PICK g : g = [i \in 0..m |-> IF i = m THEN f[m - 1] + BodyOf(q[m]) ELSE f[i]]
    OBVIOUS
  <1>8. g \in [0..m -> Nat] /\ g[0] = 0 /\ \A i \in 1..m : g[i] = g[i - 1] + BodyOf(q[i])
    <2>1. BodyOf(q[m]) \in Nat /\ f[m - 1] \in Nat
      BY <1>4, <1>6, MessageTypes
    <2>2. g \in [0..m -> Nat]
      BY <1>4, <1>6, <1>7, <2>1
    <2>3. g[0] = 0
      BY <1>3, <1>4, <1>6, <1>7
    <2>4. ASSUME NEW i \in 1..m PROVE g[i] = g[i - 1] + BodyOf(q[i])
      <3>1. i - 1 \in 0..m /\ i - 1 # m /\ g[i - 1] = f[i - 1] /\ i \in 0..m
        BY <1>4, <1>7
      <3>2. CASE i = m
        BY <1>7, <3>1, <3>2
      <3>3. CASE i # m
        <4>1. i \in 1..m - 1 /\ g[i] = f[i]
          BY <1>4, <1>7, <3>1, <3>3
        <4>2. QED
          BY <1>6, <3>1, <4>1
      <3>4. QED
        BY <3>2, <3>3
    <2>5. QED
      BY <2>2, <2>3, <2>4
  <1>9. QED
    BY <1>4, <1>8

\* BytesTo counts message by message.
LEMMA BytesCount ==
  ASSUME NEW q \in Seq(Message)
  PROVE  /\ BytesTo(q)[0] = 0
         /\ \A n \in 1..Len(q) : BytesTo(q)[n] = BytesTo(q)[n - 1] + BodyOf(q[n])
         /\ \A n \in 0..Len(q) : BytesTo(q)[n] \in Nat
  <1> DEFINE CountsBytes(f) == f = [n \in 0..Len(q) |->
                                 IF n = 0 THEN 0
                                 ELSE f[n - 1] + (IF q[n].type = "body" THEN q[n].size ELSE 0)]
  <1>0. Len(q) \in Nat /\ Len(q) <= Len(q)
    BY MessageTypes
  <1>1. PICK f \in [0..Len(q) -> Nat] :
           f[0] = 0 /\ \A i \in 1..Len(q) : f[i] = f[i - 1] + BodyOf(q[i])
    BY <1>0, BytesExist
  <1>2. CountsBytes(f)
    <2>1. \A n \in 0..Len(q) :
             f[n] = IF n = 0 THEN 0
                    ELSE f[n - 1] + (IF q[n].type = "body" THEN q[n].size ELSE 0)
      <3> TAKE n \in 0..Len(q)
      <3>1. CASE n = 0
        BY <1>1, <3>1
      <3>2. CASE n # 0
        <4>1. n \in 1..Len(q)
          BY <1>0, <3>2
        <4>2. QED
          BY <1>1, <3>2, <4>1 DEF BodyOf
      <3>3. QED
        BY <3>1, <3>2
    <2>2. QED
      BY <1>1, <2>1
  <1>3. BytesTo(q) = CHOOSE g : CountsBytes(g)
    BY DEF BytesTo
  <1>4. PICK h : h = BytesTo(q)
    OBVIOUS
  <1>5. CountsBytes(h)
    BY <1>2, <1>3, <1>4
  <1>6. h[0] = 0
    BY <1>0, <1>5
  <1>7. \A n \in 1..Len(q) : h[n] = h[n - 1] + BodyOf(q[n])
    <2> TAKE n \in 1..Len(q)
    <2>1. n \in 0..Len(q) /\ n # 0
      BY <1>0
    <2>2. QED
      BY <1>5, <2>1 DEF BodyOf
  <1> HIDE DEF CountsBytes
  <1>8. ASSUME NEW n \in 0..Len(q) PROVE h[n] \in Nat
    <2> DEFINE Odd == {m \in Nat : m <= Len(q) /\ ~(h[m] \in Nat)}
    <2>1. SUFFICES ASSUME Odd # {} PROVE FALSE
      BY <1>0 DEF Odd
    <2>2. PICK m \in Odd : \A k \in Odd : m <= k
      BY <2>1, Least
    <2>3. m # 0 /\ m \in Nat /\ m <= Len(q) /\ ~(h[m] \in Nat)
      BY <1>6, <2>2
    <2>4. m \in 1..Len(q) /\ m - 1 \in Nat /\ m - 1 <= Len(q) /\ ~(m <= m - 1)
      BY <1>0, <2>3
    <2>5. h[m - 1] \in Nat
      BY <2>2, <2>4
    <2>6. h[m] = h[m - 1] + BodyOf(q[m]) /\ BodyOf(q[m]) \in Nat
      BY <1>7, <2>4, MessageTypes
    <2>7. QED
      BY <2>3, <2>5, <2>6
  <1>9. QED
    BY <1>4, <1>6, <1>7, <1>8

LEMMA PairIsComplete ==
  ASSUME NEW s \in Starts, NEW p \in Parts, p.of = s.of, ~p.more,
         request.method = "GET" => s.length \in {Unknown, p.size}
  PROVE  Complete(<<s, p>>)
  <1>1. PICK q : q = <<s, p>>
    OBVIOUS
  <1>2. q \in Seq(Message) /\ Len(q) = 2 /\ q[1] = s /\ q[2] = p
    BY <1>1 DEF Message
  <1>3. /\ BytesTo(q)[0] = 0 /\ BytesTo(q)[1] = BytesTo(q)[0] + BodyOf(q[1])
        /\ BytesTo(q)[2] = BytesTo(q)[1] + BodyOf(q[2])
    <2>1. 1 \in 1..Len(q) /\ 2 \in 1..Len(q) /\ 1 - 1 = 0 /\ 2 - 1 = 1
      BY <1>2
    <2>2. QED
      BY <1>2, <2>1, BytesCount
  <1>4. BytesTo(q)[2] = p.size
    BY <1>2, <1>3, MessageTypes
  <1>5. \A i \in 2..Len(q) : i = 2
    BY <1>2
  <1>6. QED
    BY <1>1, <1>2, <1>4, <1>5 DEF Complete

LEMMA WholeIsComplete ==
  ASSUME NEW r \in Nat, NEW size \in 0..MaxSize, NEW fit \in BOOLEAN
  PROVE  Complete(Whole(r, size, fit))
  <1>1. PICK s, p : s = StartMessage(r, size, fit) /\ p = Part(r, size, FALSE)
    OBVIOUS
  <1>2. s \in Starts /\ p \in Parts /\ p.of = s.of /\ ~p.more /\ s.length = p.size
    BY <1>1, ExchangeAssumption DEF StartMessage, Part, Starts, Parts
  <1>3. QED
    BY <1>1, <1>2, PairIsComplete DEF Whole

LEMMA StreamIsComplete ==
  ASSUME NEW r \in Nat, NEW n \in 0..MaxSize, NEW length \in {Unknown} \union 0..MaxSize,
         NEW fit \in BOOLEAN, request.method = "GET" => length \in {Unknown, n}
  PROVE  Complete(Stream(r, n, length, fit))
  <1>1. PICK s, p, l : s = StartMessage(r, length, fit) /\ p = Part(r, 1, TRUE) /\ l = Part(r, 0, FALSE)
    OBVIOUS
  <1>2. /\ s \in Starts /\ p \in Parts /\ l \in Parts /\ p.of = s.of /\ l.of = s.of
        /\ p.more /\ ~l.more /\ s.length = length /\ p.size = 1 /\ l.size = 0
    BY <1>1 DEF StartMessage, Part, Starts, Parts
  <1>3. n \in Nat
    BY ExchangeAssumption
  <1>4. PICK a, b, c : a = <<s>> /\ b = [i \in 1..n |-> p] /\ c = <<l>>
    OBVIOUS
  <1>5. /\ a \in Seq(Message) /\ Len(a) = 1 /\ a[1] = s /\ c \in Seq(Message) /\ Len(c) = 1 /\ c[1] = l
    BY <1>2, <1>4 DEF Message
  <1>6. b \in Seq(Message) /\ Len(b) = n /\ \A i \in 1..n : b[i] = p
    <2>1. p \in Message
      BY <1>2 DEF Message
    <2>2. b \in Seq(Message)
      BY <1>3, <1>4, <2>1
    <2>3. Len(b) = n /\ \A i \in 1..n : b[i] = p
      BY <1>3, <1>4
    <2>4. QED
      BY <2>2, <2>3
  <1>7. PICK d : d = a \o b
    OBVIOUS
  <1>8. d \in Seq(Message) /\ Len(d) = n + 1 /\ d[1] = s /\ \A i \in 2..n + 1 : d[i] = p
    <2>1. d \in Seq(Message) /\ Len(d) = n + 1 /\ \A i \in 1..n + 1 : d[i] = IF i <= 1 THEN a[i] ELSE b[i - 1]
      <3>0. a \in Seq(Message) /\ b \in Seq(Message)
        BY <1>5, <1>6
      <3>1. d \in Seq(Message) /\ Len(d) = Len(a) + Len(b)
        BY <1>7, <3>0, ConcatProperties
      <3>2. \A i \in 1..Len(a) + Len(b) : d[i] = IF i <= Len(a) THEN a[i] ELSE b[i - Len(a)]
        BY <1>7, <3>0, ConcatProperties
      <3>3. Len(a) + Len(b) = n + 1
        BY <1>3, <1>5, <1>6
      <3>4. QED
        BY <1>5, <3>1, <3>2, <3>3
    <2>2. 1 \in 1..n + 1 /\ \A i \in 2..n + 1 : i \in 1..n + 1 /\ ~(i <= 1) /\ i - 1 \in 1..n
      BY <1>3
    <2>3. d[1] = s
      BY <1>5, <2>1, <2>2
    <2>4. ASSUME NEW i \in 2..n + 1 PROVE d[i] = p
      <3>1. d[i] = b[i - 1]
        BY <2>1, <2>2
      <3>2. QED
        BY <1>6, <2>2, <3>1
    <2>5. QED
      BY <2>1, <2>3, <2>4
  <1>9. PICK q : q = d \o c
    OBVIOUS
  <1>10. /\ q \in Seq(Message) /\ Len(q) = n + 2 /\ q[1] = s /\ q[n + 2] = l
         /\ \A i \in 2..n + 1 : q[i] = p
    <2>1. q \in Seq(Message) /\ Len(q) = n + 2 /\ \A i \in 1..n + 2 : q[i] = IF i <= n + 1 THEN d[i] ELSE c[i - (n + 1)]
      <3>1. q \in Seq(Message) /\ Len(q) = Len(d) + Len(c)
        BY <1>5, <1>8, <1>9, ConcatProperties
      <3>2. \A i \in 1..Len(d) + Len(c) : q[i] = IF i <= Len(d) THEN d[i] ELSE c[i - Len(d)]
        BY <1>5, <1>8, <1>9, ConcatProperties
      <3>3. Len(d) + Len(c) = n + 2
        BY <1>3, <1>5, <1>8
      <3>4. QED
        BY <1>8, <3>1, <3>2, <3>3
    <2>2. /\ 1 \in 1..n + 2 /\ 1 <= n + 1 /\ n + 2 \in 1..n + 2 /\ ~(n + 2 <= n + 1) /\ (n + 2) - (n + 1) = 1
          /\ \A i \in 2..n + 1 : i \in 1..n + 2 /\ i <= n + 1
      BY <1>3
    <2>3. q[1] = s /\ q[n + 2] = l
      BY <1>5, <1>8, <2>1, <2>2
    <2>4. ASSUME NEW i \in 2..n + 1 PROVE q[i] = p
      <3>1. q[i] = d[i]
        BY <2>1, <2>2
      <3>2. QED
        BY <1>8, <3>1
    <2>5. QED
      BY <2>1, <2>3, <2>4
  <1>11. ASSUME NEW k \in 1..n + 1 PROVE BytesTo(q)[k] = k - 1
    <2> DEFINE Odd == {m \in Nat : 1 <= m /\ m <= n + 1 /\ BytesTo(q)[m] # m - 1}
    <2>1. SUFFICES ASSUME Odd # {} PROVE FALSE
      BY <1>3 DEF Odd
    <2>2. PICK m \in Odd : \A j \in Odd : m <= j
      BY <2>1, Least
    <2>3. m \in Nat /\ 1 <= m /\ m <= n + 1 /\ BytesTo(q)[m] # m - 1 /\ m \in 1..Len(q)
      BY <1>3, <1>10, <2>2
    <2>4. BytesTo(q)[m] = BytesTo(q)[m - 1] + BodyOf(q[m])
      BY <1>10, <2>3, BytesCount
    <2>5. CASE m = 1
      <3>1. BytesTo(q)[1] = BytesTo(q)[0] + 0
        BY <1>2, <1>10, <2>4, <2>5, MessageTypes
      <3>2. QED
        BY <1>10, <2>3, <2>5, <3>1, BytesCount
    <2>6. CASE m # 1
      <3>1. m - 1 \in Nat /\ 1 <= m - 1 /\ m - 1 <= n + 1 /\ ~(m <= m - 1) /\ m \in 2..n + 1
        BY <1>3, <2>3, <2>6
      <3>2. BytesTo(q)[m - 1] = (m - 1) - 1
        BY <2>2, <3>1
      <3>3. BodyOf(q[m]) = 1
        BY <1>2, <1>10, <3>1, MessageTypes
      <3>4. QED
        BY <2>3, <2>4, <3>2, <3>3
    <2>7. QED
      BY <2>5, <2>6
  <1>12. BytesTo(q)[n + 2] = n
    <2>1. n + 2 \in 1..Len(q) /\ (n + 2) - 1 = n + 1 /\ n + 1 \in 1..n + 1
      BY <1>3, <1>10
    <2>2. BytesTo(q)[n + 2] = BytesTo(q)[n + 1] + BodyOf(q[n + 2])
      BY <1>10, <2>1, BytesCount
    <2>3. BodyOf(q[n + 2]) = 0
      BY <1>2, <1>10, MessageTypes
    <2>4. QED
      BY <1>3, <1>11, <2>1, <2>2, <2>3
  <1>13. \A i \in 2..Len(q) : q[i] \in Parts /\ q[i].of = q[1].of /\ (~q[i].more => i = Len(q))
    <2> TAKE i \in 2..Len(q)
    <2>1. i \in 2..n + 1 \/ i = n + 2
      BY <1>3, <1>10
    <2>2. QED
      BY <1>2, <1>10, <2>1
  <1>14. Complete(q)
    BY <1>2, <1>3, <1>10, <1>12, <1>13 DEF Complete
  <1>15. q = Stream(r, n, length, fit)
    BY <1>1, <1>4, <1>7, <1>9 DEF Stream
  <1>16. QED
    BY <1>14, <1>15

LEMMA MadeIsComplete ==
  ASSUME NEW r \in Nat, NEW q \in Made(r)
  PROVE  Complete(q)
  <1>1. \A n \in 0..MaxSize, fit \in BOOLEAN : Complete(Whole(r, n, fit))
    BY WholeIsComplete
  <1>2. \A n \in 0..MaxSize, fit \in BOOLEAN :
           Complete(Stream(r, n, n, fit)) /\ Complete(Stream(r, n, Unknown, fit))
    BY StreamIsComplete
  <1>3. 0 \in 0..MaxSize /\ TRUE \in BOOLEAN
    BY ExchangeAssumption
  <1>4. CASE request.method = "HEAD"
    <2>1. \A n \in 0..MaxSize, fit \in BOOLEAN : Complete(Stream(r, n, 0, fit))
      BY <1>3, <1>4, StreamIsComplete
    <2>2. \/ \E fit \in BOOLEAN : q = Whole(r, 0, fit)
          \/ \E n \in 0..MaxSize : q = Stream(r, n, 0, TRUE)
      <3>1. Made(r) = {Whole(r, 0, fit) : fit \in BOOLEAN} \union {Stream(r, n, 0, TRUE) : n \in 0..MaxSize}
        BY <1>4 DEF Made
      <3>2. QED
        BY <3>1
    <2>3. QED
      BY <1>1, <1>3, <2>1, <2>2
  <1>5. CASE request.method # "HEAD"
    <2> DEFINE A == {Whole(r, n, fit) : n \in 0..MaxSize, fit \in BOOLEAN}
               B == {Stream(r, n, Unknown, TRUE) : n \in 0..MaxSize}
               C == {Stream(r, n, n, fit) : n \in 0..MaxSize, fit \in BOOLEAN}
    <2>1. Made(r) = (A \union B) \union C
      BY <1>5 DEF Made
    <2>2. ASSUME q \in A PROVE Complete(q)
      <3>1. PICK n \in 0..MaxSize, fit \in BOOLEAN : q = Whole(r, n, fit)
        BY <2>2
      <3>2. QED
        BY <1>1, <3>1
    <2>3. ASSUME q \in B PROVE Complete(q)
      <3>1. PICK n \in 0..MaxSize : q = Stream(r, n, Unknown, TRUE)
        BY <2>3
      <3>2. QED
        BY <1>2, <1>3, <3>1
    <2>4. ASSUME q \in C PROVE Complete(q)
      <3>1. PICK n \in 0..MaxSize, fit \in BOOLEAN : q = Stream(r, n, n, fit)
        BY <2>4
      <3>2. QED
        BY <1>2, <3>1
    <2> HIDE DEF A, B, C
    <2>5. QED
      BY <2>1, <2>2, <2>3, <2>4
  <1>6. QED
    BY <1>4, <1>5

-----------------------------------------------------------------------------
(* The messages on their way *)

\* The first message and the others.
LEMMA FirstAndRest ==
  ASSUME NEW q \in Seq(Message), q # <<>>
  PROVE  /\ Len(q) \in Nat /\ Len(q) >= 1 /\ Head(q) = q[1] /\ q[1] \in Message
         /\ Tail(q) \in Seq(Message) /\ Len(Tail(q)) = Len(q) - 1
         /\ \A i \in 1..Len(q) - 1 : Tail(q)[i] = q[i + 1]
         /\ Tail(q) = SubSeq(q, 2, Len(q))
  <1>1. Len(q) \in Nat /\ Len(q) >= 1
    BY EmptySeq
  <1>2. 1 \in 1..Len(q)
    BY <1>1
  <1>3. q[1] \in Message
    BY <1>2, ElementOfSeq
  <1>4. PICK t : t = Tail(q)
    OBVIOUS
  <1>5. t \in Seq(Message) /\ Len(t) = Len(q) - 1 /\ \A i \in 1..Len(t) : t[i] = q[i + 1]
    BY <1>4, HeadTailProperties
  <1>6. PICK u : u = SubSeq(q, 2, Len(q))
    OBVIOUS
  <1>7. \A i \in 2..Len(q) : q[i] \in Message
    BY <1>1, ElementOfSeq
  <1>8. /\ u \in Seq(Message) /\ Len(u) = IF 2 <= Len(q) THEN Len(q) - 2 + 1 ELSE 0
        /\ \A i \in 1..Len(q) - 2 + 1 : u[i] = q[2 + i - 1]
    BY <1>1, <1>6, <1>7, SubSeqProperties
  <1>9. Len(u) = Len(t) /\ \A i \in 1..Len(t) : t[i] = u[i]
    BY <1>1, <1>5, <1>8
  <1>10. t = u
    BY <1>5, <1>8, <1>9, SeqEqual
  <1>11. Head(q) = q[1]
    OBVIOUS
  <1>12. QED
    BY <1>1, <1>3, <1>4, <1>5, <1>6, <1>10, <1>11

\* To give the server the next message changes nothing of the whole.
LEMMA OneMoreSent ==
  ASSUME NEW a \in Seq(Message), NEW q \in Seq(Message), q # <<>>
  PROVE  /\ Append(a, Head(q)) \o Tail(q) = a \o q
         /\ Append(a, Head(q)) \in Seq(Message) /\ Append(a, Head(q)) # <<>>
         /\ (a \o q)[Len(a) + 1] = Head(q)
         /\ Len(a \o q) = Len(a) + Len(q) /\ a \o q \in Seq(Message)
  <1>1. PICK m, t : m = Head(q) /\ t = Tail(q)
    OBVIOUS
  <1>2. /\ Len(q) \in Nat /\ Len(q) >= 1 /\ m = q[1] /\ m \in Message /\ t \in Seq(Message)
        /\ Len(t) = Len(q) - 1 /\ \A i \in 1..Len(q) - 1 : t[i] = q[i + 1]
    BY <1>1, FirstAndRest
  <1>3. Len(a) \in Nat
    BY LenProperties
  <1>4. PICK b : b = Append(a, m)
    OBVIOUS
  <1>5. /\ b \in Seq(Message) /\ b # <<>> /\ Len(b) = Len(a) + 1 /\ b[Len(a) + 1] = m
        /\ \A i \in 1..Len(a) : b[i] = a[i]
    BY <1>2, <1>4, AppendProperties
  <1>6. PICK c, d : c = b \o t /\ d = a \o q
    OBVIOUS
  <1>7. /\ c \in Seq(Message) /\ Len(c) = Len(b) + Len(t)
        /\ \A i \in 1..Len(b) + Len(t) : c[i] = IF i <= Len(b) THEN b[i] ELSE t[i - Len(b)]
    BY <1>2, <1>5, <1>6, ConcatProperties
  <1>8. /\ d \in Seq(Message) /\ Len(d) = Len(a) + Len(q)
        /\ \A i \in 1..Len(a) + Len(q) : d[i] = IF i <= Len(a) THEN a[i] ELSE q[i - Len(a)]
    BY <1>6, ConcatProperties
  <1>9. Len(b) + Len(t) = Len(a) + Len(q)
    BY <1>2, <1>3, <1>5
  <1>10. ASSUME NEW i \in 1..Len(c) PROVE c[i] = d[i]
    <2>1. i \in 1..Len(a) + Len(q) /\ i \in 1..Len(b) + Len(t)
      BY <1>7, <1>9
    <2>2. CASE i <= Len(a)
      <3>1. i <= Len(b) /\ i \in 1..Len(a)
        BY <1>3, <1>5, <2>2
      <3>2. QED
        BY <1>5, <1>7, <1>8, <2>1, <2>2, <3>1
    <2>3. CASE i = Len(a) + 1
      <3>1. i <= Len(b) /\ ~(i <= Len(a)) /\ i - Len(a) = 1
        BY <1>3, <1>5, <2>3
      <3>2. QED
        BY <1>2, <1>5, <1>7, <1>8, <2>1, <2>3, <3>1
    <2>4. CASE i > Len(a) + 1
      <3>1. ~(i <= Len(b)) /\ ~(i <= Len(a)) /\ i - Len(b) \in 1..Len(q) - 1 /\ (i - Len(b)) + 1 = i - Len(a)
        BY <1>2, <1>3, <1>5, <2>1, <2>4
      <3>2. c[i] = t[i - Len(b)] /\ d[i] = q[i - Len(a)]
        BY <1>7, <1>8, <2>1, <3>1
      <3>3. t[i - Len(b)] = q[(i - Len(b)) + 1]
        BY <1>2, <3>1
      <3>4. QED
        BY <3>1, <3>2, <3>3
    <2>5. QED
      BY <1>3, <2>2, <2>3, <2>4
  <1>11. c = d
    BY <1>7, <1>8, <1>9, <1>10, SeqEqual
  <1>12. d[Len(a) + 1] = m
    <2>1. Len(a) + 1 \in 1..Len(a) + Len(q) /\ ~(Len(a) + 1 <= Len(a)) /\ (Len(a) + 1) - Len(a) = 1
      BY <1>2, <1>3
    <2>2. QED
      BY <1>2, <1>8, <2>1
  <1>13. QED
    BY <1>1, <1>4, <1>5, <1>6, <1>8, <1>11, <1>12

\* What comes after the first k messages.
LEMMA LaterMessages ==
  ASSUME NEW q \in Seq(Message), NEW k \in 1..Len(q) - 1, NEW p, p = SubSeq(q, k + 1, Len(q))
  PROVE  /\ p \in Seq(Message) /\ p # <<>> /\ Head(p) = q[k + 1] /\ k + 1 \in 2..Len(q)
         /\ Tail(p) = SubSeq(q, (k + 1) + 1, Len(q))
  <1>1. Len(q) \in Nat /\ k \in Nat /\ k >= 1 /\ k + 1 <= Len(q)
    BY LenProperties
  <1>2. \A i \in k + 1..Len(q) : q[i] \in Message
    BY <1>1, ElementOfSeq
  <1>3. /\ p \in Seq(Message) /\ Len(p) = IF k + 1 <= Len(q) THEN Len(q) - (k + 1) + 1 ELSE 0
        /\ \A i \in 1..Len(q) - (k + 1) + 1 : p[i] = q[(k + 1) + i - 1]
    BY <1>1, <1>2, SubSeqProperties
  <1>4. Len(p) = Len(q) - k /\ \A i \in 1..Len(q) - k : p[i] = q[k + i]
    BY <1>1, <1>3
  <1>5. p # <<>>
    <2>1. Len(p) = Len(q) - k
      BY <1>4
    <2>2. Len(q) - k # 0
      BY <1>1
    <2>3. QED
      BY <2>1, <2>2, EmptySeq
  <1>6. PICK t : t = Tail(p)
    OBVIOUS
  <1>7. /\ Head(p) = p[1] /\ t \in Seq(Message) /\ Len(t) = Len(p) - 1
        /\ \A i \in 1..Len(p) - 1 : t[i] = p[i + 1]
    BY <1>3, <1>5, <1>6, FirstAndRest
  <1>8. PICK u : u = SubSeq(q, (k + 1) + 1, Len(q))
    OBVIOUS
  <1>9. \A i \in (k + 1) + 1..Len(q) : q[i] \in Message
    BY <1>1, ElementOfSeq
  <1>10. /\ u \in Seq(Message)
         /\ Len(u) = IF (k + 1) + 1 <= Len(q) THEN Len(q) - ((k + 1) + 1) + 1 ELSE 0
         /\ \A i \in 1..Len(q) - ((k + 1) + 1) + 1 : u[i] = q[((k + 1) + 1) + i - 1]
    BY <1>1, <1>8, <1>9, SubSeqProperties
  <1>11. Len(u) = Len(q) - k - 1 /\ \A i \in 1..Len(q) - k - 1 : u[i] = q[k + 1 + i]
    BY <1>1, <1>10
  <1>12. Len(t) = Len(u) /\ \A i \in 1..Len(t) : t[i] = u[i]
    <2>1. Len(t) = Len(u)
      BY <1>1, <1>4, <1>7, <1>11
    <2>2. ASSUME NEW i \in 1..Len(t) PROVE t[i] = u[i]
      <3>1. i \in 1..Len(p) - 1 /\ i + 1 \in 1..Len(q) - k /\ i \in 1..Len(q) - k - 1 /\ k + (i + 1) = k + 1 + i
        BY <1>1, <1>4, <1>7
      <3>2. QED
        BY <1>4, <1>7, <1>11, <3>1
    <2>3. QED
      BY <2>1, <2>2
  <1>13. t = u
    BY <1>7, <1>10, <1>12, SeqEqual
  <1>14. Head(p) = q[k + 1] /\ k + 1 \in 2..Len(q)
    <2>1. 1 \in 1..Len(q) - k
      BY <1>1
    <2>2. QED
      BY <1>1, <1>4, <1>7, <2>1
  <1>15. QED
    BY <1>3, <1>5, <1>6, <1>8, <1>13, <1>14

-----------------------------------------------------------------------------
(* An error is answered *)

LEMMA CompleteStays ==
  ASSUME UNCHANGED request, NEW q, Complete(q)
  PROVE  Complete(q)'
  BY DEF Complete, Starts, Parts, Message

LEMMA CompleteFacts ==
  ASSUME NEW q, Complete(q)
  PROVE  /\ q \in Seq(Message) /\ Len(q) \in Nat /\ q # <<>> /\ q[1] \in Starts /\ Len(q) >= 2
         /\ q[1] # NoStart
         /\ \A i \in 2..Len(q) : q[i] \in Parts /\ q[i].type = "body" /\ q[i].of = q[1].of
  <1>1. q \in Seq(Message) /\ Len(q) >= 2 /\ q[1] \in Starts
    BY DEF Complete
  <1>2. Len(q) \in Nat /\ q # <<>>
    BY <1>1, LenProperties, EmptySeq
  <1>3. q[1] # NoStart
    BY <1>1 DEF Starts, NoStart
  <1>4. \A i \in 2..Len(q) : q[i] \in Parts /\ q[i].of = q[1].of
    BY DEF Complete
  <1>5. \A m \in Parts : m.type = "body"
    BY DEF Parts
  <1>6. QED
    BY <1>1, <1>2, <1>3, <1>4, <1>5

LEMMA RaisedFacts ==
  ASSUME MessagesTypeOK, NEW layer \in 1..Layers + 1, Raised(layer), UNCHANGED request
  PROVE  /\ sender' \in 0..Layers /\ sender' < layer /\ answers' = answers + 1
         /\ progress' = "responding" /\ flushing' = FALSE /\ late' \in BOOLEAN
         /\ Complete(pending)'
         /\ withheld' \in {withheld, NothingWithheld} /\ pending' \in Seq(Message)
  <1>1. Layers \in Nat /\ Handler(layer) \in Nat /\ Handler(layer) < layer
    BY SetStacks
  <1>2. PICK size \in 1..MaxSize : pending' = Whole(answers', size, TRUE)
    BY DEF Raised
  <1>3. answers' = answers + 1 /\ answers \in Nat /\ size \in 0..MaxSize
    BY ExchangeAssumption DEF Raised, MessagesTypeOK
  <1>4. PICK q, r : q = pending' /\ r = answers'
    OBVIOUS
  <1>5. Complete(q)
    <2>1. q = Whole(r, size, TRUE) /\ r \in Nat
      BY <1>2, <1>3, <1>4
    <2>2. QED
      BY <1>3, <2>1, WholeIsComplete
  <1>6. Complete(q)'
    BY <1>5, CompleteStays
  <1>7. late' \in BOOLEAN /\ withheld' \in {withheld, NothingWithheld}
    BY DEF Raised, NothingWithheld
  <1>8. q \in Seq(Message)
    BY <1>5, CompleteFacts
  <1>9. sender' = Handler(layer) /\ progress' = "responding" /\ flushing' = FALSE
    BY DEF Raised
  <1>10. sender' \in 0..Layers /\ sender' < layer
    BY <1>1, <1>9
  <1>11. Complete(pending)'
    BY <1>4, <1>6
  <1>12. QED
    BY <1>3, <1>4, <1>7, <1>8, <1>9, <1>10, <1>11

\* While nothing has gone out and compression has no start, it has nothing.
LEMMA NothingYet ==
  ASSUME MessagesTypeOK, InOnePiece, out = <<>>, withheld.start = NoStart
  PROVE  withheld = NothingWithheld
  <1>1. CASE progress \in {"arriving", "running", "saving"}
    BY <1>1 DEF InOnePiece, Unsent
  <1>2. CASE progress \in {"responding", "done"} /\ Passing
    BY <1>2 DEF Passing
  <1>3. CASE progress \in {"responding", "done"} /\ Withholding
    <2>1. PICK q, k : Holding(q, k)
      BY <1>3 DEF Withholding
    <2>2. QED
      BY <2>1, CompleteFacts DEF Holding
  <1>4. QED
    BY <1>1, <1>2, <1>3 DEF InOnePiece, MessagesTypeOK

LEMMA RaisedKeeps ==
  ASSUME MessagesTypeOK, NEW layer \in 1..Layers + 1, Raised(layer), UNCHANGED <<request, out>>,
         ~late => InOnePiece, ~late'
  PROVE  InOnePiece'
  <1>1. ~late /\ ~BegunBeyond(Handler(layer))
    BY DEF Raised
  <1>2. out = <<>> /\ ~(withheld.start # NoStart /\ At("compression") < Handler(layer))
    BY <1>1 DEF BegunBeyond
  <1>3. progress' = "responding" /\ flushing' = FALSE /\ Complete(pending)'
    BY RaisedFacts
  <1>4. withheld' = NothingWithheld
    <2>1. CASE Uses("compression") /\ At("compression") < Handler(layer)
      <3>1. withheld' = withheld
        BY <2>1 DEF Raised
      <3>2. QED
        BY <1>1, <1>2, <2>1, <3>1, NothingYet
    <2>2. CASE ~(Uses("compression") /\ At("compression") < Handler(layer))
      BY <2>2 DEF Raised, NothingWithheld
    <2>3. QED
      BY <2>1, <2>2
  <1>5. PICK q : q = pending'
    OBVIOUS
  <1>6. Complete(q)'
    BY <1>3, <1>5
  <1>7. q \in Seq(Message)
    BY <1>5, RaisedFacts
  <1>8. (out \o pending)' = q
    BY <1>2, <1>5, <1>7, ConcatEmptySeq
  <1>9. withheld'.start = NoStart
    BY <1>4 DEF NothingWithheld
  <1>10. Complete(out \o pending)'
    BY <1>6, <1>8
  <1>11. Passing'
    BY <1>4, <1>9, <1>10 DEF Passing, NothingWithheld, NoStart
  <1>12. QED
    BY <1>3, <1>11 DEF InOnePiece

-----------------------------------------------------------------------------
(* A message is sent *)

LEMMA SendsKeeps ==
  ASSUME MessagesTypeOK, InOnePiece, Sends
  PROVE  InOnePiece'
  <1>1. /\ progress = "responding" /\ pending # <<>> /\ progress' = progress
        /\ request' = request /\ sender' = sender
        /\ pending \in Seq(Message) /\ out \in Seq(Message) /\ flushing \in BOOLEAN
    BY DEF Sends, MessagesTypeOK
  <1>2. PICK m, t : m = Head(pending) /\ t = Tail(pending)
    OBVIOUS
  <1>3. CASE Passing
    <2>1. PICK q : q = out \o pending
      OBVIOUS
    <2>2. Complete(q) /\ Complete(q)'
      BY <1>1, <1>3, <2>1, CompleteStays DEF Passing
    <2>3. /\ Append(out, m) \o t = q /\ Append(out, m) # <<>> /\ q[Len(out) + 1] = m
          /\ Len(q) = Len(out) + Len(pending) /\ Len(out) \in Nat /\ Len(pending) \in Nat
          /\ Len(pending) >= 1
      BY <1>1, <1>2, <2>1, OneMoreSent, FirstAndRest, LenProperties
    <2>4. ASSUME Compresses, m.type = "start", withheld' = [withheld EXCEPT !.start = m],
                 pending' = t, UNCHANGED <<flushing, out>>
          PROVE  Withholding'
      <3>1. out = <<>>
        <4>1. CASE Len(out) = 0
          BY <1>1, <4>1, EmptySeq
        <4>2. CASE Len(out) # 0
          <5>1. Len(out) + 1 \in 2..Len(q)
            BY <2>3, <4>2
          <5>2. m.type = "body"
            BY <2>2, <2>3, <5>1, CompleteFacts
          <5>3. QED
            BY <2>4, <5>2
        <4>3. QED
          BY <4>1, <4>2
      <3>2. q = pending /\ q \in Seq(Message) /\ q # <<>> /\ Len(q) \in Nat /\ Len(q) >= 2
        BY <1>1, <2>1, <2>2, <3>1, ConcatEmptySeq, CompleteFacts
      <3>3. m = q[1] /\ t = SubSeq(q, 2, Len(q))
        BY <1>2, <3>2, FirstAndRest
      <3>4. withheld = NothingWithheld /\ ~flushing
        BY <1>3, <2>4, <3>1 DEF Passing, Compresses
      <3>5. withheld' = [start |-> q[1], of |-> {}, size |-> 0]
        BY <2>4, <3>3, <3>4 DEF NothingWithheld
      <3>6. BytesTo(q)[1] = 0
        <4>1. 1 \in 1..Len(q) /\ 1 - 1 = 0
          BY <3>2
        <4>2. BodyOf(q[1]) = 0
          BY <2>2, <3>2, CompleteFacts, MessageTypes
        <4>3. QED
          BY <3>2, <4>1, <4>2, BytesCount
      <3>7. Holding(q, 1)'
        <4>1. 1 \in 1..Len(q) - 1 /\ 1 + 1 = 2
          BY <3>2
        <4>2. pending' = SubSeq(q, 1 + 1, Len(q))
          BY <2>4, <3>3, <4>1
        <4>3. QED
          BY <2>2, <3>5, <3>6, <4>1, <4>2 DEF Holding
      <3>8. Compresses'
        BY <1>1, <2>4 DEF Compresses, At, Layers
      <3>9. out' = <<>>
        BY <2>4, <3>1
      <3>10. QED
        BY <3>7, <3>8, <3>9 DEF Withholding
    <2>5. ASSUME Compresses, withheld.start # NoStart
          PROVE  FALSE
      BY <1>3, <2>5 DEF Passing, Compresses
    <2>6. ASSUME out' = Append(out, m), pending' = t, flushing' = flushing,
                 withheld' = IF flushing /\ pending' = <<>> THEN [withheld EXCEPT !.start = NoStart]
                             ELSE withheld
          PROVE  Passing'
      <3>1. (out \o pending)' = q /\ out' # <<>>
        BY <2>3, <2>6
      <3>2. withheld'.start # NoStart => flushing'
        BY <1>3, <2>6 DEF Passing, MessagesTypeOK
      <3>3. QED
        BY <2>2, <3>1, <3>2 DEF Passing
    <2>7. Passing' \/ Withholding'
      BY <1>2, <2>4, <2>5, <2>6 DEF Sends
    <2>8. QED
      BY <1>1, <2>7 DEF InOnePiece
  <1>4. CASE Withholding
    <2>1. PICK q, k : Holding(q, k)
      BY <1>4 DEF Withholding
    <2>2. out = <<>> /\ Compresses
      BY <1>4 DEF Withholding
    <2>3. /\ Complete(q) /\ Complete(q)' /\ q \in Seq(Message) /\ Len(q) \in Nat
          /\ k \in 1..Len(q) - 1 /\ k \in Nat /\ pending = SubSeq(q, k + 1, Len(q))
          /\ withheld.start = q[1] /\ withheld.of \subseteq q[1].of /\ withheld.size = BytesTo(q)[k]
      BY <1>1, <2>1, CompleteStays, CompleteFacts DEF Holding
    <2>4. m = q[k + 1] /\ k + 1 \in 2..Len(q) /\ t = SubSeq(q, (k + 1) + 1, Len(q))
      BY <1>2, <2>3, LaterMessages
    <2>5. m \in Parts /\ m.type = "body" /\ m.of = q[1].of
      BY <2>3, <2>4, CompleteFacts
    <2>6. withheld.start # NoStart
      BY <2>3, CompleteFacts
    <2>7. Collects(m) /\ UNCHANGED out
      BY <1>2, <2>2, <2>5, <2>6 DEF Sends
    <2>8. PICK size, parts : size = withheld.size + m.size /\ parts = withheld.of \union m.of
      OBVIOUS
    <2>9. size = BytesTo(q)[k + 1] /\ size \in Nat /\ parts = q[1].of
      <3>1. k + 1 \in 1..Len(q) /\ k + 1 \in 0..Len(q) /\ (k + 1) - 1 = k
        BY <2>3
      <3>2. BodyOf(m) = m.size
        BY <2>3, <2>5, MessageTypes
      <3>3. BytesTo(q)[k + 1] = BytesTo(q)[k] + m.size /\ BytesTo(q)[k + 1] \in Nat
        BY <2>3, <2>4, <3>1, <3>2, BytesCount
      <3>4. QED
        BY <2>3, <2>5, <2>8, <3>3
    <2>10. withheld' = [withheld EXCEPT !.of = parts, !.size = size]
      BY <2>7, <2>8 DEF Collects
    <2>11. withheld'.start = q[1] /\ withheld'.of = parts /\ withheld'.size = size
      BY <2>3, <2>10 DEF MessagesTypeOK
    <2>12. ASSUME m.more, pending' = t, flushing' = FALSE
           PROVE  Withholding'
      <3>1. k + 1 # Len(q)
        BY <2>3, <2>4, <2>12 DEF Complete
      <3>2. k + 1 \in 1..Len(q) - 1
        BY <2>3, <2>4, <3>1
      <3>3. Holding(q, k + 1)'
        BY <2>3, <2>4, <2>9, <2>11, <2>12, <3>2 DEF Holding
      <3>4. Compresses'
        BY <1>1, <2>2, <2>12 DEF Compresses, At, Layers
      <3>5. out' = <<>>
        BY <2>2, <2>7
      <3>6. QED
        BY <3>3, <3>4, <3>5 DEF Withholding
    <2>13. PICK whole : whole = [type |-> "body", of |-> parts, size |-> size, more |-> FALSE]
      OBVIOUS
    <2>14. whole \in Parts /\ whole.of = q[1].of /\ ~whole.more /\ whole.size = size /\ q[1] \in Starts
      BY <2>3, <2>9, <2>13, CompleteFacts DEF Parts, Starts
    <2>15. ASSUME NEW s, NEW p, Complete(<<s, p>>), pending' = <<s, p>>, flushing' = TRUE
           PROVE  Passing'
      <3>1. PICK r : r = <<s, p>>
        OBVIOUS
      <3>2. Complete(r) /\ r \in Seq(Message)
        BY <2>15, <3>1, CompleteFacts
      <3>3. out' = <<>> /\ (out \o pending)' = r
        BY <2>2, <2>7, <2>15, <3>1, <3>2, ConcatEmptySeq
      <3>4. Complete(r)'
        BY <1>1, <3>2, CompleteStays
      <3>5. withheld'.start # NoStart
        BY <2>3, <2>11, CompleteFacts
      <3>6. QED
        BY <2>15, <3>3, <3>4, <3>5 DEF Passing
    <2>16. ASSUME ~m.more, pending' = <<withheld.start, whole>>, flushing' = TRUE
           PROVE  Passing'
      <3>1. k + 1 = Len(q)
        BY <2>3, <2>4, <2>16 DEF Complete
      <3>2. request.method = "GET" => q[1].length \in {Unknown, whole.size}
        BY <2>3, <2>9, <2>14, <3>1 DEF Complete
      <3>3. Complete(<<q[1], whole>>)
        BY <2>14, <3>2, PairIsComplete
      <3>4. QED
        BY <2>3, <2>15, <2>16, <3>3
    <2>17. ASSUME NEW n \in 1..MaxSize, flushing' = TRUE,
                  pending' = <<[withheld.start EXCEPT !.length = n], [whole EXCEPT !.size = n]>>
           PROVE  Passing'
      <3>1. PICK s, p : s = [q[1] EXCEPT !.length = n] /\ p = [whole EXCEPT !.size = n]
        OBVIOUS
      <3>2. n \in Nat /\ n \in 0..MaxSize
        BY ExchangeAssumption
      <3>3. s \in Starts /\ s.of = q[1].of /\ s.length = n
        BY <2>14, <3>1, <3>2 DEF Starts
      <3>4. p \in Parts /\ p.of = s.of /\ ~p.more /\ p.size = n
        BY <2>14, <3>1, <3>2, <3>3 DEF Parts
      <3>5. Complete(<<s, p>>)
        BY <3>3, <3>4, PairIsComplete
      <3>6. pending' = <<s, p>>
        BY <2>3, <2>17, <3>1
      <3>7. QED
        BY <2>15, <2>17, <3>5, <3>6
    <2>18. Passing' \/ Withholding'
      BY <1>2, <2>7, <2>8, <2>12, <2>13, <2>16, <2>17 DEF Collects
    <2>19. QED
      BY <1>1, <2>18 DEF InOnePiece
  <1>5. QED
    BY <1>1, <1>3, <1>4 DEF InOnePiece

-----------------------------------------------------------------------------
(* The whole exchange *)

LEMMA RaisedSound ==
  ASSUME ExchangeInv, NEW layer \in 1..Layers + 1, layer <= sender, Raised(layer),
         UNCHANGED <<request, received, out>>
  PROVE  ExchangeInv'
  <1>1. MessagesTypeOK /\ answers \in Nat /\ sender \in 0..Layers + 1 /\ answers + sender <= Layers + 2
    BY DEF ExchangeInv, MessagesTypeOK, AnswersFromOutside
  <1>2. /\ sender' \in 0..Layers /\ sender' < layer /\ answers' = answers + 1
        /\ progress' = "responding" /\ flushing' = FALSE /\ late' \in BOOLEAN
        /\ withheld' \in {withheld, NothingWithheld} /\ pending' \in Seq(Message)
    BY <1>1, RaisedFacts
  <1>3. Layers \in Nat /\ Layers' = Layers
    BY <1>1, SetStacks DEF Layers
  <1>4. withheld' \in [start : {NoStart} \union Starts, of : SUBSET Nat, size : Nat]
    BY <1>1, <1>2 DEF MessagesTypeOK, NothingWithheld
  <1>5. Starts' = Starts /\ Message' = Message
    BY DEF Starts, Message, Parts
  <1>6. MessagesTypeOK'
    <2>1. /\ request' \in Requests /\ received' \in 0..MaxBody + 1 /\ out' \in Seq(Message)
      BY <1>1 DEF MessagesTypeOK
    <2>2. sender' \in 0..Layers' + 1 /\ answers' \in Nat
      BY <1>1, <1>2, <1>3
    <2>3. flushing' \in BOOLEAN /\ progress' \in {"arriving", "running", "saving", "responding", "done"}
      BY <1>2
    <2>4. pending' \in Seq(Message) /\ late' \in BOOLEAN
      BY <1>2
    <2>5. QED
      BY <1>4, <1>5, <2>1, <2>2, <2>3, <2>4 DEF MessagesTypeOK
  <1>7. answers' + sender' <= Layers' + 2
    <2>1. PICK a, b, c, l, n : a = sender' /\ b = sender /\ c = answers /\ l = layer /\ n = Layers
      OBVIOUS
    <2>2. a \in 0..n /\ a < l /\ l \in 1..n + 1 /\ l <= b /\ b \in 0..n + 1
      BY <1>1, <1>2, <2>1
    <2>3. c \in Nat /\ n \in Nat /\ c + b <= n + 2
      BY <1>1, <1>3, <2>1
    <2>4. (c + 1) + a <= n + 2
      BY <2>2, <2>3
    <2>5. QED
      BY <1>2, <1>3, <2>1, <2>4
  <1>8. AnswersFromOutside'
    BY <1>2, <1>7 DEF AnswersFromOutside
  <1>9. ~late' => InOnePiece'
    BY <1>1, RaisedKeeps DEF ExchangeInv
  <1>10. QED
    BY <1>6, <1>8, <1>9 DEF ExchangeInv

\* What is sent has the type of a message, also when it is too late for one response.
LEMMA SendsTypes ==
  ASSUME MessagesTypeOK, Sends
  PROVE  MessagesTypeOK'
  <1>1. /\ pending # <<>> /\ pending \in Seq(Message) /\ out \in Seq(Message)
        /\ UNCHANGED <<request, progress, received, sender, answers, late>>
        /\ withheld.start \in {NoStart} \union Starts /\ withheld.of \subseteq Nat /\ withheld.size \in Nat
        /\ withheld \in [start : {NoStart} \union Starts, of : SUBSET Nat, size : Nat]
    BY DEF Sends, MessagesTypeOK
  <1>2. PICK m, t : m = Head(pending) /\ t = Tail(pending)
    OBVIOUS
  <1>3. m \in Message /\ t \in Seq(Message)
    BY <1>1, <1>2, FirstAndRest
  <1>4. /\ m.type = "start" => m \in Starts
        /\ m.type = "body" => m \in Parts
    BY <1>3 DEF Message, Starts, Parts
  <1>5. ASSUME m.type = "start", withheld' = [withheld EXCEPT !.start = m]
        PROVE  withheld' \in [start : {NoStart} \union Starts, of : SUBSET Nat, size : Nat]
    BY <1>1, <1>4, <1>5
  <1>6. ASSUME m.type = "body", withheld.start # NoStart, Collects(m)
        PROVE  /\ pending' \in Seq(Message) /\ flushing' \in BOOLEAN
               /\ withheld' \in [start : {NoStart} \union Starts, of : SUBSET Nat, size : Nat]
    <2>1. m \in Parts /\ m.of \subseteq Nat /\ m.size \in Nat /\ withheld.start \in Starts
      BY <1>1, <1>4, <1>6 DEF Parts
    <2>2. PICK size, parts : size = withheld.size + m.size /\ parts = withheld.of \union m.of
      OBVIOUS
    <2>3. size \in Nat /\ parts \subseteq Nat
      BY <1>1, <2>1, <2>2
    <2>4. PICK whole : whole = [type |-> "body", of |-> parts, size |-> size, more |-> FALSE]
      OBVIOUS
    <2>5. whole \in Parts
      BY <2>3, <2>4 DEF Parts
    <2>6. withheld' = [withheld EXCEPT !.of = parts, !.size = size]
      BY <1>6, <2>2 DEF Collects
    <2>7. withheld' \in [start : {NoStart} \union Starts, of : SUBSET Nat, size : Nat]
      BY <1>1, <2>3, <2>6
    <2>8. \A s \in Starts, p \in Parts : <<s, p>> \in Seq(Message)
      BY DEF Message
    <2>9. ASSUME NEW n \in 1..MaxSize
          PROVE  /\ [withheld.start EXCEPT !.length = n] \in Starts
                 /\ [whole EXCEPT !.size = n] \in Parts
      <3>1. n \in Nat /\ n \in 0..MaxSize
        BY ExchangeAssumption
      <3>2. QED
        BY <2>1, <2>5, <3>1 DEF Starts, Parts
    <2>10. \/ pending' = t /\ flushing' = FALSE
           \/ pending' = <<withheld.start, whole>> /\ flushing' = TRUE
           \/ \E n \in 1..MaxSize :
                 /\ pending' = <<[withheld.start EXCEPT !.length = n], [whole EXCEPT !.size = n]>>
                 /\ flushing' = TRUE
      BY <1>2, <1>6, <2>2, <2>4 DEF Collects
    <2>11. QED
      BY <1>3, <2>1, <2>5, <2>7, <2>8, <2>9, <2>10
  <1>7. ASSUME out' = Append(out, m), pending' = t, flushing' = flushing,
               withheld' = IF flushing /\ pending' = <<>> THEN [withheld EXCEPT !.start = NoStart]
                           ELSE withheld
        PROVE  /\ out' \in Seq(Message)
               /\ withheld' \in [start : {NoStart} \union Starts, of : SUBSET Nat, size : Nat]
    <2>1. out' \in Seq(Message)
      BY <1>1, <1>3, <1>7, AppendProperties
    <2>2. [withheld EXCEPT !.start = NoStart] \in [start : {NoStart} \union Starts, of : SUBSET Nat, size : Nat]
      BY <1>1
    <2>3. QED
      BY <1>1, <1>7, <2>1, <2>2
  <1>8. /\ pending' \in Seq(Message) /\ out' \in Seq(Message) /\ flushing' \in BOOLEAN
        /\ withheld' \in [start : {NoStart} \union Starts, of : SUBSET Nat, size : Nat]
    <2>1. flushing \in BOOLEAN
      BY DEF MessagesTypeOK
    <2>2. \/ /\ m.type = "start" /\ withheld' = [withheld EXCEPT !.start = m]
             /\ pending' = t /\ UNCHANGED <<flushing, out>>
          \/ m.type = "body" /\ withheld.start # NoStart /\ Collects(m) /\ UNCHANGED out
          \/ /\ out' = Append(out, m) /\ pending' = t /\ flushing' = flushing
             /\ withheld' = IF flushing /\ pending' = <<>> THEN [withheld EXCEPT !.start = NoStart]
                            ELSE withheld
      BY <1>2 DEF Sends
    <2>3. QED
      BY <1>1, <1>3, <1>5, <1>6, <1>7, <2>1, <2>2
  <1>9. Starts' = Starts /\ Message' = Message /\ Layers' = Layers
    BY <1>1 DEF Starts, Message, Parts, Layers
  <1>10. QED
    BY <1>1, <1>8, <1>9 DEF MessagesTypeOK

LEMMA ExchangeNextKeeps ==
  ASSUME ExchangeInv, [ExchangeNext]_exchangeVars
  PROVE  ExchangeInv'
  <1>1. /\ MessagesTypeOK /\ AnswersFromOutside /\ (~late => InOnePiece)
        /\ Layers \in Nat /\ sender \in 0..Layers + 1
        /\ \A layer : Uses(layer) => At(layer) \in 1..Layers
    BY SetStacks DEF ExchangeInv, MessagesTypeOK
  <1>2. Layers + 1 \in 1..Layers + 1 /\ \A i \in 1..Layers : i \in 1..Layers + 1
    BY <1>1
  <1>3. CASE UNCHANGED exchangeVars
    <2> USE <1>3 DEF exchangeVars, Layers, Message, Starts, Parts
    <2>1. MessagesTypeOK'
      BY <1>1 DEF MessagesTypeOK
    <2>2. AnswersFromOutside'
      BY <1>1 DEF AnswersFromOutside
    <2>3. Passing => Passing'
      BY DEF Passing, Complete
    <2>4. Withholding => Withholding'
      <3>1. ASSUME NEW q, NEW k, Holding(q, k) PROVE Holding(q, k)'
        BY <3>1 DEF Holding, Complete
      <3>2. Compresses => Compresses'
        BY DEF Compresses, At
      <3>3. QED
        BY <3>1, <3>2 DEF Withholding
    <2>5. InOnePiece => InOnePiece'
      <3>1. Unsent => Unsent'
        BY DEF Unsent
      <3>2. Complete(pending) => Complete(pending)'
        BY DEF Complete
      <3>3. QED
        BY <2>3, <2>4, <3>1, <3>2 DEF InOnePiece
    <2>6. QED
      BY <1>1, <2>1, <2>2, <2>5 DEF ExchangeInv
  <1>4. CASE Arrives
    <2>1. progress = "arriving" /\ sender = Layers + 1 /\ UNCHANGED <<request, received, out>>
      BY <1>1, <1>4 DEF Arrives, AnswersFromOutside
    <2>2. CASE Uses("limit") /\ Raised(At("limit"))
      <3>1. At("limit") \in 1..Layers + 1 /\ At("limit") <= sender
        BY <1>1, <1>2, <2>1, <2>2
      <3>2. QED
        BY <2>1, <2>2, <3>1, RaisedSound
    <2>3. CASE Raised(Layers + 1)
      BY <1>1, <1>2, <2>1, <2>3, RaisedSound
    <2>4. CASE progress' = "running" /\ UNCHANGED <<sender, pending, flushing, withheld, answers, late>>
      BY <1>1, <2>1, <2>4
      DEF ExchangeInv, MessagesTypeOK, AnswersFromOutside, InOnePiece, Unsent, Layers, Message, Starts, Parts
    <2>5. QED
      BY <1>4, <2>2, <2>3, <2>4 DEF Arrives
  <1>5. CASE Receives
    <2>1. /\ progress = "running" /\ received <= MaxBody /\ received' = received + 1
          /\ received \in 0..MaxBody + 1 /\ answers = 0 /\ sender = Layers + 1
          /\ UNCHANGED <<request, sender, flushing, withheld, out, late>>
      BY <1>1, <1>5 DEF Receives, MessagesTypeOK, AnswersFromOutside
    <2>2. received' \in 0..MaxBody + 1
      BY <2>1, ExchangeAssumption
    <2>3. CASE received' > MaxBody
      <3>1. PICK q, r, size : /\ q = pending' /\ r = answers'
                              /\ size = IF request.method = "HEAD" THEN 0 ELSE 1
        OBVIOUS
      <3>2. /\ q = Whole(r, size, TRUE) /\ r = 1 /\ progress' = "saving" /\ size \in 0..MaxSize
        BY <1>5, <2>1, <2>3, <3>1, ExchangeAssumption DEF Receives
      <3>3. Complete(q) /\ q \in Seq(Message)
        BY <3>2, WholeIsComplete, CompleteFacts
      <3>4. Complete(q)'
        BY <2>1, <3>3, CompleteStays
      <3>5. Complete(pending)'
        BY <3>1, <3>4
      <3>6. InOnePiece => InOnePiece'
        BY <2>1, <3>2, <3>5 DEF InOnePiece, Unsent
      <3>7. MessagesTypeOK'
        <4>1. pending' \in Seq(Message)
          BY <3>1, <3>3
        <4>2. answers' \in Nat
          BY <3>1, <3>2
        <4>3. progress' \in {"arriving", "running", "saving", "responding", "done"}
          BY <3>2
        <4>4. QED
          BY <1>1, <2>1, <2>2, <4>1, <4>2, <4>3 DEF MessagesTypeOK, Layers, Message, Starts, Parts
      <3>8. AnswersFromOutside'
        BY <1>1, <2>1, <3>1, <3>2 DEF AnswersFromOutside, Layers
      <3>9. QED
        BY <1>1, <2>1, <3>6, <3>7, <3>8 DEF ExchangeInv
    <2>4. CASE ~(received' > MaxBody)
      <3>1. UNCHANGED <<progress, answers, pending>>
        BY <1>5, <2>4 DEF Receives
      <3>2. QED
        BY <1>1, <2>1, <2>2, <3>1
        DEF ExchangeInv, MessagesTypeOK, AnswersFromOutside, InOnePiece, Unsent, Layers, Message, Starts, Parts
    <2>5. QED
      BY <2>3, <2>4
  <1>6. CASE EndpointEnds
    <2>1. /\ progress = "running" /\ progress' = "saving" /\ answers = 0 /\ answers' = 1
          /\ sender = Layers + 1 /\ pending' \in Made(answers')
          /\ UNCHANGED <<request, received, sender, flushing, withheld, out, late>>
      BY <1>1, <1>6 DEF EndpointEnds, AnswersFromOutside
    <2>2. PICK q : q = pending'
      OBVIOUS
    <2>3. q \in Made(1)
      BY <2>1, <2>2
    <2>4. Complete(q) /\ q \in Seq(Message)
      BY <2>3, MadeIsComplete, CompleteFacts
    <2>5. Complete(q)'
      BY <2>1, <2>4, CompleteStays
    <2>6. Complete(pending)'
      BY <2>2, <2>5
    <2>7. InOnePiece => InOnePiece'
      BY <2>1, <2>6 DEF InOnePiece, Unsent
    <2>8. MessagesTypeOK'
      BY <1>1, <2>1, <2>2, <2>4 DEF MessagesTypeOK, Layers, Message, Starts, Parts
    <2>9. AnswersFromOutside'
      BY <1>1, <2>1 DEF AnswersFromOutside, Layers
    <2>10. QED
      BY <1>1, <2>1, <2>7, <2>8, <2>9 DEF ExchangeInv
  <1>7. CASE SavesSession
    <2>1. progress = "saving" /\ sender = Layers + 1 /\ UNCHANGED <<request, received, out>>
      BY <1>1, <1>7 DEF SavesSession, AnswersFromOutside
    <2>2. CASE Raised(Layers + 1)
      BY <1>1, <1>2, <2>1, <2>2, RaisedSound
    <2>3. CASE /\ progress' = "responding"
               /\ UNCHANGED <<sender, pending, flushing, withheld, answers, late>>
      <3>1. ASSUME InOnePiece PROVE InOnePiece'
        <4>1. Unsent /\ Complete(pending)
          BY <2>1, <3>1 DEF InOnePiece
        <4>2. PICK q : q = pending
          OBVIOUS
        <4>3. Complete(q) /\ q \in Seq(Message)
          BY <4>1, <4>2, CompleteFacts
        <4>4. Complete(q)'
          BY <2>1, <4>3, CompleteStays
        <4>5. (out \o pending)' = q /\ out' = <<>>
          BY <2>1, <2>3, <4>1, <4>2, <4>3, ConcatEmptySeq DEF Unsent
        <4>6. withheld' = NothingWithheld /\ withheld'.start = NoStart
          BY <2>3, <4>1 DEF Unsent, NothingWithheld
        <4>7. Passing'
          BY <4>4, <4>5, <4>6 DEF Passing, NothingWithheld, NoStart
        <4>8. QED
          BY <2>3, <4>7 DEF InOnePiece
      <3>2. MessagesTypeOK'
        BY <1>1, <2>1, <2>3 DEF MessagesTypeOK, Layers, Message, Starts, Parts
      <3>3. AnswersFromOutside'
        BY <1>1, <2>1, <2>3 DEF AnswersFromOutside, Layers
      <3>4. QED
        BY <1>1, <2>3, <3>1, <3>2, <3>3 DEF ExchangeInv
    <2>4. QED
      BY <1>7, <2>2, <2>3 DEF SavesSession
  <1>8. CASE Sends
    <2>1. MessagesTypeOK'
      BY <1>1, <1>8, SendsTypes
    <2>2. /\ progress = "responding"
          /\ UNCHANGED <<request, progress, received, sender, answers, late>>
      BY <1>8 DEF Sends
    <2>3. AnswersFromOutside'
      BY <1>1, <2>2 DEF AnswersFromOutside, Layers
    <2>4. QED
      BY <1>1, <1>8, <2>1, <2>2, <2>3, SendsKeeps DEF ExchangeInv
  <1>9. CASE Ends
    <2>1. /\ progress = "responding" /\ pending = <<>> /\ progress' = "done"
          /\ UNCHANGED <<request, received, sender, pending, flushing, withheld, answers, out, late>>
      BY <1>9 DEF Ends
    <2>2. Passing => Passing'
      BY <2>1 DEF Passing, Complete, Message, Starts, Parts
    <2>3. ~Withholding
      <3>1. SUFFICES ASSUME NEW q, NEW k, Holding(q, k) PROVE FALSE
        BY DEF Withholding
      <3>2. q \in Seq(Message) /\ k \in 1..Len(q) - 1 /\ pending = SubSeq(q, k + 1, Len(q))
        BY <3>1, CompleteFacts DEF Holding
      <3>3. PICK p : p = pending
        OBVIOUS
      <3>4. p # <<>>
        BY <3>2, <3>3, LaterMessages
      <3>5. QED
        BY <2>1, <3>3, <3>4
    <2>4. InOnePiece => InOnePiece'
      BY <2>1, <2>2, <2>3 DEF InOnePiece
    <2>5. MessagesTypeOK' /\ AnswersFromOutside'
      BY <1>1, <2>1 DEF MessagesTypeOK, AnswersFromOutside, Layers, Message, Starts, Parts
    <2>6. QED
      BY <1>1, <2>1, <2>4, <2>5 DEF ExchangeInv
  <1>10. CASE StreamRaises
    <2>1. sender = Layers + 1 /\ Raised(sender) /\ UNCHANGED <<request, received, out>>
      BY <1>10 DEF StreamRaises
    <2>2. Raised(Layers + 1) /\ Layers + 1 <= sender
      BY <1>1, <2>1
    <2>3. QED
      BY <1>2, <2>1, <2>2, RaisedSound
  <1>11. CASE TimesOut
    <2>1. /\ Uses("timeout") /\ At("timeout") < sender /\ Raised(At("timeout"))
          /\ UNCHANGED <<request, received, out>>
      BY <1>11 DEF TimesOut
    <2>2. At("timeout") \in 1..Layers + 1 /\ At("timeout") <= sender
      BY <1>1, <1>2, <2>1
    <2>3. QED
      BY <2>1, <2>2, RaisedSound
  <1>12. QED
    BY <1>3, <1>4, <1>5, <1>6, <1>7, <1>8, <1>9, <1>10, <1>11 DEF ExchangeNext

LEMMA AlwaysExchangeInv == ExchangeSpec => []ExchangeInv
  <1>1. ExchangeInit => ExchangeInv
    <2> SUFFICES ASSUME ExchangeInit PROVE ExchangeInv
      OBVIOUS
    <2>1. PICK e : e = <<>>
      OBVIOUS
    <2>2. e \in Seq(Message) /\ pending = e /\ out = e
      BY <2>1 DEF ExchangeInit
    <2>3. Layers \in Nat
      BY ExchangeAssumption DEF ExchangeInit, Requests, Layers
    <2>4. Layers + 1 \in 0..Layers + 1 /\ 0 + (Layers + 1) <= Layers + 2 /\ 0 \in 0..MaxBody + 1
      BY <2>3, ExchangeAssumption
    <2>5. withheld = NothingWithheld
      BY DEF ExchangeInit, NothingWithheld
    <2>6. MessagesTypeOK
      <3>1. NothingWithheld \in [start : {NoStart} \union Starts, of : SUBSET Nat, size : Nat]
        BY DEF NothingWithheld
      <3>2. /\ request \in Requests /\ progress = "arriving" /\ received = 0 /\ sender = Layers + 1
            /\ flushing = FALSE /\ answers = 0 /\ late = FALSE
        BY DEF ExchangeInit
      <3>3. QED
        BY <2>2, <2>4, <2>5, <3>1, <3>2 DEF MessagesTypeOK
    <2>7. AnswersFromOutside
      BY <2>4 DEF ExchangeInit, AnswersFromOutside
    <2>8. InOnePiece
      BY <2>5 DEF ExchangeInit, InOnePiece, Unsent
    <2>9. QED
      BY <2>6, <2>7, <2>8 DEF ExchangeInv
  <1>2. QED
    BY <1>1, ExchangeNextKeeps, PTL DEF ExchangeSpec

\* With any layers in any order and any limits, the request, the messages and the counts
\* of an exchange keep their types, and there are at most as many answers as layers,
\* with the endpoint's and __call__'s.
THEOREM ExchangeTypeCorrect == ExchangeSpec => []ExchangeTypeOK
  <1>1. ASSUME ExchangeInv PROVE ExchangeTypeOK
    <2>1. MessagesTypeOK /\ Layers \in Nat /\ answers \in 0..Layers + 2
      <3>1. MessagesTypeOK /\ Layers \in Nat /\ sender \in 0..Layers + 1 /\ answers \in Nat
            /\ answers + sender <= Layers + 2
        BY <1>1, SetStacks DEF ExchangeInv, MessagesTypeOK, AnswersFromOutside
      <3>2. QED
        BY <3>1
    <2>2. \A i \in DOMAIN pending : pending[i].type \in {"start", "body"}
      <3>1. pending \in Seq(Message) /\ DOMAIN pending = 1..Len(pending)
        BY <2>1, LenProperties DEF MessagesTypeOK
      <3>2. \A m \in Message : m.type \in {"start", "body"}
        BY DEF Message, Starts, Parts
      <3>3. QED
        BY <3>1, <3>2
    <2>3. withheld.start.length \in {Unknown} \union 0..MaxSize
      BY <2>1 DEF MessagesTypeOK, NoStart, Starts
    <2>4. QED
      BY <2>1, <2>2, <2>3 DEF ExchangeTypeOK, MessagesTypeOK
  <1>2. QED
    BY <1>1, AlwaysExchangeInv, PTL

\* With any layers in any order, and whatever raises or times out: unless an error was
\* answered after a response had begun, the server gets one response, whole, in order
\* and of the length it announced (what _handle_http() and the middleware send).
THEOREM ServerGetsOneResponse == ExchangeSpec => []AnsweredOnce
  <1>1. ASSUME ExchangeInv PROVE AnsweredOnce
    <2>1. PICK n : n = Len(out)
      OBVIOUS
    <2>2. /\ out \in Seq(Message) /\ pending \in Seq(Message) /\ n \in Nat
          /\ Len(pending) \in Nat /\ progress \in {"arriving", "running", "saving", "responding", "done"}
      BY <1>1, <2>1, LenProperties DEF ExchangeInv, MessagesTypeOK
    <2>3. CASE late
      BY <2>3 DEF AnsweredOnce
    <2>4. CASE ~late /\ out = <<>> /\ progress # "done"
      <3>1. n = 0
        BY <2>1, <2>4, EmptySeq
      <3>2. QED
        BY <2>1, <2>4, <3>1 DEF AnsweredOnce
    <2>5. CASE ~late /\ Passing /\ (progress = "done" => pending = <<>>)
      <3>1. PICK q : q = out \o pending
        OBVIOUS
      <3>2. Complete(q) /\ Len(q) \in Nat /\ Len(q) >= 2
        BY <2>5, <3>1, CompleteFacts DEF Passing
      <3>3. /\ Len(q) = n + Len(pending)
            /\ \A i \in 1..n + Len(pending) : q[i] = IF i <= n THEN out[i] ELSE pending[i - n]
        BY <2>1, <2>2, <3>1, ConcatProperties
      <3>4. \A i \in 1..n : out[i] = q[i] /\ i \in 1..Len(q)
        BY <2>2, <3>3
      <3>5. n > 0 => out[1] = q[1] /\ out[1].type = "start"
        <4>1. q[1].type = "start"
          BY <3>2 DEF Complete, Starts
        <4>2. n > 0 => 1 \in 1..n
          BY <2>2
        <4>3. QED
          BY <3>4, <4>1, <4>2
      <3>6. ASSUME NEW i \in 2..n
            PROVE  out[i].type = "body" /\ out[i].of = out[1].of /\ (~out[i].more => i = n)
        <4>1. i \in 1..n /\ i \in 2..Len(q) /\ n > 0
          BY <2>2, <3>3
        <4>2. out[i] = q[i] /\ out[1] = q[1]
          BY <3>4, <3>5, <4>1
        <4>3. q[i].type = "body" /\ q[i].of = q[1].of
          BY <3>2, <4>1, CompleteFacts
        <4>4. ~q[i].more => i = Len(q)
          BY <3>2, <4>1 DEF Complete
        <4>5. QED
          BY <2>2, <3>3, <4>1, <4>2, <4>3, <4>4
      <3>7. ASSUME n = Len(q) PROVE out = q
        <4>1. Len(pending) = 0
          BY <2>2, <3>3, <3>7
        <4>2. pending = <<>>
          BY <2>2, <4>1, EmptySeq
        <4>3. QED
          BY <2>2, <3>1, <4>2, ConcatEmptySeq
      <3>8. ASSUME n > 1, ~out[n].more, request.method = "GET"
            PROVE  out[1].length \in {Unknown, BytesTo(out)[n]}
        <4>1. n \in 2..Len(q) /\ n \in 1..n
          BY <2>2, <3>3, <3>8
        <4>2. ~q[n].more
          BY <3>4, <3>8, <4>1
        <4>3. n = Len(q)
          BY <3>2, <4>1, <4>2 DEF Complete
        <4>4. out = q
          BY <3>7, <4>3
        <4>5. QED
          BY <3>2, <3>8, <4>3, <4>4 DEF Complete
      <3>9. ASSUME progress = "done" PROVE n > 1 /\ ~out[n].more
        <4>1. pending = <<>>
          BY <2>5, <3>9
        <4>2. n = Len(q)
          BY <2>2, <3>3, <4>1, EmptySeq
        <4>3. out = q
          BY <3>7, <4>2
        <4>4. QED
          BY <3>2, <4>2, <4>3 DEF Complete
      <3>10. QED
        BY <2>1, <3>5, <3>6, <3>8, <3>9 DEF AnsweredOnce
    <2>6. CASE ~late /\ Withholding /\ progress = "done" /\ pending = <<>>
      <3>1. PICK q, k : Holding(q, k)
        BY <2>6 DEF Withholding
      <3>2. q \in Seq(Message) /\ k \in 1..Len(q) - 1 /\ pending = SubSeq(q, k + 1, Len(q))
        BY <3>1, CompleteFacts DEF Holding
      <3>3. PICK p : p = pending
        OBVIOUS
      <3>4. p # <<>>
        BY <3>2, <3>3, LaterMessages
      <3>5. QED
        BY <2>6, <3>3, <3>4
    <2>7. \/ late
          \/ ~late /\ out = <<>> /\ progress # "done"
          \/ ~late /\ Passing /\ (progress = "done" => pending = <<>>)
          \/ ~late /\ Withholding /\ progress = "done" /\ pending = <<>>
      BY <1>1, <2>2 DEF ExchangeInv, InOnePiece, Unsent, Withholding
    <2>8. QED
      BY <2>3, <2>4, <2>5, <2>6, <2>7
  <1>2. QED
    BY <1>1, AlwaysExchangeInv, PTL

-----------------------------------------------------------------------------
(* Routes: what a template matches, and how routes rank *)

RouteOf == [template : Template, methods : SUBSET Methods]

LEMMA TemplateFacts ==
  ASSUME NEW t \in Template
  PROVE  /\ t \in Seq(Segment) /\ Len(t) \in Nat /\ DOMAIN t = 1..Len(t)
         /\ \A i \in 1..Len(t) : t[i] \in Segment /\ t[i].texts \subseteq Text
         /\ \A i \in 1..Len(t) : t[i].kind = "literal" => \A x, y \in t[i].texts : x = y
  <1>1. t \in Seq(Segment) /\ \A i \in 1..Len(t) : t[i].kind = "literal" => \A x, y \in t[i].texts : x = y
    BY DEF Template
  <1>2. Len(t) \in Nat /\ DOMAIN t = 1..Len(t)
    BY <1>1, LenProperties
  <1>3. \A i \in 1..Len(t) : t[i] \in Segment
    BY <1>1, ElementOfSeq
  <1>4. \A s \in Segment : s.texts \subseteq Text
    BY DEF Segment
  <1>5. QED
    BY <1>1, <1>2, <1>3, <1>4

\* The ends that the i-th segment may have if it begins after one of some texts.
EndsAfter(t, path, S, i) ==
    {k \in 1..Len(path) : \E j \in S :
        IF t[i].kind = "path" THEN j < k /\ SubSeq(path, j + 1, k) # <<"">>
        ELSE k = j + 1 /\ path[k] \in t[i].texts}

\* The ends that the segments of a template may have, as far as one wants them.
LEMMA ReachExists ==
  ASSUME NEW t \in Template, NEW path \in Seq(Text), NEW n \in Nat, n <= Len(t)
  PROVE  \E f \in [0..n -> SUBSET Nat] :
            /\ f[0] = {0}
            /\ \A i \in 1..n : f[i] = EndsAfter(t, path, f[i - 1], i)
  <1> DEFINE EndsThere(S, i) == EndsAfter(t, path, S, i)
  <1>0. \A S, i : EndsThere(S, i) \in SUBSET Nat
    <2> TAKE S, i
    <2>1. \A k \in 1..Len(path) : k \in Nat
      BY LenProperties
    <2>2. \A k \in EndsThere(S, i) : k \in 1..Len(path)
      BY DEF EndsAfter
    <2> HIDE DEF EndsThere
    <2>3. QED
      BY <2>1, <2>2
  <1> HIDE DEF EndsThere
  <1> DEFINE Known(m) == \E f \in [0..m -> SUBSET Nat] :
                            f[0] = {0} /\ \A i \in 1..m : f[i] = EndsThere(f[i - 1], i)
             Without == {m \in Nat : m <= Len(t) /\ ~Known(m)}
  <1>1. Without = {}
    <2>1. SUFFICES ASSUME Without # {} PROVE FALSE
      OBVIOUS
    <2>2. PICK m \in Without : \A k \in Without : m <= k
      BY <2>1, Least
    <2>3. m # 0
      <3>1. Known(0)
        <4>1. PICK f : f = [i \in 0..0 |-> {0}]
          OBVIOUS
        <4>2. f \in [0..0 -> SUBSET Nat] /\ f[0] = {0} /\ \A i \in 1..0 : FALSE
          BY <4>1
        <4>3. QED
          BY <4>2
      <3>2. QED
        BY <3>1
    <2>4. m - 1 \in Nat /\ ~(m <= m - 1) /\ m \in Nat /\ m - 1 <= Len(t)
      BY <2>2, <2>3, TemplateFacts
    <2>5. Known(m - 1)
      BY <2>2, <2>4
    <2>6. PICK f \in [0..m - 1 -> SUBSET Nat] :
             f[0] = {0} /\ \A i \in 1..m - 1 : f[i] = EndsThere(f[i - 1], i)
      BY <2>5
    <2>7. PICK g : g = [i \in 0..m |-> IF i = m THEN EndsThere(f[m - 1], m) ELSE f[i]]
      OBVIOUS
    <2>8. g \in [0..m -> SUBSET Nat] /\ g[0] = {0} /\ \A i \in 1..m : g[i] = EndsThere(g[i - 1], i)
      <3>1. EndsThere(f[m - 1], m) \in SUBSET Nat
        BY <1>0
      <3>2. g \in [0..m -> SUBSET Nat]
        BY <2>4, <2>6, <2>7, <3>1
      <3>3. g[0] = {0}
        BY <2>3, <2>4, <2>6, <2>7
      <3>4. ASSUME NEW i \in 1..m PROVE g[i] = EndsThere(g[i - 1], i)
        <4>1. i - 1 \in 0..m /\ i - 1 # m /\ i \in 0..m
          BY <2>4
        <4>2. g[i - 1] = f[i - 1]
          BY <2>7, <4>1
        <4>3. CASE i = m
          BY <2>7, <4>1, <4>2, <4>3
        <4>4. CASE i # m
          <5>1. i \in 1..m - 1
            BY <2>4, <4>4
          <5>2. g[i] = f[i]
            BY <2>7, <4>1, <4>4
          <5>3. QED
            BY <2>6, <4>2, <5>1, <5>2
        <4>5. QED
          BY <4>3, <4>4
      <3>5. QED
        BY <3>2, <3>3, <3>4
    <2>9. QED
      BY <2>2, <2>8
  <1>2. Known(n)
    BY <1>1
  <1>3. QED
    BY <1>2 DEF EndsThere

LEMMA ReachFacts ==
  ASSUME NEW t \in Template, NEW path \in Seq(Text)
  PROVE  /\ Reach(t, path)[0] = {0}
         /\ \A i \in 1..Len(t) :
               Reach(t, path)[i] = EndsAfter(t, path, Reach(t, path)[i - 1], i)
  <1> DEFINE EndsThere(S, i) == EndsAfter(t, path, S, i)
             Reaches(f) == f = [i \in 0..Len(t) |-> IF i = 0 THEN {0} ELSE EndsThere(f[i - 1], i)]
  <1>1. Reach(t, path) = CHOOSE f : Reaches(f)
    BY DEF Reach, EndsAfter
  <1>2. Len(t) \in Nat /\ Len(t) <= Len(t)
    BY TemplateFacts
  <1>3. PICK f \in [0..Len(t) -> SUBSET Nat] :
           f[0] = {0} /\ \A i \in 1..Len(t) : f[i] = EndsThere(f[i - 1], i)
    BY <1>2, ReachExists
  <1> HIDE DEF EndsThere
  <1>4. Reaches(f)
    <2>1. \A i \in 0..Len(t) : f[i] = IF i = 0 THEN {0} ELSE EndsThere(f[i - 1], i)
      <3> TAKE i \in 0..Len(t)
      <3>1. CASE i = 0
        BY <1>3, <3>1
      <3>2. CASE i # 0
        <4>1. i \in 1..Len(t)
          BY <1>2, <3>2
        <4>2. QED
          BY <1>3, <3>2, <4>1
      <3>3. QED
        BY <3>1, <3>2
    <2>2. QED
      BY <1>3, <2>1
  <1>5. PICK h : h = Reach(t, path)
    OBVIOUS
  <1>6. Reaches(h)
    BY <1>1, <1>4, <1>5
  <1>7. h[0] = {0}
    BY <1>2, <1>6
  <1>8. \A i \in 1..Len(t) : h[i] = EndsThere(h[i - 1], i)
    <2> TAKE i \in 1..Len(t)
    <2>1. i \in 0..Len(t) /\ i # 0
      BY <1>2
    <2>2. QED
      BY <1>6, <2>1
  <1>9. QED
    BY <1>5, <1>7, <1>8 DEF EndsThere

\* Segments that match one text each, at the beginning of a template, take one each.
LEMMA ReachOfTexts ==
  ASSUME NEW t \in Template, NEW path \in Seq(Text), NEW m \in 0..Len(t),
         \A i \in 1..m : t[i].kind # "path", NEW n \in 0..m
  PROVE  Reach(t, path)[n] = {k \in {n} : k <= Len(path) /\ \A j \in 1..n : path[j] \in t[j].texts}
  <1>1. PICK f : f = Reach(t, path)
    OBVIOUS
  <1>2. Len(t) \in Nat /\ Len(path) \in Nat /\ m \in Nat /\ m <= Len(t)
    BY TemplateFacts, LenProperties
  <1>3. /\ f[0] = {0}
        /\ \A i \in 1..m : f[i] = {k \in 1..Len(path) : \E j \in f[i - 1] :
                                      k = j + 1 /\ path[k] \in t[i].texts}
    <2>1. f[0] = {0}
      BY <1>1, ReachFacts
    <2>2. ASSUME NEW i \in 1..m
          PROVE  f[i] = {k \in 1..Len(path) : \E j \in f[i - 1] : k = j + 1 /\ path[k] \in t[i].texts}
      <3>1. i \in 1..Len(t) /\ t[i].kind # "path"
        BY <1>2
      <3>2. f[i] = EndsAfter(t, path, f[i - 1], i)
        BY <1>1, <3>1, ReachFacts
      <3>3. PICK S : S = f[i - 1]
        OBVIOUS
      <3>4. EndsAfter(t, path, S, i) =
               {k \in 1..Len(path) : \E j \in S : k = j + 1 /\ path[k] \in t[i].texts}
        BY <3>1 DEF EndsAfter
      <3>5. QED
        BY <3>2, <3>3, <3>4
    <2>3. QED
      BY <2>1, <2>2
  <1> DEFINE Spelt(i) == i <= Len(path) /\ \A j \in 1..i : path[j] \in t[j].texts
             Odd == {i \in Nat : i <= m /\ f[i] # {k \in {i} : Spelt(i)}}
  <1>4. Odd = {}
    <2>1. SUFFICES ASSUME Odd # {} PROVE FALSE
      OBVIOUS
    <2>2. PICK i \in Odd : \A k \in Odd : i <= k
      BY <2>1, Least
    <2>3. i # 0
      <3>1. Spelt(0)
        BY <1>2
      <3>2. f[0] = {k \in {0} : Spelt(0)}
        BY <1>3, <3>1
      <3>3. QED
        BY <2>2, <3>2
    <2>4. i - 1 \in Nat /\ ~(i <= i - 1) /\ i - 1 <= m /\ i \in 1..m /\ (i - 1) + 1 = i
      BY <1>2, <2>2, <2>3
    <2>5. f[i - 1] = {k \in {i - 1} : Spelt(i - 1)}
      BY <2>2, <2>4
    <2>6. Spelt(i) <=> Spelt(i - 1) /\ i \in 1..Len(path) /\ path[i] \in t[i].texts
      <3>1. \A j : j \in 1..i <=> j \in 1..i - 1 \/ j = i
        BY <2>4
      <3>2. i <= Len(path) <=> i - 1 <= Len(path) /\ i \in 1..Len(path)
        BY <1>2, <2>4
      <3>3. QED
        BY <3>1, <3>2
    <2>7. \A k : k \in f[i] <=> k = i /\ i \in 1..Len(path) /\ Spelt(i - 1) /\ path[i] \in t[i].texts
      <3> TAKE k
      <3> HIDE DEF Spelt
      <3>1. k \in f[i] <=> k \in 1..Len(path) /\ \E j \in f[i - 1] : k = j + 1 /\ path[k] \in t[i].texts
        BY <1>3, <2>4
      <3>2. \A j : j \in f[i - 1] <=> j = i - 1 /\ Spelt(i - 1)
        BY <2>5
      <3>3. QED
        BY <2>4, <3>1, <3>2
    <2>8. f[i] = {k \in {i} : Spelt(i)}
      <3> HIDE DEF Spelt
      <3>1. \A k : k \in f[i] <=> k = i /\ Spelt(i)
        BY <2>6, <2>7
      <3>2. QED
        BY <3>1
    <2>9. QED
      BY <2>2, <2>8
  <1>5. n \in Nat /\ n <= m
    BY <1>2
  <1>6. f[n] = {k \in {n} : Spelt(n)}
    BY <1>4, <1>5
  <1>7. QED
    BY <1>1, <1>6

\* If all segments match something, so do the first of them.
LEMMA ReachesAll ==
  ASSUME NEW t \in Template, NEW path \in Seq(Text), Matches(t, path), NEW n \in 0..Len(t)
  PROVE  Reach(t, path)[n] # {}
  <1>1. PICK f : f = Reach(t, path)
    OBVIOUS
  <1>2. Len(t) \in Nat /\ n \in Nat /\ Len(t) - n \in Nat /\ Len(t) - (Len(t) - n) = n
    BY TemplateFacts
  <1>3. \A i \in 1..Len(t) : f[i] # {} => f[i - 1] # {}
    <2> TAKE i \in 1..Len(t)
    <2>1. f[i] = EndsAfter(t, path, f[i - 1], i)
      BY <1>1, ReachFacts
    <2>2. \A k \in f[i] : \E j \in f[i - 1] : TRUE
      BY <2>1 DEF EndsAfter
    <2>3. QED
      BY <2>2
  <1> DEFINE Odd == {d \in Nat : d <= Len(t) /\ f[Len(t) - d] = {}}
  <1>4. Odd = {}
    <2>1. SUFFICES ASSUME Odd # {} PROVE FALSE
      OBVIOUS
    <2>2. PICK d \in Odd : \A k \in Odd : d <= k
      BY <2>1, Least
    <2>3. d # 0
      <3>1. Len(t) - 0 = Len(t)
        BY <1>2
      <3>2. f[Len(t)] # {}
        BY <1>1 DEF Matches
      <3>3. QED
        BY <2>2, <3>1, <3>2
    <2>4. /\ d - 1 \in Nat /\ ~(d <= d - 1) /\ d - 1 <= Len(t)
          /\ Len(t) - (d - 1) \in 1..Len(t) /\ (Len(t) - (d - 1)) - 1 = Len(t) - d
      BY <1>2, <2>2, <2>3
    <2>5. f[Len(t) - (d - 1)] # {}
      BY <2>2, <2>4
    <2>6. f[Len(t) - d] # {}
      BY <1>3, <2>4, <2>5
    <2>7. QED
      BY <2>2, <2>6
  <1>5. PICK d : d = Len(t) - n
    OBVIOUS
  <1>6. d \in Nat /\ d <= Len(t) /\ Len(t) - d = n
    BY <1>2, <1>5
  <1>7. f[Len(t) - d] # {}
    BY <1>4, <1>6
  <1>8. QED
    BY <1>1, <1>6, <1>7

\* A template without parameters matches what it spells.
LEMMA SpellsWhatItMatches ==
  ASSUME NEW t \in Template, NEW path \in Seq(Text), ~Parameterised(t)
  PROVE  Matches(t, path) <=> Spells(t, path)
  <1>1. Len(t) \in Nat /\ Len(t) \in 0..Len(t) /\ DOMAIN t = 1..Len(t) /\ DOMAIN path = 1..Len(path)
    BY TemplateFacts, LenProperties
  <1>2. \A i \in 1..Len(t) : t[i].kind # "path"
    BY <1>1 DEF Parameterised
  <1>3. Reach(t, path)[Len(t)] =
           {k \in {Len(t)} : k <= Len(path) /\ \A j \in 1..Len(t) : path[j] \in t[j].texts}
    BY <1>1, <1>2, ReachOfTexts
  <1>4. Len(path) \in Reach(t, path)[Len(t)] <=>
           Len(path) = Len(t) /\ \A j \in 1..Len(t) : path[j] \in t[j].texts
    BY <1>1, <1>3
  <1>5. QED
    BY <1>1, <1>4 DEF Matches, Spells

LEMMA PrefixFacts ==
  ASSUME NEW t \in Template, Parameterised(t)
  PROVE  \E m \in 0..Len(t) : /\ Prefix(t) = SubSeq(t, 1, m) /\ Prefix(t) \in Seq(Segment)
                              /\ Len(Prefix(t)) = m /\ ~Parameterised(Prefix(t))
                              /\ \A i \in 1..m : Prefix(t)[i] = t[i] /\ t[i].kind = "literal"
  <1>1. Len(t) \in Nat /\ DOMAIN t = 1..Len(t)
    BY TemplateFacts
  <1> DEFINE Breaks(i) == /\ t[i].kind # "literal"
                          /\ \A j \in 1..i - 1 : t[j].kind = "literal"
             Odd == {i \in Nat : i \in 1..Len(t) /\ t[i].kind # "literal"}
  <1>2. PICK n \in Odd : \A k \in Odd : n <= k
    <2>1. Odd # {}
      BY <1>1 DEF Parameterised
    <2>2. QED
      BY <2>1, Least
  <1>3. n \in DOMAIN t /\ Breaks(n)
    <2>1. ASSUME NEW j \in 1..n - 1 PROVE t[j].kind = "literal"
      <3>1. j \in Nat /\ j \in 1..Len(t) /\ ~(n <= j)
        BY <1>1, <1>2
      <3>2. QED
        BY <1>2, <3>1
    <2>2. QED
      BY <1>1, <1>2, <2>1
  <1>4. PICK first : first = CHOOSE i \in DOMAIN t : Breaks(i)
    OBVIOUS
  <1>5. first \in DOMAIN t /\ Breaks(first)
    BY <1>3, <1>4
  <1>6. Prefix(t) = SubSeq(t, 1, first - 1)
    BY <1>4 DEF Prefix
  <1>7. first - 1 \in 0..Len(t) /\ first - 1 \in Nat /\ first - 1 <= Len(t)
    BY <1>1, <1>5
  <1>8. PICK p : p = Prefix(t)
    OBVIOUS
  <1>9. p \in Seq(Segment) /\ Len(p) = first - 1 /\ \A i \in 1..first - 1 : p[i] = t[i]
    <2>1. \A i \in 1..first - 1 : t[i] \in Segment
      <3> TAKE i \in 1..first - 1
      <3>1. i \in 1..Len(t)
        BY <1>1, <1>7
      <3>2. QED
        BY <3>1, TemplateFacts
    <2>2. /\ p \in Seq(Segment) /\ Len(p) = IF 1 <= first - 1 THEN first - 1 - 1 + 1 ELSE 0
          /\ \A i \in 1..first - 1 - 1 + 1 : p[i] = t[1 + i - 1]
      BY <1>6, <1>7, <1>8, <2>1, TemplateFacts, SubSeqProperties
    <2>3. QED
      BY <1>7, <2>2
  <1>10. \A i \in 1..first - 1 : p[i] = t[i] /\ t[i].kind = "literal"
    BY <1>5, <1>9
  <1>11. ~Parameterised(p)
    <2>1. DOMAIN p = 1..first - 1
      BY <1>9, LenProperties
    <2>2. QED
      BY <1>10, <2>1 DEF Parameterised
  <1>12. QED
    BY <1>6, <1>7, <1>8, <1>9, <1>10, <1>11

\* A path that a template matches goes through its node.
LEMMA MatchesGoThrough ==
  ASSUME NEW t \in Template, NEW path \in Seq(Text), Parameterised(t), Matches(t, path)
  PROVE  Len(Prefix(t)) <= Len(path) /\ Spells(Prefix(t), SubSeq(path, 1, Len(Prefix(t))))
  <1>1. PICK p, m : /\ p = Prefix(t) /\ m \in 0..Len(t) /\ Len(p) = m
                    /\ \A i \in 1..m : p[i] = t[i] /\ t[i].kind = "literal"
    BY PrefixFacts
  <1>2. Reach(t, path)[m] # {}
    BY <1>1, ReachesAll
  <1>3. m \in 0..m /\ m \in Nat
    BY <1>1, TemplateFacts
  <1>4. Reach(t, path)[m] = {k \in {m} : k <= Len(path) /\ \A j \in 1..m : path[j] \in t[j].texts}
    <2>1. \A i \in 1..m : t[i].kind # "path"
      BY <1>1
    <2>2. QED
      BY <1>1, <1>3, <2>1, ReachOfTexts
  <1>5. m <= Len(path) /\ \A j \in 1..m : path[j] \in t[j].texts
    BY <1>2, <1>4
  <1>6. PICK q : q = SubSeq(path, 1, m)
    OBVIOUS
  <1>7. DOMAIN q = 1..m /\ Len(q) = m /\ \A i \in 1..m : q[i] = path[i]
    <2>1. \A i \in 1..m : path[i] \in Text
      <3> TAKE i \in 1..m
      <3>1. i \in 1..Len(path)
        BY <1>3, <1>5, LenProperties
      <3>2. QED
        BY <3>1, ElementOfSeq
    <2>2. /\ q \in Seq(Text) /\ Len(q) = IF 1 <= m THEN m - 1 + 1 ELSE 0
          /\ \A i \in 1..m - 1 + 1 : q[i] = path[1 + i - 1]
      BY <1>3, <1>6, <2>1, SubSeqProperties
    <2>3. QED
      BY <1>3, <2>2, LenProperties
  <1>8. Spells(p, q)
    BY <1>1, <1>5, <1>7 DEF Spells
  <1>9. QED
    BY <1>1, <1>5, <1>6, <1>8
-----------------------------------------------------------------------------
(* The order of the routes *)

LEMMA RankFacts ==
  ASSUME NEW t \in Template
  PROVE  Cardinality(Literals(t)) \in Nat /\ Cardinality(Segments(t)) \in Nat
  <1>1. DOMAIN t = 1..Len(t) /\ Len(t) \in Nat
    BY TemplateFacts
  <1>2. IsFiniteSet(1..Len(t))
    BY <1>1, FS_Interval
  <1>3. Literals(t) \subseteq 1..Len(t) /\ Segments(t) \subseteq 1..Len(t)
    BY <1>1 DEF Literals, Segments
  <1>4. IsFiniteSet(Literals(t)) /\ IsFiniteSet(Segments(t))
    BY <1>2, <1>3, FS_Subset
  <1>5. QED
    BY <1>4, FS_CardinalityType

LEMMA RouteFacts ==
  ASSUME NEW rs \in Seq(RouteOf)
  PROVE  /\ Len(rs) \in Nat /\ DOMAIN rs = 1..Len(rs)
         /\ \A r \in 1..Len(rs) : rs[r] \in RouteOf /\ rs[r].template \in Template
                                  /\ rs[r].methods \in SUBSET Methods
  <1>1. Len(rs) \in Nat /\ DOMAIN rs = 1..Len(rs)
    BY LenProperties
  <1>2. \A r \in 1..Len(rs) : rs[r] \in RouteOf
    BY ElementOfSeq
  <1>3. \A route \in RouteOf : route.template \in Template /\ route.methods \in SUBSET Methods
    BY DEF RouteOf
  <1>4. QED
    BY <1>1, <1>2, <1>3

\* The key that _priority() sorts by puts the routes into a strict order.
LEMMA PrecedesOrders ==
  ASSUME NEW rs \in Seq(RouteOf), NEW a \in 1..Len(rs), NEW b \in 1..Len(rs)
  PROVE  /\ Precedes(rs, a, b) => ~Precedes(rs, b, a)
         /\ a # b => Precedes(rs, a, b) \/ Precedes(rs, b, a)
         /\ \A c \in 1..Len(rs) : Precedes(rs, a, b) /\ Precedes(rs, b, c) => Precedes(rs, a, c)
  <1> DEFINE Lits(r) == Cardinality(Literals(rs[r].template))
             Segs(r) == Cardinality(Segments(rs[r].template))
             Ahead(r, q) == \/ Lits(r) > Lits(q)
                            \/ Lits(r) = Lits(q) /\ Segs(r) > Segs(q)
  <1>1. \A r \in 1..Len(rs) : Lits(r) \in Nat /\ Segs(r) \in Nat /\ r \in Nat
    BY RouteFacts, RankFacts
  <1>2. \A r, q : Precedes(rs, r, q) <=> Ahead(r, q) \/ (~Ahead(q, r) /\ r < q)
    BY DEF Precedes, MoreSpecific
  <1> HIDE DEF Lits, Segs
  <1>3. ASSUME NEW c \in 1..Len(rs), Precedes(rs, a, b), Precedes(rs, b, c) PROVE Precedes(rs, a, c)
    BY <1>1, <1>2, <1>3
  <1>4. Precedes(rs, a, b) => ~Precedes(rs, b, a)
    BY <1>1, <1>2
  <1>5. a # b => Precedes(rs, a, b) \/ Precedes(rs, b, a)
    BY <1>1, <1>2
  <1>6. QED
    BY <1>3, <1>4, <1>5

\* Of any routes there is one that precedes the others.
LEMMA SomeIsFirst ==
  ASSUME NEW rs \in Seq(RouteOf), NEW S \in SUBSET (1..Len(rs)), S # {}
  PROVE  \E r \in S : \A q \in S \ {r} : Precedes(rs, r, q)
  <1> DEFINE Led(T) == \E r \in T : \A q \in T \ {r} : Precedes(rs, r, q)
             Odd == {n \in Nat : \E T \in SUBSET (1..n) : n <= Len(rs) /\ T # {} /\ ~Led(T)}
  <1>0. Len(rs) \in Nat
    BY RouteFacts
  <1>1. Odd = {}
    <2>1. SUFFICES ASSUME Odd # {} PROVE FALSE
      OBVIOUS
    <2>2. PICK n \in Odd : \A k \in Odd : n <= k
      BY <2>1, Least
    <2>3. PICK T \in SUBSET (1..n) : n <= Len(rs) /\ T # {} /\ ~Led(T)
      BY <2>2
    <2>4. n \in Nat /\ n # 0
      <3>1. n \in Nat
        BY <2>2
      <3>2. PICK i \in 1..n : i \in T
        BY <2>3
      <3>3. QED
        BY <3>1, <3>2
    <2>5. n - 1 \in Nat /\ ~(n <= n - 1) /\ n - 1 <= Len(rs) /\ n \in 1..Len(rs)
          /\ \A i \in 1..n : i \in 1..n - 1 \/ i = n
      BY <1>0, <2>3, <2>4
    <2>6. \A U \in SUBSET (1..n - 1) : U # {} => Led(U)
      BY <2>2, <2>5
    <2>7. n \in T
      <3>1. SUFFICES ASSUME n \notin T PROVE FALSE
        OBVIOUS
      <3>2. T \in SUBSET (1..n - 1)
        BY <2>3, <2>5, <3>1
      <3>3. QED
        BY <2>3, <2>6, <3>2
    <2>8. T \ {n} # {}
      <3>1. SUFFICES ASSUME T \ {n} = {} PROVE Led(T)
        BY <2>3
      <3>2. QED
        BY <2>7, <3>1
    <2>9. T \ {n} \in SUBSET (1..n - 1)
      BY <2>3, <2>5
    <2>10. PICK r \in T \ {n} : \A q \in (T \ {n}) \ {r} : Precedes(rs, r, q)
      BY <2>6, <2>8, <2>9
    <2>11. \A q \in T : q \in 1..Len(rs)
      BY <1>0, <2>3, <2>4
    <2>12. CASE Precedes(rs, r, n)
      <3>1. \A q \in T \ {r} : Precedes(rs, r, q)
        BY <2>10, <2>12
      <3>2. QED
        BY <2>3, <2>10, <3>1
    <2>13. CASE ~Precedes(rs, r, n)
      <3>1. Precedes(rs, n, r)
        BY <2>5, <2>10, <2>11, <2>13, PrecedesOrders
      <3>2. ASSUME NEW q \in T \ {n} PROVE Precedes(rs, n, q)
        <4>1. CASE q = r
          BY <3>1, <4>1
        <4>2. CASE q # r
          <5>1. Precedes(rs, r, q)
            BY <2>10, <4>2
          <5>2. QED
            BY <2>5, <2>11, <3>1, <5>1, PrecedesOrders
        <4>3. QED
          BY <4>1, <4>2
      <3>3. QED
        BY <2>3, <2>7, <3>2
    <2>14. QED
      BY <2>12, <2>13
  <1> HIDE DEF Led
  <1>2. Led(S)
    BY <1>0, <1>1
  <1>3. QED
    BY <1>2 DEF Led

\* Templates without parameters that spell the same path rank the same.
LEMMA SpellingRanks ==
  ASSUME NEW t \in Template, NEW u \in Template, NEW path \in Seq(Text),
         ~Parameterised(t), ~Parameterised(u), Spells(t, path), Spells(u, path)
  PROVE  ~MoreSpecific(t, u)
  <1>1. /\ DOMAIN t = 1..Len(path) /\ DOMAIN u = 1..Len(path) /\ DOMAIN path = 1..Len(path)
        /\ Len(t) = Len(path) /\ Len(u) = Len(path)
    BY TemplateFacts, LenProperties DEF Spells
  <1>2. \A i \in 1..Len(path) : t[i].kind = "literal" /\ u[i].kind = "literal"
    BY <1>1 DEF Parameterised
  <1>3. ASSUME NEW i \in 1..Len(path) PROVE t[i].texts = u[i].texts
    <2>1. path[i] \in t[i].texts /\ path[i] \in u[i].texts
      BY <1>1 DEF Spells
    <2>2. \A x, y \in t[i].texts : x = y
      BY <1>1, <1>2, TemplateFacts
    <2>3. \A x, y \in u[i].texts : x = y
      BY <1>1, <1>2, TemplateFacts
    <2>4. PICK x, S, T : x = path[i] /\ S = t[i].texts /\ T = u[i].texts
      OBVIOUS
    <2>5. S = {x} /\ T = {x}
      BY <2>1, <2>2, <2>3, <2>4
    <2>6. QED
      BY <2>4, <2>5
  <1>4. Segments(t) = Segments(u)
    BY <1>1, <1>3 DEF Segments
  <1>5. Literals(t) = Segments(t) /\ Literals(u) = Segments(u)
    BY <1>1, <1>2 DEF Literals, Segments
  <1>6. PICK n : n = Cardinality(Segments(t))
    OBVIOUS
  <1>7. n \in Nat
    BY <1>6, RankFacts
  <1>8. QED
    BY <1>4, <1>5, <1>6, <1>7 DEF MoreSpecific

-----------------------------------------------------------------------------
(* Routes: the index *)

\* The routes of a node in their order.
InOrder(rs, group) ==
    \A i, k \in 1..Len(group) : i < k => Precedes(rs, group[i], group[k])

LEMMA PlaceInNode ==
  ASSUME NEW rs \in Seq(RouteOf), NEW group \in Seq(1..Len(rs)), InOrder(rs, group),
         NEW r \in 1..Len(rs), \A i \in 1..Len(group) : group[i] # r
  PROVE  /\ Inserted(rs, group, r) \in Seq(1..Len(rs)) /\ InOrder(rs, Inserted(rs, group, r))
         /\ Len(Inserted(rs, group, r)) = Len(group) + 1
         /\ \A q : (\E i \in 1..Len(group) + 1 : Inserted(rs, group, r)[i] = q)
                   <=> q = r \/ \E i \in 1..Len(group) : group[i] = q
  <1>1. /\ Len(group) \in Nat /\ DOMAIN group = 1..Len(group)
        /\ \A i \in 1..Len(group) : group[i] \in 1..Len(rs)
    BY LenProperties, ElementOfSeq
  <1> DEFINE Behind == {n \in Nat : n \in 1..Len(group) + 1 /\
                          (n <= Len(group) => ~Precedes(rs, group[n], r))}
  <1>2. PICK n \in Behind : \A k \in Behind : n <= k
    <2>1. Len(group) + 1 \in Behind
      BY <1>1
    <2>2. Behind \in SUBSET Nat /\ Behind # {}
      BY <2>1
    <2>3. QED
      BY <2>2, Least
  <1>3. n \in Nat /\ n \in 1..Len(group) + 1 /\ (n <= Len(group) => ~Precedes(rs, group[n], r))
    BY <1>2
  <1>4. ASSUME NEW i \in 1..Len(group)
        PROVE  /\ Precedes(rs, group[i], r) <=> i < n
               /\ n <= i => Precedes(rs, r, group[i])
    <2>1. CASE i < n
      <3>1. i \notin Behind /\ i \in Nat /\ i \in 1..Len(group) + 1 /\ i <= Len(group)
        BY <1>1, <1>2, <1>3, <2>1
      <3>2. QED
        BY <1>3, <2>1, <3>1
    <2>2. CASE i = n
      <3>1. ~Precedes(rs, group[i], r)
        BY <1>1, <1>3, <2>2
      <3>2. Precedes(rs, r, group[i])
        BY <1>1, <3>1, PrecedesOrders
      <3>3. QED
        BY <1>3, <2>2, <3>1, <3>2
    <2>3. CASE n < i
      <3>1. n \in 1..Len(group)
        BY <1>1, <1>3, <2>3
      <3>2. Precedes(rs, group[n], group[i]) /\ ~Precedes(rs, group[n], r)
        BY <1>3, <2>3, <3>1 DEF InOrder
      <3>3. Precedes(rs, r, group[n])
        BY <1>1, <3>1, <3>2, PrecedesOrders
      <3>4. Precedes(rs, r, group[i])
        BY <1>1, <3>1, <3>2, <3>3, PrecedesOrders
      <3>5. ~Precedes(rs, group[i], r)
        BY <1>1, <3>4, PrecedesOrders
      <3>6. QED
        BY <1>1, <1>3, <2>3, <3>4, <3>5
    <2>4. QED
      BY <1>1, <1>3, <2>1, <2>2, <2>3
  <1>5. PICK S : S = {i \in DOMAIN group : Precedes(rs, group[i], r)}
    OBVIOUS
  <1>6. S = 1..n - 1
    BY <1>1, <1>3, <1>4, <1>5
  <1>7. Cardinality(S) + 1 = n
    <2>1. n - 1 \in Int /\ 1 \in Int
      BY <1>3
    <2>2. Cardinality(S) = IF 1 > n - 1 THEN 0 ELSE n - 1 - 1 + 1
      BY <1>6, <2>1, FS_Interval
    <2>3. QED
      BY <1>3, <2>2
  <1>8. PICK t : t = Inserted(rs, group, r)
    OBVIOUS
  <1>9. t = InsertAt(group, n, r)
    BY <1>5, <1>7, <1>8 DEF Inserted
  <1>10. /\ t \in Seq(1..Len(rs)) /\ Len(t) = Len(group) + 1
         /\ \A i \in 1..Len(group) : i < n => t[i] = group[i]
         /\ t[n] = r
         /\ \A i \in 1..Len(group) : n <= i => t[i + 1] = group[i]
    <2>1. PICK T : T = 1..Len(rs)
      OBVIOUS
    <2>2. group \in Seq(T) /\ r \in T
      BY <2>1
    <2>3. n \in 1..Len(group) + 1
      BY <1>3
    <2>4. Grown(T, group, n, r, t)
      BY <1>9, <2>2, <2>3, InsertedAt
    <2>5. QED
      BY <2>1, <2>4 DEF Grown
  <1>11. ASSUME NEW i \in 1..Len(t)
         PROVE  \/ i < n /\ i \in 1..Len(group) /\ t[i] = group[i]
                \/ i = n /\ t[i] = r
                \/ n < i /\ i - 1 \in 1..Len(group) /\ n <= i - 1 /\ t[i] = group[i - 1]
    <2>1. CASE i < n
      <3>1. i \in 1..Len(group)
        BY <1>3, <1>10, <2>1
      <3>2. QED
        BY <1>10, <2>1, <3>1
    <2>2. CASE i = n
      BY <1>10, <2>2
    <2>3. CASE n < i
      <3>1. i - 1 \in 1..Len(group) /\ n <= i - 1 /\ (i - 1) + 1 = i
        BY <1>1, <1>3, <1>10, <2>3
      <3>2. t[(i - 1) + 1] = group[i - 1]
        BY <1>10, <3>1
      <3>3. QED
        BY <2>3, <3>1, <3>2
    <2>4. QED
      BY <1>3, <1>10, <2>1, <2>2, <2>3
  <1>12. ASSUME NEW i \in 1..Len(t), NEW k \in 1..Len(t), i < k PROVE Precedes(rs, t[i], t[k])
    <2>0. i \in Nat /\ k \in Nat
      BY <1>1, <1>10
    <2>1. CASE i < n /\ k < n
      <3>1. i \in 1..Len(group) /\ k \in 1..Len(group) /\ t[i] = group[i] /\ t[k] = group[k]
        BY <1>3, <1>11, <2>0, <2>1
      <3>2. QED
        BY <1>12, <3>1 DEF InOrder
    <2>2. CASE i < n /\ k = n
      <3>1. i \in 1..Len(group) /\ t[i] = group[i] /\ t[k] = r
        BY <1>3, <1>11, <2>0, <2>2
      <3>2. QED
        BY <1>4, <2>2, <3>1
    <2>3. CASE i < n /\ n < k
      <3>1. i \in 1..Len(group) /\ t[i] = group[i] /\ k - 1 \in 1..Len(group) /\ t[k] = group[k - 1]
            /\ i < k - 1
        BY <1>3, <1>11, <2>0, <2>3
      <3>2. QED
        BY <3>1 DEF InOrder
    <2>4. CASE i = n /\ n < k
      <3>1. t[i] = r /\ k - 1 \in 1..Len(group) /\ t[k] = group[k - 1] /\ n <= k - 1
        BY <1>3, <1>11, <2>0, <2>4
      <3>2. QED
        BY <1>4, <3>1
    <2>5. CASE n < i /\ n < k
      <3>1. /\ i - 1 \in 1..Len(group) /\ t[i] = group[i - 1]
            /\ k - 1 \in 1..Len(group) /\ t[k] = group[k - 1] /\ i - 1 < k - 1
        BY <1>3, <1>11, <1>12, <2>0, <2>5
      <3>2. QED
        BY <3>1 DEF InOrder
    <2>6. QED
      BY <1>3, <1>12, <2>0, <2>1, <2>2, <2>3, <2>4, <2>5
  <1>13. InOrder(rs, t)
    BY <1>12 DEF InOrder
  <1>14. ASSUME NEW i \in 1..Len(t) PROVE t[i] = r \/ \E k \in 1..Len(group) : group[k] = t[i]
    BY <1>11
  <1>15. \E k \in 1..Len(t) : t[k] = r
    BY <1>3, <1>10
  <1>16. ASSUME NEW i \in 1..Len(group) PROVE \E k \in 1..Len(t) : t[k] = group[i]
    <2>1. CASE i < n
      <3>1. i \in 1..Len(t) /\ t[i] = group[i]
        BY <1>1, <1>10, <2>1
      <3>2. QED
        BY <3>1
    <2>2. CASE n <= i
      <3>1. i + 1 \in 1..Len(t) /\ t[i + 1] = group[i]
        BY <1>1, <1>10, <2>2
      <3>2. QED
        BY <3>1
    <2>3. QED
      BY <1>1, <1>3, <2>1, <2>2
  <1>17. \A q : (\E i \in 1..Len(t) : t[i] = q) <=> q = r \/ \E i \in 1..Len(group) : group[i] = q
    BY <1>14, <1>15, <1>16
  <1>18. QED
    BY <1>8, <1>10, <1>13, <1>17

InGroup(q, group) == \E i \in 1..Len(group) : group[i] = q

Dynamic(rs, r) == Parameterised(rs[r].template)

\* Every route is in the place where a search looks for it, and every list in order.
IndexTypes(rt) ==
    /\ rt.routes \in Seq(RouteOf) /\ rt.static \in Seq(1..Len(rt.routes))
    /\ \A p \in DOMAIN rt.nodes : /\ p \in Seq(Segment) /\ ~Parameterised(p)
                                  /\ rt.nodes[p] \in Seq(1..Len(rt.routes))

StaticIndexed(rt) ==
    /\ \A i, k \in 1..Len(rt.static) : i < k => rt.static[i] < rt.static[k]
    /\ \A r \in 1..Len(rt.routes) : InGroup(r, rt.static) <=> ~Dynamic(rt.routes, r)

DynamicIndexed(rt) ==
    /\ \A p \in DOMAIN rt.nodes : InOrder(rt.routes, rt.nodes[p])
    /\ \A r \in 1..Len(rt.routes) : Dynamic(rt.routes, r) =>
          /\ Prefix(rt.routes[r].template) \in DOMAIN rt.nodes
          /\ InGroup(r, rt.nodes[Prefix(rt.routes[r].template)])
    /\ \A p \in DOMAIN rt.nodes : \A r \in 1..Len(rt.routes) :
          InGroup(r, rt.nodes[p]) => Dynamic(rt.routes, r)

Indexed(rt) == IndexTypes(rt) /\ StaticIndexed(rt) /\ DynamicIndexed(rt)

\* What was said of the first routes remains true when there is one more.
OneAdded(rs, route, qs) ==
    /\ qs \in Seq(RouteOf) /\ Len(qs) = Len(rs) + 1 /\ Len(rs) \in Nat
    /\ \A r \in 1..Len(rs) : qs[r] = rs[r] /\ r \in 1..Len(qs)
    /\ qs[Len(rs) + 1] = route
    /\ \A r, q \in 1..Len(rs) : Precedes(qs, r, q) <=> Precedes(rs, r, q)
    /\ \A group \in Seq(1..Len(rs)) : /\ group \in Seq(1..Len(qs))
                                      /\ InOrder(rs, group) => InOrder(qs, group)
                                      /\ ~InGroup(Len(qs), group)

LEMMA OneRouteMore ==
  ASSUME NEW rs \in Seq(RouteOf), NEW route \in RouteOf, NEW qs, qs = Append(rs, route)
  PROVE  OneAdded(rs, route, qs)
  <1>1. Len(rs) \in Nat
    BY RouteFacts
  <1>2. qs \in Seq(RouteOf) /\ Len(qs) = Len(rs) + 1
    BY AppendProperties
  <1>3. \A r \in 1..Len(rs) : qs[r] = rs[r] /\ r \in 1..Len(qs)
    BY <1>1, <1>2, AppendProperties
  <1>4. qs[Len(rs) + 1] = route
    BY AppendProperties
  <1>5. \A r, q \in 1..Len(rs) : Precedes(qs, r, q) <=> Precedes(rs, r, q)
    BY <1>3 DEF Precedes
  <1>6. ASSUME NEW group \in Seq(1..Len(rs))
        PROVE  /\ group \in Seq(1..Len(qs))
               /\ InOrder(rs, group) => InOrder(qs, group)
               /\ ~InGroup(Len(qs), group)
    <2>1. Len(group) \in Nat /\ \A i \in 1..Len(group) : group[i] \in 1..Len(rs)
      BY LenProperties, ElementOfSeq
    <2>2. group \in Seq(1..Len(qs))
      <3>1. 1..Len(rs) \subseteq 1..Len(qs)
        BY <1>3
      <3>2. QED
        BY <3>1, SeqMonotonic
    <2>3. InOrder(rs, group) => InOrder(qs, group)
      BY <1>5, <2>1 DEF InOrder
    <2>4. ~InGroup(Len(qs), group)
      BY <1>1, <1>2, <2>1 DEF InGroup
    <2>5. QED
      BY <2>2, <2>3, <2>4
  <1>7. QED
    BY <1>1, <1>2, <1>3, <1>4, <1>5, <1>6 DEF OneAdded

LEMMA StaticRegistered ==
  ASSUME NEW rt, Indexed(rt), NEW route \in RouteOf, ~Parameterised(route.template),
         NEW qt, qt = Registered(rt, route)
  PROVE  Indexed(qt) /\ Len(qt.routes) = Len(rt.routes) + 1
  <1>1. PICK rs, qs, s, n : /\ rs = rt.routes /\ qs = Append(rs, route) /\ s = Append(rt.static, n)
                            /\ n = Len(qs)
    OBVIOUS
  <1>2. qt.routes = qs /\ qt.static = s /\ qt.nodes = rt.nodes
    BY <1>1 DEF Registered
  <1>3. /\ rs \in Seq(RouteOf) /\ rt.static \in Seq(1..Len(rs))
        /\ \A p \in DOMAIN rt.nodes : /\ p \in Seq(Segment) /\ ~Parameterised(p)
                                      /\ rt.nodes[p] \in Seq(1..Len(rs))
    BY <1>1 DEF Indexed, IndexTypes
  <1>4. /\ qs \in Seq(RouteOf) /\ Len(qs) = Len(rs) + 1 /\ Len(rs) \in Nat
        /\ \A r \in 1..Len(rs) : qs[r] = rs[r] /\ r \in 1..Len(qs)
        /\ qs[Len(rs) + 1] = route
        /\ \A group \in Seq(1..Len(rs)) : /\ group \in Seq(1..Len(qs))
                                          /\ InOrder(rs, group) => InOrder(qs, group)
                                          /\ ~InGroup(Len(qs), group)
    <2>1. rs \in Seq(RouteOf) /\ qs = Append(rs, route) /\ route \in RouteOf
      BY <1>1, <1>3
    <2>2. OneAdded(rs, route, qs)
      BY <2>1, OneRouteMore
    <2>3. QED
      BY <2>2 DEF OneAdded
  <1>5. n = Len(rs) + 1 /\ n \in 1..Len(qs) /\ qs[n] = route /\ n \notin 1..Len(rs)
        /\ \A r \in 1..Len(qs) : r \in 1..Len(rs) \/ r = n
    BY <1>1, <1>4
  <1>6. /\ s \in Seq(1..Len(qs)) /\ Len(s) = Len(rt.static) + 1 /\ s[Len(rt.static) + 1] = n
        /\ Len(rt.static) \in Nat
        /\ \A i \in 1..Len(rt.static) : s[i] = rt.static[i] /\ rt.static[i] \in 1..Len(rs)
    <2>1. rt.static \in Seq(1..Len(qs))
      BY <1>3, <1>4
    <2>2. /\ s \in Seq(1..Len(qs)) /\ Len(s) = Len(rt.static) + 1 /\ s[Len(rt.static) + 1] = n
          /\ \A i \in 1..Len(rt.static) : s[i] = rt.static[i]
      BY <1>1, <1>5, <2>1, AppendProperties
    <2>3. Len(rt.static) \in Nat /\ \A i \in 1..Len(rt.static) : rt.static[i] \in 1..Len(rs)
      BY <1>3, LenProperties, ElementOfSeq
    <2>4. QED
      BY <2>2, <2>3
  <1>7. \A r \in 1..Len(rs) : Dynamic(qs, r) <=> Dynamic(rs, r)
    BY <1>4 DEF Dynamic
  <1>8. ~Dynamic(qs, n)
    BY <1>5 DEF Dynamic
  <1>9. IndexTypes(qt)
    <2>1. \A p \in DOMAIN rt.nodes : rt.nodes[p] \in Seq(1..Len(qs))
      BY <1>3, <1>4
    <2>2. QED
      BY <1>2, <1>3, <1>4, <1>6, <2>1 DEF IndexTypes
  <1>10. StaticIndexed(qt)
    <2>1. ASSUME NEW i \in 1..Len(s), NEW k \in 1..Len(s), i < k PROVE s[i] < s[k]
      <3>0. i \in 1..Len(rt.static)
        BY <1>6, <2>1
      <3>1. s[i] = rt.static[i] /\ s[i] \in 1..Len(rs)
        BY <1>6, <3>0
      <3>2. CASE k = Len(rt.static) + 1
        BY <1>4, <1>5, <1>6, <3>1, <3>2
      <3>3. CASE k # Len(rt.static) + 1
        <4>1. k \in 1..Len(rt.static) /\ s[k] = rt.static[k]
          BY <1>6, <3>3
        <4>2. QED
          BY <2>1, <3>0, <3>1, <4>1 DEF Indexed, StaticIndexed
      <3>4. QED
        BY <3>2, <3>3
    <2>2. ASSUME NEW r \in 1..Len(qs) PROVE InGroup(r, s) <=> ~Dynamic(qs, r)
      <3>1. InGroup(r, s) <=> InGroup(r, rt.static) \/ r = n
        <4>1. \A i \in 1..Len(s) : i \in 1..Len(rt.static) \/ i = Len(rt.static) + 1
          BY <1>6
        <4>2. \A i \in 1..Len(rt.static) : i \in 1..Len(s)
          BY <1>6
        <4>3. Len(rt.static) + 1 \in 1..Len(s)
          BY <1>6
        <4>4. QED
          BY <1>6, <4>1, <4>2, <4>3 DEF InGroup
      <3>2. CASE r = n
        BY <1>8, <3>1, <3>2
      <3>3. CASE r # n
        <4>1. r \in 1..Len(rs)
          BY <1>5, <3>3
        <4>2. InGroup(r, rt.static) <=> ~Dynamic(rs, r)
          BY <1>1, <4>1 DEF Indexed, StaticIndexed
        <4>3. QED
          BY <1>7, <3>1, <3>3, <4>1, <4>2
      <3>4. QED
        BY <3>2, <3>3
    <2>3. QED
      BY <1>2, <2>1, <2>2 DEF StaticIndexed
  <1>11. DynamicIndexed(qt)
    <2>1. \A p \in DOMAIN rt.nodes : InOrder(qs, rt.nodes[p])
      BY <1>1, <1>3, <1>4 DEF Indexed, DynamicIndexed
    <2>2. ASSUME NEW r \in 1..Len(qs), Dynamic(qs, r)
          PROVE  Prefix(qs[r].template) \in DOMAIN rt.nodes /\ InGroup(r, rt.nodes[Prefix(qs[r].template)])
      <3>1. r \in 1..Len(rs) /\ Dynamic(rs, r) /\ qs[r] = rs[r]
        BY <1>4, <1>5, <1>7, <1>8, <2>2
      <3>2. QED
        BY <1>1, <3>1 DEF Indexed, DynamicIndexed
    <2>3. ASSUME NEW p \in DOMAIN rt.nodes, NEW r \in 1..Len(qs), InGroup(r, rt.nodes[p])
          PROVE  Dynamic(qs, r)
      <3>1. r # n
        BY <1>1, <1>3, <1>4, <2>3
      <3>2. r \in 1..Len(rs)
        BY <1>5, <3>1
      <3>3. Dynamic(rs, r)
        BY <1>1, <2>3, <3>2 DEF Indexed, DynamicIndexed
      <3>4. QED
        BY <1>7, <3>2, <3>3
    <2>4. QED
      BY <1>2, <2>1, <2>2, <2>3 DEF DynamicIndexed
  <1>12. QED
    BY <1>1, <1>2, <1>4, <1>9, <1>10, <1>11 DEF Indexed

LEMMA DynamicRegistered ==
  ASSUME NEW rt, Indexed(rt), NEW route \in RouteOf, Parameterised(route.template),
         NEW qt, qt = Registered(rt, route)
  PROVE  Indexed(qt) /\ Len(qt.routes) = Len(rt.routes) + 1
  <1>1. PICK rs, qs, n, p, group, node :
           /\ rs = rt.routes /\ qs = Append(rs, route) /\ n = Len(qs) /\ p = Prefix(route.template)
           /\ group = IF p \in DOMAIN rt.nodes THEN rt.nodes[p] ELSE <<>>
           /\ node = Inserted(qs, group, n)
    OBVIOUS
  <1>2. /\ qt.routes = qs /\ qt.static = rt.static
        /\ qt.nodes = [o \in DOMAIN rt.nodes \union {p} |-> IF o # p THEN rt.nodes[o] ELSE node]
    BY <1>1 DEF Registered
  <1>3. /\ rs \in Seq(RouteOf) /\ rt.static \in Seq(1..Len(rs))
        /\ \A o \in DOMAIN rt.nodes : /\ o \in Seq(Segment) /\ ~Parameterised(o)
                                      /\ rt.nodes[o] \in Seq(1..Len(rs))
    BY <1>1 DEF Indexed, IndexTypes
  <1>4. /\ qs \in Seq(RouteOf) /\ Len(qs) = Len(rs) + 1 /\ Len(rs) \in Nat
        /\ \A r \in 1..Len(rs) : qs[r] = rs[r] /\ r \in 1..Len(qs)
        /\ qs[Len(rs) + 1] = route
        /\ \A g \in Seq(1..Len(rs)) : /\ g \in Seq(1..Len(qs))
                                      /\ InOrder(rs, g) => InOrder(qs, g)
                                      /\ ~InGroup(Len(qs), g)
    <2>1. rs \in Seq(RouteOf) /\ qs = Append(rs, route) /\ route \in RouteOf
      BY <1>1, <1>3
    <2>2. OneAdded(rs, route, qs)
      BY <2>1, OneRouteMore
    <2>3. QED
      BY <2>2 DEF OneAdded
  <1>5. n = Len(rs) + 1 /\ n \in 1..Len(qs) /\ qs[n] = route /\ n \notin 1..Len(rs)
        /\ \A r \in 1..Len(qs) : r \in 1..Len(rs) \/ r = n
    BY <1>1, <1>4
  <1>6. \A r \in 1..Len(rs) : Dynamic(qs, r) <=> Dynamic(rs, r)
    BY <1>4 DEF Dynamic
  <1>7. Dynamic(qs, n)
    BY <1>5 DEF Dynamic
  <1>8. route.template \in Template
    BY DEF RouteOf
  <1>9. p \in Seq(Segment) /\ ~Parameterised(p)
    BY <1>1, <1>8, PrefixFacts
  <1>10. group \in Seq(1..Len(rs)) /\ InOrder(rs, group)
    <2>1. CASE p \in DOMAIN rt.nodes
      BY <1>1, <1>3, <2>1 DEF Indexed, DynamicIndexed
    <2>2. CASE p \notin DOMAIN rt.nodes
      BY <1>1, <2>2 DEF InOrder
    <2>3. QED
      BY <2>1, <2>2
  <1>11. /\ node \in Seq(1..Len(qs)) /\ InOrder(qs, node)
         /\ \A q : InGroup(q, node) <=> q = n \/ InGroup(q, group)
    <2>1. group \in Seq(1..Len(qs)) /\ InOrder(qs, group) /\ ~InGroup(n, group)
      BY <1>1, <1>4, <1>10
    <2>2. \A i \in 1..Len(group) : group[i] # n
      BY <2>1 DEF InGroup
    <2>3. /\ node \in Seq(1..Len(qs)) /\ InOrder(qs, node) /\ Len(node) = Len(group) + 1
          /\ \A q : (\E i \in 1..Len(group) + 1 : node[i] = q)
                    <=> q = n \/ \E i \in 1..Len(group) : group[i] = q
      <3>1. qs \in Seq(RouteOf) /\ n \in 1..Len(qs)
        BY <1>4, <1>5
      <3>2. /\ Inserted(qs, group, n) \in Seq(1..Len(qs)) /\ InOrder(qs, Inserted(qs, group, n))
            /\ Len(Inserted(qs, group, n)) = Len(group) + 1
            /\ \A q : (\E i \in 1..Len(group) + 1 : Inserted(qs, group, n)[i] = q)
                      <=> q = n \/ \E i \in 1..Len(group) : group[i] = q
        BY ONLY <2>1, <2>2, <3>1, PlaceInNode
      <3>3. QED
        BY <1>1, <3>2
    <2>4. QED
      BY <2>3 DEF InGroup
  <1>12. DOMAIN qt.nodes = DOMAIN rt.nodes \union {p} /\ qt.nodes[p] = node
         /\ \A o \in DOMAIN rt.nodes : o # p => qt.nodes[o] = rt.nodes[o]
    BY <1>2
  <1>13. IndexTypes(qt)
    BY <1>2, <1>3, <1>4, <1>9, <1>11, <1>12 DEF IndexTypes
  <1>14. StaticIndexed(qt)
    <2>1. ASSUME NEW r \in 1..Len(qs) PROVE InGroup(r, rt.static) <=> ~Dynamic(qs, r)
      <3>1. CASE r = n
        BY <1>1, <1>3, <1>4, <1>7, <3>1
      <3>2. CASE r # n
        <4>1. r \in 1..Len(rs)
          BY <1>5, <3>2
        <4>2. InGroup(r, rt.static) <=> ~Dynamic(rs, r)
          BY <1>1, <4>1 DEF Indexed, StaticIndexed
        <4>3. QED
          BY <1>6, <4>1, <4>2
      <3>3. QED
        BY <3>1, <3>2
    <2>2. \A i, k \in 1..Len(rt.static) : i < k => rt.static[i] < rt.static[k]
      BY DEF Indexed, StaticIndexed
    <2>3. QED
      BY <1>2, <2>1, <2>2 DEF StaticIndexed
  <1>15. DynamicIndexed(qt)
    <2>1. ASSUME NEW o \in DOMAIN qt.nodes PROVE InOrder(qs, qt.nodes[o])
      <3>1. CASE o = p
        BY <1>11, <1>12, <3>1
      <3>2. CASE o # p
        <4>1. o \in DOMAIN rt.nodes /\ qt.nodes[o] = rt.nodes[o]
          BY <1>12, <3>2
        <4>2. InOrder(rs, rt.nodes[o]) /\ rt.nodes[o] \in Seq(1..Len(rs))
          BY <1>1, <1>3, <4>1 DEF Indexed, DynamicIndexed
        <4>3. QED
          BY <1>4, <4>1, <4>2
      <3>3. QED
        BY <3>1, <3>2
    <2>2. ASSUME NEW r \in 1..Len(qs), Dynamic(qs, r)
          PROVE  Prefix(qs[r].template) \in DOMAIN qt.nodes /\ InGroup(r, qt.nodes[Prefix(qs[r].template)])
      <3>1. CASE r = n
        BY <1>1, <1>5, <1>11, <1>12, <3>1
      <3>2. CASE r # n
        <4>1. r \in 1..Len(rs) /\ Dynamic(rs, r) /\ qs[r] = rs[r]
          BY <1>4, <1>5, <1>6, <2>2, <3>2
        <4>2. PICK o : o = Prefix(qs[r].template)
          OBVIOUS
        <4>3. o \in DOMAIN rt.nodes /\ InGroup(r, rt.nodes[o])
          BY <1>1, <4>1, <4>2 DEF Indexed, DynamicIndexed
        <4>4. CASE o = p
          <5>1. group = rt.nodes[o]
            BY <1>1, <4>3, <4>4
          <5>2. InGroup(r, node)
            BY <1>11, <4>3, <5>1
          <5>3. QED
            BY <1>12, <4>2, <4>3, <4>4, <5>2
        <4>5. CASE o # p
          BY <1>12, <4>2, <4>3, <4>5
        <4>6. QED
          BY <4>4, <4>5
      <3>3. QED
        BY <3>1, <3>2
    <2>3. ASSUME NEW o \in DOMAIN qt.nodes, NEW r \in 1..Len(qs), InGroup(r, qt.nodes[o])
          PROVE  Dynamic(qs, r)
      <3>1. CASE r = n
        BY <1>7, <3>1
      <3>2. CASE r # n
        <4>1. r \in 1..Len(rs)
          BY <1>5, <3>2
        <4>2. o \in DOMAIN rt.nodes /\ InGroup(r, rt.nodes[o])
          <5>1. CASE o # p
            BY <1>12, <2>3, <5>1
          <5>2. CASE o = p
            <6>1. InGroup(r, group)
              BY <1>11, <1>12, <2>3, <3>2, <5>2
            <6>2. p \in DOMAIN rt.nodes
              BY <1>1, <6>1 DEF InGroup
            <6>3. QED
              BY <1>1, <5>2, <6>1, <6>2
          <5>3. QED
            BY <5>1, <5>2
        <4>3. Dynamic(rs, r)
          BY <1>1, <4>1, <4>2 DEF Indexed, DynamicIndexed
        <4>4. QED
          BY <1>6, <4>1, <4>3
      <3>3. QED
        BY <3>1, <3>2
    <2>4. QED
      BY <1>2, <2>1, <2>2, <2>3 DEF DynamicIndexed
  <1>16. QED
    BY <1>1, <1>2, <1>4, <1>13, <1>14, <1>15 DEF Indexed

LEMMA RegisteredIndexed ==
  ASSUME NEW rt, Indexed(rt), NEW route \in RouteOf, NEW qt, qt = Registered(rt, route)
  PROVE  Indexed(qt) /\ Len(qt.routes) = Len(rt.routes) + 1
  BY StaticRegistered, DynamicRegistered

-----------------------------------------------------------------------------
(* Routes: including those of another router *)

\* What is proved of a sequence of segments makes it a template.
LEMMA IsTemplate ==
  ASSUME NEW t \in Seq(Segment),
         \A i \in 1..Len(t) : t[i].kind = "literal" => \A x, y \in t[i].texts : x = y
  PROVE  t \in Template
  BY DEF Template

LEMMA TemplatesJoin ==
  ASSUME NEW t \in Template, NEW u \in Template
  PROVE  t \o u \in Template
  <1>1. t \in Seq(Segment) /\ u \in Seq(Segment) /\ Len(t) \in Nat /\ Len(u) \in Nat
    BY TemplateFacts
  <1>2. PICK s : s = t \o u
    OBVIOUS
  <1>3. /\ s \in Seq(Segment) /\ Len(s) = Len(t) + Len(u)
        /\ \A i \in 1..Len(t) + Len(u) : s[i] = IF i <= Len(t) THEN t[i] ELSE u[i - Len(t)]
    BY <1>1, <1>2, ConcatProperties
  <1>4. ASSUME NEW i \in 1..Len(s)
        PROVE  s[i].kind = "literal" => \A x, y \in s[i].texts : x = y
    <2>1. CASE i <= Len(t)
      <3>1. i \in 1..Len(t) /\ s[i] = t[i]
        BY <1>1, <1>3, <2>1
      <3>2. QED
        BY <3>1, TemplateFacts
    <2>2. CASE ~(i <= Len(t))
      <3>1. i - Len(t) \in 1..Len(u) /\ s[i] = u[i - Len(t)]
        BY <1>1, <1>3, <2>2
      <3>2. PICK k \in 1..Len(u) : s[i] = u[k]
        BY <3>1
      <3>3. QED
        BY <3>2, TemplateFacts
    <2>3. QED
      BY <2>1, <2>2
  <1>5. s \in Template
    BY <1>3, <1>4, IsTemplate
  <1>6. QED
    BY <1>2, <1>5

LEMMA TemplateEnds ==
  ASSUME NEW t \in Template, NEW m \in Nat
  PROVE  SubSeq(t, m + 1, Len(t)) \in Template
  <1>1. t \in Seq(Segment) /\ Len(t) \in Nat
    BY TemplateFacts
  <1>2. PICK s, n : s = SubSeq(t, m + 1, n) /\ n = Len(t)
    OBVIOUS
  <1>3. m + 1 \in Int /\ n \in Int
    BY <1>1, <1>2
  <1>4. \A i \in m + 1..n : i \in 1..Len(t) /\ t[i] \in Segment
    <2>1. \A i \in m + 1..n : i \in 1..Len(t)
      BY <1>1, <1>2
    <2>2. QED
      BY <2>1, TemplateFacts
  <1>5. /\ s \in Seq(Segment) /\ Len(s) = IF m + 1 <= n THEN n - (m + 1) + 1 ELSE 0
        /\ \A i \in 1..n - (m + 1) + 1 : s[i] = t[m + 1 + i - 1]
    BY <1>2, <1>3, <1>4, SubSeqProperties
  <1>6. ASSUME NEW i \in 1..Len(s)
        PROVE  s[i].kind = "literal" => \A x, y \in s[i].texts : x = y
    <2>1. i \in 1..n - (m + 1) + 1 /\ m + 1 + i - 1 \in 1..Len(t)
      BY <1>1, <1>2, <1>5
    <2>2. PICK k \in 1..Len(t) : s[i] = t[k]
      BY <1>5, <2>1
    <2>3. QED
      BY <2>2, TemplateFacts
  <1>7. s \in Template
    BY <1>5, <1>6, IsTemplate
  <1>8. QED
    BY <1>2, <1>7

LEMMA MountedTemplate ==
  ASSUME NEW t \in Template, NEW remount, NEW mount \in Mounts
  PROVE  Mounted(t, remount, mount) \in Template
  <1>1. mount \in Template /\ SourcePrefix \in Template /\ Len(SourcePrefix) \in Nat
    <2>1. mount \in Template /\ SourcePrefix \in Template
      BY RoutingAssumption
    <2>2. QED
      BY <2>1, TemplateFacts
  <1>2. PICK bare, slash, rest :
           /\ bare = IF SourcePrefix # <<>> /\ IsPrefix(SourcePrefix, t)
                     THEN SubSeq(t, Len(SourcePrefix) + 1, Len(t)) ELSE t
           /\ slash = [kind |-> "literal", texts |-> {""}]
           /\ rest = IF bare = <<>> THEN <<slash>> ELSE bare
    OBVIOUS
  <1>3. bare \in Template
    BY <1>1, <1>2, TemplateEnds
  <1>4. <<slash>> \in Template
    <2>1. slash \in Segment
      <3>1. "" \in Text
        BY DEF Text
      <3>2. PICK S : S = {""}
        OBVIOUS
      <3>3. S \in SUBSET Text
        BY <3>1, <3>2
      <3>4. slash = [kind |-> "literal", texts |-> S]
        BY <1>2, <3>2
      <3>5. QED
        BY <3>3, <3>4 DEF Segment
    <2>2. PICK s : s = <<slash>>
      OBVIOUS
    <2>3. s \in Seq(Segment) /\ Len(s) = 1 /\ s[1] = slash
      BY <2>1, <2>2
    <2>4. \A x, y \in slash.texts : x = y
      BY <1>2
    <2>5. \A i \in 1..Len(s) : i = 1
      BY <2>3
    <2>6. s \in Template
      BY <2>3, <2>4, <2>5, IsTemplate
    <2>7. QED
      BY <2>2, <2>6
  <1>5. rest \in Template
    BY <1>2, <1>3, <1>4
  <1>6. mount \o rest \in Template
    BY <1>1, <1>5, TemplatesJoin
  <1>7. Mounted(t, remount, mount) = IF ~remount THEN t ELSE mount \o rest
    BY <1>2 DEF Mounted
  <1>8. QED
    BY <1>6, <1>7

\* The route that the n-th of the included ones becomes.
IncludedRoute(remount, mount, n) ==
    [template |-> Mounted(Included[n], remount, mount), methods |-> Methods]

Includes(f, remount, mount, m) ==
    /\ DOMAIN f = 0..m /\ f[0] = router
    /\ \A n \in 1..m : f[n] = Registered(f[n - 1], IncludedRoute(remount, mount, n))

LEMMA IncludingExists ==
  ASSUME NEW remount, NEW mount, NEW m \in Nat
  PROVE  \E f : Includes(f, remount, mount, m)
  <1> DEFINE Odd == {n \in Nat : ~\E f : Includes(f, remount, mount, n)}
  <1>1. SUFFICES ASSUME Odd # {} PROVE FALSE
    BY DEF Odd
  <1>2. PICK n \in Odd : \A k \in Odd : n <= k
    BY <1>1, Least
  <1>3. n # 0
    <2>1. PICK f : f = [i \in 0..0 |-> router]
      OBVIOUS
    <2>2. DOMAIN f = 0..0 /\ f[0] = router /\ \A i \in 1..0 : FALSE
      BY <2>1
    <2>3. Includes(f, remount, mount, 0)
      BY <2>2 DEF Includes
    <2>4. QED
      BY <1>2, <2>3
  <1>4. n \in Nat /\ n - 1 \in Nat /\ ~(n <= n - 1)
    BY <1>2, <1>3
  <1>5. PICK f : Includes(f, remount, mount, n - 1)
    BY <1>2, <1>4
  <1>6. PICK last : last = Registered(f[n - 1], IncludedRoute(remount, mount, n))
    OBVIOUS
  <1>7. PICK g : g = [i \in 0..n |-> IF i = n THEN last ELSE f[i]]
    OBVIOUS
  <1>8. DOMAIN g = 0..n /\ g[0] = router
    BY <1>3, <1>4, <1>5, <1>7 DEF Includes
  <1>9. ASSUME NEW i \in 1..n
        PROVE  g[i] = Registered(g[i - 1], IncludedRoute(remount, mount, i))
    <2>1. i - 1 \in 0..n /\ i - 1 # n /\ i \in 0..n
      BY <1>4
    <2>2. g[i - 1] = f[i - 1]
      BY <1>7, <2>1
    <2>3. CASE i = n
      BY <1>6, <1>7, <2>1, <2>2, <2>3
    <2>4. CASE i # n
      <3>1. i \in 1..n - 1 /\ g[i] = f[i]
        BY <1>4, <1>7, <2>1, <2>4
      <3>2. f[i] = Registered(f[i - 1], IncludedRoute(remount, mount, i))
        BY <1>5, <3>1 DEF Includes
      <3>3. QED
        BY <2>2, <3>1, <3>2
    <2>5. QED
      BY <2>3, <2>4
  <1>10. Includes(g, remount, mount, n)
    BY <1>8, <1>9 DEF Includes
  <1>11. QED
    BY <1>2, <1>10

LEMMA IncludingFacts ==
  ASSUME NEW remount, NEW mount
  PROVE  Includes(Including(remount, mount), remount, mount, Len(Included))
  <1>0. Len(Included) \in Nat
    BY RoutingAssumption, LenProperties
  <1> DEFINE Defines(f) ==
               f = [n \in 0..Len(Included) |->
                      IF n = 0 THEN router
                      ELSE Registered(f[n - 1],
                             [template |-> Mounted(Included[n], remount, mount), methods |-> Methods])]
  <1>1. PICK f : Includes(f, remount, mount, Len(Included))
    BY <1>0, IncludingExists
  <1>2. PICK e : e = [n \in 0..Len(Included) |->
                        IF n = 0 THEN router
                        ELSE Registered(f[n - 1],
                               [template |-> Mounted(Included[n], remount, mount), methods |-> Methods])]
    OBVIOUS
  <1>3. \E g : Defines(g)
    <2>0. PICK g : g = [n \in 0..Len(Included) |-> f[n]]
      OBVIOUS
    <2>1. \A n \in 0..Len(Included) : g[n] = e[n]
      <3> TAKE n \in 0..Len(Included)
      <3>1. CASE n = 0
        BY <1>1, <1>2, <2>0, <3>1 DEF Includes
      <3>2. CASE n # 0
        <4>1. n \in 1..Len(Included)
          BY <1>0, <3>2
        <4>2. f[n] = Registered(f[n - 1], IncludedRoute(remount, mount, n))
          BY <1>1, <4>1 DEF Includes
        <4>3. QED
          BY <1>2, <2>0, <3>2, <4>2 DEF IncludedRoute
      <3>3. QED
        BY <3>1, <3>2
    <2>2. g = e
      BY <1>2, <2>0, <2>1
    <2>3. \A n \in 0..Len(Included) : n # 0 => g[n - 1] = f[n - 1]
      BY <1>0, <2>0
    <2>4. Defines(g)
      BY <1>2, <2>2, <2>3
    <2>5. QED
      BY <2>4
  <1>4. PICK h : h = Including(remount, mount)
    OBVIOUS
  <1>5. h = CHOOSE g : Defines(g)
    BY <1>4 DEF Including
  <1>6. Defines(h)
    BY <1>3, <1>5
  <1>7. DOMAIN h = 0..Len(Included) /\ h[0] = router
    BY <1>0, <1>6
  <1>8. ASSUME NEW n \in 1..Len(Included)
        PROVE  h[n] = Registered(h[n - 1], IncludedRoute(remount, mount, n))
    <2>1. n \in 0..Len(Included) /\ n # 0
      BY <1>0
    <2>2. QED
      BY <1>6, <2>1 DEF IncludedRoute
  <1>9. Includes(h, remount, mount, Len(Included))
    BY <1>7, <1>8 DEF Includes
  <1>10. QED
    BY <1>4, <1>9

LEMMA IncludedIndexed ==
  ASSUME Indexed(router), NEW remount, NEW mount \in Mounts
  PROVE  Indexed(Including(remount, mount)[Len(Included)])
  <1>0. Len(Included) \in Nat /\ \A n \in 1..Len(Included) : Included[n] \in Template
    BY RoutingAssumption, LenProperties, ElementOfSeq
  <1>1. PICK h : h = Including(remount, mount)
    OBVIOUS
  <1>2. Includes(h, remount, mount, Len(Included))
    BY <1>1, IncludingFacts
  <1> DEFINE Odd == {n \in Nat : n <= Len(Included) /\ ~Indexed(h[n])}
  <1>3. Odd = {}
    <2>1. SUFFICES ASSUME Odd # {} PROVE FALSE
      OBVIOUS
    <2>2. PICK n \in Odd : \A k \in Odd : n <= k
      BY <2>1, Least
    <2>3. n # 0
      BY <1>2, <2>2 DEF Includes
    <2>4. n \in 1..Len(Included) /\ n - 1 \in Nat /\ n - 1 <= Len(Included) /\ ~(n <= n - 1)
      BY <1>0, <2>2, <2>3
    <2>5. Indexed(h[n - 1])
      BY <2>2, <2>4
    <2>6. PICK route : route = IncludedRoute(remount, mount, n)
      OBVIOUS
    <2>7. route \in RouteOf
      <3>1. Mounted(Included[n], remount, mount) \in Template
        BY <1>0, <2>4, MountedTemplate
      <3>2. QED
        BY <2>6, <3>1 DEF IncludedRoute, RouteOf
    <2>8. PICK rt, qt : rt = h[n - 1] /\ qt = h[n]
      OBVIOUS
    <2>9. qt = Registered(rt, route)
      BY <1>2, <2>4, <2>6, <2>8 DEF Includes
    <2>10. Indexed(qt)
      BY <2>5, <2>7, <2>8, <2>9, RegisteredIndexed
    <2>11. QED
      BY <2>2, <2>8, <2>10
  <1>4. QED
    BY <1>0, <1>1, <1>3

-----------------------------------------------------------------------------
(* Routes: the search *)

\* First() gives one route of a group at most, the first that is wanted.
LEMMA FirstWanted ==
  ASSUME NEW T, NEW group \in Seq(T), NEW S
  PROVE  \/ First(group, S) = {} /\ \A i \in 1..Len(group) : group[i] \notin S
         \/ \E i \in 1..Len(group) : /\ First(group, S) = {group[i]} /\ group[i] \in S
                                     /\ \A j \in 1..i - 1 : group[j] \notin S
  <1>1. Len(group) \in Nat /\ DOMAIN group = 1..Len(group)
    BY LenProperties
  <1> DEFINE Wanted == {k \in Nat : k \in 1..Len(group) /\ group[k] \in S}
  <1>2. PICK K : K = {k \in DOMAIN group : group[k] \in S /\ \A j \in 1..k - 1 : group[j] \notin S}
    OBVIOUS
  <1>3. First(group, S) = {group[i] : i \in K}
    BY <1>2 DEF First
  <1>4. CASE Wanted = {}
    <2>1. \A i \in 1..Len(group) : group[i] \notin S
      BY <1>1, <1>4
    <2>2. K = {}
      BY <1>1, <1>2, <2>1
    <2>3. QED
      BY <1>3, <2>1, <2>2
  <1>5. CASE Wanted # {}
    <2>1. PICK i \in Wanted : \A k \in Wanted : i <= k
      BY <1>5, Least
    <2>2. i \in 1..Len(group) /\ group[i] \in S
      BY <2>1
    <2>3. \A j \in 1..i - 1 : group[j] \notin S
      <3> TAKE j \in 1..i - 1
      <3>1. j \in Nat /\ j \in 1..Len(group) /\ ~(i <= j)
        BY <1>1, <2>2
      <3>2. QED
        BY <2>1, <3>1
    <2>4. K = {i}
      <3>1. i \in K
        BY <1>1, <1>2, <2>2, <2>3
      <3>2. ASSUME NEW k \in K PROVE k = i
        <4>1. k \in 1..Len(group) /\ group[k] \in S /\ \A j \in 1..k - 1 : group[j] \notin S
          BY <1>1, <1>2
        <4>2. i <= k
          BY <2>1, <4>1
        <4>3. i \notin 1..k - 1
          BY <2>2, <4>1
        <4>4. QED
          BY <1>1, <2>2, <4>1, <4>2, <4>3
      <3>3. QED
        BY <3>1, <3>2
    <2>5. First(group, S) = {group[i]}
      BY <1>3, <2>4
    <2>6. QED
      BY <2>2, <2>3, <2>5
  <1>6. QED
    BY <1>4, <1>5

\* The routes that match a path, and those that a search finds.
Hits(path) == {r \in DOMAIN router.routes : Matches(router.routes[r].template, path)}
Exact(path) == {r \in Range(router.static) : Spells(router.routes[r].template, path)}
Reached(path) == UNION {Range(router.nodes[p]) : p \in Candidates(path)}
Matching(path) == {r \in Reached(path) : Matches(router.routes[r].template, path)}

LEMMA ExactHits ==
  ASSUME Indexed(router), NEW path \in Paths
  PROVE  \A r : r \in Exact(path) <=> r \in Hits(path) /\ ~Dynamic(router.routes, r)
  <1>0. path \in Seq(Text)
    BY RoutingAssumption
  <1>1. PICK rs, s : rs = router.routes /\ s = router.static
    OBVIOUS
  <1>2. rs \in Seq(RouteOf) /\ s \in Seq(1..Len(rs))
    BY <1>1 DEF Indexed, IndexTypes
  <1>3. /\ DOMAIN rs = 1..Len(rs) /\ DOMAIN s = 1..Len(s)
        /\ \A i \in 1..Len(s) : s[i] \in 1..Len(rs)
        /\ \A r \in 1..Len(rs) : rs[r].template \in Template
    BY <1>2, RouteFacts, LenProperties, ElementOfSeq
  <1>4. \A r : r \in Range(s) <=> r \in 1..Len(rs) /\ ~Dynamic(rs, r)
    <2>1. \A r : r \in Range(s) <=> InGroup(r, s)
      BY <1>3 DEF Range, InGroup
    <2>2. \A r : InGroup(r, s) => r \in 1..Len(rs)
      BY <1>3 DEF InGroup
    <2>3. \A r \in 1..Len(rs) : InGroup(r, s) <=> ~Dynamic(rs, r)
      BY <1>1 DEF Indexed, StaticIndexed
    <2>4. QED
      BY <2>1, <2>2, <2>3
  <1>5. \A r \in 1..Len(rs) : ~Dynamic(rs, r) =>
            (Matches(rs[r].template, path) <=> Spells(rs[r].template, path))
    BY <1>0, <1>3, SpellsWhatItMatches DEF Dynamic
  <1>6. QED
    BY <1>1, <1>3, <1>4, <1>5 DEF Exact, Hits

LEMMA MatchingHits ==
  ASSUME Indexed(router), NEW path \in Paths
  PROVE  \A r : r \in Matching(path) <=> r \in Hits(path) /\ Dynamic(router.routes, r)
  <1>0. path \in Seq(Text)
    BY RoutingAssumption
  <1>1. PICK rs, nodes : rs = router.routes /\ nodes = router.nodes
    OBVIOUS
  <1>2. rs \in Seq(RouteOf) /\ \A p \in DOMAIN nodes : nodes[p] \in Seq(1..Len(rs))
    BY <1>1 DEF Indexed, IndexTypes
  <1>3. /\ DOMAIN rs = 1..Len(rs)
        /\ \A r \in 1..Len(rs) : rs[r].template \in Template
    BY <1>2, RouteFacts
  <1>4. \A p \in DOMAIN nodes : \A r : r \in Range(nodes[p]) <=> InGroup(r, nodes[p])
    <2> TAKE p \in DOMAIN nodes
    <2>1. DOMAIN nodes[p] = 1..Len(nodes[p])
      BY <1>2, LenProperties
    <2>2. QED
      BY <2>1 DEF Range, InGroup
  <1>5. \A r : r \in Reached(path) <=>
                  \E p \in Candidates(path) : r \in Range(nodes[p])
    BY <1>1 DEF Reached
  <1>6. Candidates(path) \subseteq DOMAIN nodes
    BY <1>1 DEF Candidates
  <1>7. ASSUME NEW r, r \in Matching(path)
        PROVE  r \in Hits(path) /\ Dynamic(rs, r)
    <2>1. r \in Reached(path) /\ Matches(rs[r].template, path)
      BY <1>1, <1>7 DEF Matching
    <2>2. PICK p \in Candidates(path) : r \in Range(nodes[p])
      BY <1>5, <2>1
    <2>3. p \in DOMAIN nodes /\ InGroup(r, nodes[p])
      BY <1>4, <1>6, <2>2
    <2>4. r \in 1..Len(rs)
      BY <1>2, <2>3, ElementOfSeq DEF InGroup
    <2>5. Dynamic(rs, r)
      BY <1>1, <2>3, <2>4 DEF Indexed, DynamicIndexed
    <2>6. QED
      BY <1>1, <1>3, <2>1, <2>4, <2>5 DEF Hits
  <1>8. ASSUME NEW r, r \in Hits(path), Dynamic(rs, r)
        PROVE  r \in Matching(path)
    <2>1. r \in 1..Len(rs) /\ Matches(rs[r].template, path)
      BY <1>1, <1>3, <1>8 DEF Hits
    <2>2. PICK t, p : t = rs[r].template /\ p = Prefix(t)
      OBVIOUS
    <2>3. t \in Template /\ Parameterised(t) /\ Matches(t, path)
      BY <1>3, <1>8, <2>1, <2>2 DEF Dynamic
    <2>4. Len(p) <= Len(path) /\ Spells(p, SubSeq(path, 1, Len(p)))
      BY <1>0, <2>2, <2>3, MatchesGoThrough
    <2>5. p \in DOMAIN nodes /\ InGroup(r, nodes[p])
      BY <1>1, <1>8, <2>1, <2>2 DEF Indexed, DynamicIndexed
    <2>6. p \in Candidates(path)
      BY <1>1, <2>4, <2>5 DEF Candidates
    <2>7. r \in Reached(path)
      BY <1>4, <1>5, <2>5, <2>6
    <2>8. QED
      BY <1>1, <2>1, <2>7 DEF Matching
  <1>9. QED
    BY <1>1, <1>7, <1>8

\* Which of two routes that fit is the better one.
Better(rs, r, q) ==
    IF Dynamic(rs, r) = Dynamic(rs, q) THEN Precedes(rs, r, q) ELSE Dynamic(rs, q)

Allowed(method, S) == {r \in S : method \in router.routes[r].methods}

LEMMA OneIsBetter ==
  ASSUME NEW rs \in Seq(RouteOf), NEW r \in 1..Len(rs), NEW q \in 1..Len(rs)
  PROVE  ~(Better(rs, r, q) /\ Better(rs, q, r))
  <1>1. Precedes(rs, r, q) => ~Precedes(rs, q, r)
    BY PrecedesOrders
  <1>2. Dynamic(rs, r) \in BOOLEAN /\ Dynamic(rs, q) \in BOOLEAN
    BY DEF Dynamic, Parameterised
  <1>3. QED
    BY <1>1, <1>2 DEF Better

\* A route without parameters that the search finds is better than all others
\* that fit.
LEMMA StaticIsBest ==
  ASSUME Indexed(router), NEW path \in Paths, NEW method,
         First(router.static, Allowed(method, Exact(path))) # {}
  PROVE  \E b \in Allowed(method, Hits(path)) :
            /\ First(router.static, Allowed(method, Exact(path))) = {b}
            /\ \A q \in Allowed(method, Hits(path)) \ {b} : Better(router.routes, b, q)
  <1>1. PICK rs, s, S : /\ rs = router.routes /\ s = router.static
                        /\ S = Allowed(method, Exact(path))
    OBVIOUS
  <1>2. rs \in Seq(RouteOf) /\ s \in Seq(1..Len(rs)) /\ Len(s) \in Nat
        /\ \A i, k \in 1..Len(s) : i < k => s[i] < s[k]
    <2>1. rs \in Seq(RouteOf) /\ s \in Seq(1..Len(rs))
          /\ \A i, k \in 1..Len(s) : i < k => s[i] < s[k]
      BY <1>1 DEF Indexed, IndexTypes, StaticIndexed
    <2>2. QED
      BY <2>1, LenProperties
  <1>3. PICK i \in 1..Len(s) : /\ First(s, S) = {s[i]} /\ s[i] \in S
                               /\ \A j \in 1..i - 1 : s[j] \notin S
    <2>1. First(s, S) # {}
      BY <1>1
    <2>2. QED
      BY <1>2, <2>1, FirstWanted
  <1>4. PICK b : b = s[i]
    OBVIOUS
  <1>5. \A r : r \in S => r \in Exact(path) /\ r \in Hits(path) /\ ~Dynamic(rs, r)
    BY <1>1, ExactHits DEF Allowed
  <1>6. b \in Allowed(method, Hits(path))
    BY <1>1, <1>3, <1>4, <1>5 DEF Allowed
  <1>7. DOMAIN rs = 1..Len(rs) /\ \A r \in 1..Len(rs) : rs[r].template \in Template
    BY <1>2, RouteFacts
  <1>8. Hits(path) \subseteq 1..Len(rs)
    BY <1>1, <1>7 DEF Hits
  <1>9. ASSUME NEW q \in Allowed(method, Hits(path)), q # b PROVE Better(rs, b, q)
    <2>1. q \in Hits(path) /\ q \in 1..Len(rs) /\ b \in 1..Len(rs) /\ ~Dynamic(rs, b)
      BY <1>3, <1>4, <1>5, <1>8 DEF Allowed
    <2>2. CASE Dynamic(rs, q)
      BY <2>1, <2>2 DEF Better
    <2>3. CASE ~Dynamic(rs, q)
      <3>1. q \in Exact(path) /\ q \in S
        BY <1>1, <2>1, <2>3, ExactHits DEF Allowed
      <3>2. b \in Exact(path)
        BY <1>3, <1>4, <1>5
      <3>3. Spells(rs[b].template, path) /\ Spells(rs[q].template, path) /\ q \in Range(s)
        BY <1>1, <3>1, <3>2 DEF Exact
      <3>4. path \in Seq(Text)
        BY RoutingAssumption
      <3>5. ~MoreSpecific(rs[q].template, rs[b].template)
        BY <1>7, <2>1, <2>3, <3>3, <3>4, SpellingRanks DEF Dynamic
      <3>6. PICK k \in 1..Len(s) : s[k] = q
        <4>1. DOMAIN s = 1..Len(s)
          BY <1>2, LenProperties
        <4>2. QED
          BY <3>3, <4>1 DEF Range
      <3>7. i < k
        <4>1. k \notin 1..i - 1
          BY <1>3, <3>1, <3>6
        <4>2. k # i
          BY <1>4, <1>9, <3>6
        <4>3. QED
          BY <1>2, <4>1, <4>2
      <3>8. b < q
        BY <1>2, <1>4, <3>6, <3>7
      <3>9. Precedes(rs, b, q)
        BY <3>5, <3>8 DEF Precedes
      <3>10. Dynamic(rs, b) = Dynamic(rs, q)
        BY <2>1, <2>3 DEF Dynamic, Parameterised
      <3>11. QED
        BY <3>9, <3>10 DEF Better
    <2>4. QED
      BY <2>2, <2>3
  <1>10. QED
    BY <1>1, <1>3, <1>4, <1>6, <1>9

\* Without such a route the best of the first ones of the nodes is the best of all.
Heads(path, method) ==
    UNION {First(router.nodes[p], Allowed(method, Matching(path))) : p \in Candidates(path)}

LEMMA HeadsFit ==
  ASSUME Indexed(router), NEW path \in Paths, NEW method
  PROVE  Heads(path, method) \subseteq Allowed(method, Matching(path))
  <1>1. PICK S, nodes : S = Allowed(method, Matching(path)) /\ nodes = router.nodes
    OBVIOUS
  <1>2. ASSUME NEW p \in Candidates(path) PROVE First(nodes[p], S) \subseteq S
    <2>1. p \in DOMAIN nodes
      BY <1>1 DEF Candidates
    <2>2. PICK T, group : T = 1..Len(router.routes) /\ group = nodes[p]
      OBVIOUS
    <2>3. group \in Seq(T)
      BY <1>1, <2>1, <2>2 DEF Indexed, IndexTypes
    <2>4. First(group, S) \subseteq S
      BY <2>3, FirstWanted
    <2>5. QED
      BY <2>2, <2>4
  <1>3. QED
    BY <1>1, <1>2 DEF Heads

LEMMA BestIsHead ==
  ASSUME Indexed(router), NEW path \in Paths, NEW method,
         NEW b \in Allowed(method, Matching(path)),
         \A q \in Allowed(method, Matching(path)) \ {b} : Precedes(router.routes, b, q)
  PROVE  b \in Heads(path, method)
  <1>1. PICK S, rs, nodes : /\ S = Allowed(method, Matching(path))
                            /\ rs = router.routes /\ nodes = router.nodes
    OBVIOUS
  <1>2. rs \in Seq(RouteOf)
    BY <1>1 DEF Indexed, IndexTypes
  <1>3. PICK p \in Candidates(path) : b \in Range(nodes[p])
    BY <1>1 DEF Allowed, Matching, Reached
  <1>4. PICK T, group : T = 1..Len(rs) /\ group = nodes[p]
    OBVIOUS
  <1>5. p \in DOMAIN nodes /\ group \in Seq(T) /\ InOrder(rs, group)
    BY <1>1, <1>3, <1>4 DEF Candidates, Indexed, IndexTypes, DynamicIndexed
  <1>6. DOMAIN group = 1..Len(group) /\ Len(group) \in Nat
        /\ \A i \in 1..Len(group) : group[i] \in T
    BY <1>5, LenProperties, ElementOfSeq
  <1>7. PICK k \in 1..Len(group) : group[k] = b
    BY <1>3, <1>4, <1>6 DEF Range
  <1>8. b \in S
    BY <1>1
  <1>9. PICK i \in 1..Len(group) : /\ First(group, S) = {group[i]} /\ group[i] \in S
                                   /\ \A j \in 1..i - 1 : group[j] \notin S
    BY <1>5, <1>7, <1>8, FirstWanted
  <1>10. group[i] = b
    <2>1. SUFFICES ASSUME group[i] # b PROVE FALSE
      OBVIOUS
    <2>2. Precedes(rs, b, group[i])
      BY <1>1, <1>9, <2>1
    <2>3. k \notin 1..i - 1
      BY <1>7, <1>8, <1>9
    <2>4. k # i
      BY <1>7, <2>1
    <2>5. i < k
      BY <1>6, <2>3, <2>4
    <2>6. Precedes(rs, group[i], b)
      BY <1>5, <1>7, <2>5 DEF InOrder
    <2>7. group[i] \in 1..Len(rs) /\ b \in 1..Len(rs)
      BY <1>4, <1>6, <1>7
    <2>8. QED
      BY <1>2, <2>2, <2>6, <2>7, PrecedesOrders
  <1>11. b \in First(nodes[p], S)
    BY <1>4, <1>9, <1>10
  <1>12. QED
    BY <1>1, <1>3, <1>11 DEF Heads

LEMMA HeadIsBest ==
  ASSUME Indexed(router), NEW path \in Paths, NEW method,
         Allowed(method, Exact(path)) = {}, Allowed(method, Hits(path)) # {}
  PROVE  \E b \in Allowed(method, Hits(path)) :
            /\ b \in Heads(path, method)
            /\ \A q \in Heads(path, method) \ {b} : Precedes(router.routes, b, q)
            /\ \A q \in Allowed(method, Hits(path)) \ {b} : Better(router.routes, b, q)
  <1>1. PICK S, rs : S = Allowed(method, Matching(path)) /\ rs = router.routes
    OBVIOUS
  <1>2. rs \in Seq(RouteOf)
    BY <1>1 DEF Indexed, IndexTypes
  <1>3. \A q \in Allowed(method, Hits(path)) : Dynamic(rs, q) /\ q \in S
    <2> TAKE q \in Allowed(method, Hits(path))
    <2>1. q \in Hits(path) /\ q \notin Exact(path)
      BY DEF Allowed
    <2>2. Dynamic(rs, q)
      BY <1>1, <2>1, ExactHits
    <2>3. QED
      BY <1>1, <2>1, <2>2, MatchingHits DEF Allowed
  <1>4. \A q \in S : q \in Allowed(method, Hits(path)) /\ Dynamic(rs, q)
    BY <1>1, MatchingHits DEF Allowed
  <1>5. DOMAIN rs = 1..Len(rs)
    BY <1>2, RouteFacts
  <1>6. S \in SUBSET (1..Len(rs)) /\ S # {}
    BY <1>1, <1>3, <1>4, <1>5 DEF Allowed, Hits
  <1>7. PICK b \in S : \A q \in S \ {b} : Precedes(rs, b, q)
    BY <1>2, <1>6, SomeIsFirst
  <1>8. b \in Heads(path, method)
    BY <1>1, <1>7, BestIsHead
  <1>9. \A q \in Heads(path, method) \ {b} : Precedes(rs, b, q)
    BY <1>1, <1>7, HeadsFit
  <1>10. \A q \in Allowed(method, Hits(path)) \ {b} : Better(rs, b, q)
    <2> TAKE q \in Allowed(method, Hits(path)) \ {b}
    <2>1. q \in S \ {b} /\ Dynamic(rs, q) /\ Dynamic(rs, b)
      BY <1>3, <1>4, <1>7
    <2>2. Dynamic(rs, b) = Dynamic(rs, q)
      BY <2>1 DEF Dynamic, Parameterised
    <2>3. QED
      BY <1>7, <2>1, <2>2 DEF Better
  <1>11. QED
    BY <1>1, <1>4, <1>7, <1>8, <1>9, <1>10

\* A route that comes before all others is the one that is chosen.
LEMMA BestIsChosen ==
  ASSUME NEW rs \in Seq(RouteOf), NEW S \in SUBSET (1..Len(rs)), NEW b \in S,
         \A q \in S \ {b} : Better(rs, b, q)
  PROVE  (CHOOSE r \in S : \A q \in S \ {r} : Better(rs, r, q)) = b
  <1>1. PICK c : c = CHOOSE r \in S : \A q \in S \ {r} : Better(rs, r, q)
    OBVIOUS
  <1>2. c \in S /\ \A q \in S \ {c} : Better(rs, c, q)
    BY <1>1
  <1>3. c = b
    <2>1. SUFFICES ASSUME c # b PROVE FALSE
      OBVIOUS
    <2>2. Better(rs, c, b) /\ Better(rs, b, c) /\ c \in 1..Len(rs) /\ b \in 1..Len(rs)
      BY <1>2, <2>1
    <2>3. QED
      BY <2>2, OneIsBetter
  <1>4. QED
    BY <1>1, <1>3

LEMMA FirstIsChosen ==
  ASSUME NEW rs \in Seq(RouteOf), NEW S \in SUBSET (1..Len(rs)), NEW b \in S,
         \A q \in S \ {b} : Precedes(rs, b, q)
  PROVE  (CHOOSE r \in S : \A q \in S \ {r} : Precedes(rs, r, q)) = b
  <1>1. PICK c : c = CHOOSE r \in S : \A q \in S \ {r} : Precedes(rs, r, q)
    OBVIOUS
  <1>2. c \in S /\ \A q \in S \ {c} : Precedes(rs, c, q)
    BY <1>1
  <1>3. c = b
    <2>1. SUFFICES ASSUME c # b PROVE FALSE
      OBVIOUS
    <2>2. Precedes(rs, c, b) /\ Precedes(rs, b, c) /\ c \in 1..Len(rs) /\ b \in 1..Len(rs)
      BY <1>2, <2>1
    <2>3. QED
      BY <2>2, PrecedesOrders
  <1>4. QED
    BY <1>1, <1>3

\* match() with the parts of its search named.
LEMMA MatchGives ==
  ASSUME NEW path, NEW method, NEW static, NEW heads, NEW rs,
         static = First(router.static, Allowed(method, Exact(path))),
         heads = Heads(path, method), rs = router.routes
  PROVE  Match(path, method) =
            IF static # {} THEN Answer(CHOOSE r \in static : TRUE, "none")
            ELSE IF heads # {}
            THEN Answer(CHOOSE r \in heads : \A q \in heads \ {r} : Precedes(rs, r, q), "none")
            ELSE Answer(0, IF Exact(path) \union Matching(path) # {}
                           THEN MethodNotAllowed ELSE NotFound)
  <1> DEFINE rts == router.routes
             exact == {r \in Range(router.static) : Spells(rts[r].template, path)}
             reached == UNION {Range(router.nodes[p]) : p \in Candidates(path)}
             matching == {r \in reached : Matches(rts[r].template, path)}
             Wanted(S) == {r \in S : method \in rts[r].methods}
             st == First(router.static, Wanted(exact))
             hd == UNION {First(router.nodes[p], Wanted(matching)) : p \in Candidates(path)}
  <1>1. Match(path, method) =
           IF st # {} THEN Answer(CHOOSE r \in st : TRUE, "none")
           ELSE IF hd # {}
           THEN Answer(CHOOSE r \in hd : \A q \in hd \ {r} : Precedes(rts, r, q), "none")
           ELSE Answer(0, IF exact \union matching # {} THEN MethodNotAllowed ELSE NotFound)
    BY DEF Match
  <1>2. exact = Exact(path) /\ matching = Matching(path)
    BY DEF Exact, Matching, Reached
  <1>3. Wanted(exact) = Allowed(method, Exact(path)) /\ Wanted(matching) = Allowed(method, Matching(path))
    BY <1>2 DEF Allowed
  <1>4. st = static
    BY <1>3
  <1>5. hd = heads
    BY <1>3 DEF Heads
  <1> HIDE DEF exact, matching, st, hd
  <1>6. Match(path, method) =
           IF static # {} THEN Answer(CHOOSE r \in static : TRUE, "none")
           ELSE IF heads # {}
           THEN Answer(CHOOSE r \in heads : \A q \in heads \ {r} : Precedes(rts, r, q), "none")
           ELSE Answer(0, IF exact \union matching # {} THEN MethodNotAllowed ELSE NotFound)
    BY <1>1, <1>4, <1>5
  <1>7. QED
    BY <1>2, <1>6

LEMMA SearchFinds ==
  ASSUME Indexed(router), NEW path \in Paths, NEW method, NEW fit,
         fit = Allowed(method, Hits(path))
  PROVE  Match(path, method) =
            IF fit # {}
            THEN Answer(CHOOSE r \in fit : \A q \in fit \ {r} : Better(router.routes, r, q), "none")
            ELSE Answer(0, IF Hits(path) # {} THEN MethodNotAllowed ELSE NotFound)
  <1>1. PICK rs, static, heads, m, best :
           /\ rs = router.routes
           /\ static = First(router.static, Allowed(method, Exact(path)))
           /\ heads = Heads(path, method)
           /\ m = Match(path, method)
           /\ best = CHOOSE r \in fit : \A q \in fit \ {r} : Better(rs, r, q)
    OBVIOUS
  <1>2. m = IF static # {} THEN Answer(CHOOSE r \in static : TRUE, "none")
            ELSE IF heads # {}
            THEN Answer(CHOOSE r \in heads : \A q \in heads \ {r} : Precedes(rs, r, q), "none")
            ELSE Answer(0, IF Exact(path) \union Matching(path) # {}
                           THEN MethodNotAllowed ELSE NotFound)
    BY <1>1, MatchGives
  <1>3. rs \in Seq(RouteOf) /\ fit \in SUBSET (1..Len(rs))
    <2>1. rs \in Seq(RouteOf)
      BY <1>1 DEF Indexed, IndexTypes
    <2>2. DOMAIN rs = 1..Len(rs)
      BY <2>1, RouteFacts
    <2>3. QED
      BY <1>1, <2>1, <2>2 DEF Allowed, Hits
  <1>4. \A r : r \in Exact(path) \union Matching(path) <=> r \in Hits(path)
    BY ExactHits, MatchingHits
  <1>5. CASE static # {}
    <2>1. PICK b \in fit : static = {b} /\ \A q \in fit \ {b} : Better(rs, b, q)
      BY <1>1, <1>5, StaticIsBest
    <2>2. best = b
      BY <1>1, <1>3, <2>1, BestIsChosen
    <2>3. (CHOOSE r \in static : TRUE) = b
      BY <2>1
    <2>4. m = Answer(b, "none")
      BY <1>2, <1>5, <2>3
    <2>5. QED
      BY <1>1, <2>1, <2>2, <2>4
  <1>6. CASE static = {} /\ fit # {}
    <2>1. Allowed(method, Exact(path)) = {}
      <3>1. PICK T, s, S : T = 1..Len(rs) /\ s = router.static /\ S = Allowed(method, Exact(path))
        OBVIOUS
      <3>2. s \in Seq(T) /\ First(s, S) = {}
        BY <1>1, <1>6, <3>1 DEF Indexed, IndexTypes
      <3>3. \A i \in 1..Len(s) : s[i] \notin S
        BY <3>2, FirstWanted
      <3>4. DOMAIN s = 1..Len(s)
        BY <3>2, LenProperties
      <3>5. \A r \in S : r \in Range(s)
        BY <3>1 DEF Allowed, Exact
      <3>6. QED
        BY <3>1, <3>3, <3>4, <3>5 DEF Range
    <2>2. PICK b \in fit : /\ b \in heads /\ \A q \in heads \ {b} : Precedes(rs, b, q)
                           /\ \A q \in fit \ {b} : Better(rs, b, q)
      BY <1>1, <1>6, <2>1, HeadIsBest
    <2>3. best = b
      BY <1>1, <1>3, <2>2, BestIsChosen
    <2>4. heads \in SUBSET (1..Len(rs))
      <3>1. heads \subseteq Allowed(method, Matching(path))
        BY <1>1, HeadsFit
      <3>2. \A r \in Allowed(method, Matching(path)) : r \in fit
        BY MatchingHits DEF Allowed
      <3>3. QED
        BY <1>3, <3>1, <3>2
    <2>5. (CHOOSE r \in heads : \A q \in heads \ {r} : Precedes(rs, r, q)) = b
      BY <1>3, <2>2, <2>4, FirstIsChosen
    <2>6. m = Answer(b, "none")
      BY <1>2, <1>6, <2>2, <2>5
    <2>7. QED
      BY <1>1, <1>6, <2>3, <2>6
  <1>7. CASE static = {} /\ fit = {}
    <2>1. heads = {}
      <3>1. \A r \in Allowed(method, Matching(path)) : r \in fit
        BY MatchingHits DEF Allowed
      <3>2. heads \subseteq Allowed(method, Matching(path))
        BY <1>1, HeadsFit
      <3>3. QED
        BY <1>7, <3>1, <3>2
    <2>2. Exact(path) \union Matching(path) # {} <=> Hits(path) # {}
      BY <1>4
    <2>3. m = Answer(0, IF Hits(path) # {} THEN MethodNotAllowed ELSE NotFound)
      BY <1>2, <1>7, <2>1, <2>2
    <2>4. QED
      BY <1>1, <1>7, <2>3
  <1>8. QED
    BY <1>5, <1>6, <1>7

LEMMA IndexedFindsTheBest ==
  ASSUME Indexed(router)
  PROVE  MatchIsBest
  <1>1. SUFFICES ASSUME NEW path \in Paths, NEW method \in Methods
                 PROVE  LET rs == router.routes
                            hits == {r \in DOMAIN rs : Matches(rs[r].template, path)}
                            fit == {r \in hits : method \in rs[r].methods}
                            Moving(r) == Parameterised(rs[r].template)
                            Before(r, q) == IF Moving(r) = Moving(q) THEN Precedes(rs, r, q) ELSE Moving(q)
                        IN  Match(path, method) =
                                IF fit # {}
                                THEN Answer(CHOOSE r \in fit : \A q \in fit \ {r} : Before(r, q), "none")
                                ELSE Answer(0, IF hits # {} THEN MethodNotAllowed ELSE NotFound)
    BY DEF MatchIsBest
  <1>2. PICK hits, fit :
           /\ hits = {r \in DOMAIN router.routes : Matches(router.routes[r].template, path)}
           /\ fit = {r \in hits : method \in router.routes[r].methods}
    OBVIOUS
  <1>3. Match(path, method) =
                  IF fit # {}
                  THEN Answer(CHOOSE r \in fit : \A q \in fit \ {r} : Better(router.routes, r, q), "none")
                  ELSE Answer(0, IF hits # {} THEN MethodNotAllowed ELSE NotFound)
    <2>1. hits = Hits(path)
      BY <1>2 DEF Hits
    <2>2. fit = Allowed(method, Hits(path))
      BY <1>2, <2>1 DEF Allowed
    <2>3. QED
      BY <2>1, <2>2, SearchFinds
  <1>4. QED
    BY <1>2, <1>3 DEF Better, Dynamic

-----------------------------------------------------------------------------
(* Routes: the specification *)

LEMMA IndexedTypes ==
  ASSUME Indexed(router)
  PROVE  RoutingTypeOK
  <1>1. PICK rs : rs = router.routes
    OBVIOUS
  <1>2. /\ rs \in Seq(RouteOf) /\ router.static \in Seq(1..Len(rs))
        /\ \A p \in DOMAIN router.nodes : ~Parameterised(p) /\ router.nodes[p] \in Seq(1..Len(rs))
    BY <1>1 DEF Indexed, IndexTypes
  <1>3. DOMAIN rs = 1..Len(rs) /\ \A r \in 1..Len(rs) : rs[r].methods \in SUBSET Methods
    BY <1>2, RouteFacts
  <1>4. QED
    BY <1>1, <1>2, <1>3 DEF RoutingTypeOK

LEMMA RoutingStarts == RoutingInit => Indexed(router)
  <1> SUFFICES ASSUME RoutingInit PROVE Indexed(router)
    OBVIOUS
  <1>1. router.routes = <<>> /\ router.static = <<>> /\ router.nodes = <<>>
    BY DEF RoutingInit
  <1>2. DOMAIN router.nodes = {}
    BY <1>1
  <1>3. Len(router.routes) = 0 /\ Len(router.static) = 0 /\ router.routes \in Seq(RouteOf)
        /\ \A T : router.static \in Seq(T)
    BY <1>1, EmptySeq
  <1>4. IndexTypes(router)
    BY <1>2, <1>3 DEF IndexTypes
  <1>5. StaticIndexed(router)
    BY <1>3 DEF StaticIndexed
  <1>6. DynamicIndexed(router)
    BY <1>2, <1>3 DEF DynamicIndexed
  <1>7. QED
    BY <1>4, <1>5, <1>6 DEF Indexed

LEMMA RoutingSteps == Indexed(router) /\ [RoutingNext]_routingVars => Indexed(router)'
  <1> SUFFICES ASSUME Indexed(router), [RoutingNext]_routingVars PROVE Indexed(router)'
    OBVIOUS
  <1>1. PICK rt, qt : rt = router /\ qt = router'
    OBVIOUS
  <1>2. Indexed(rt)
    BY <1>1
  <1>3. CASE AddRoute
    <2>1. PICK template \in Templates, methods \in SUBSET Methods \ {{}} :
             router' = Registered(router, [template |-> template, methods |-> methods])
      BY <1>3 DEF AddRoute
    <2>2. PICK route : route = [template |-> template, methods |-> methods]
      OBVIOUS
    <2>3. route \in RouteOf
      BY <2>2, RoutingAssumption DEF RouteOf
    <2>4. qt = Registered(rt, route)
      BY <1>1, <2>1, <2>2
    <2>5. QED
      BY <1>1, <1>2, <2>3, <2>4, RegisteredIndexed
  <1>4. CASE IncludeRouter
    <2>1. PICK remount \in BOOLEAN, mount \in Mounts :
             router' = Including(remount, mount)[Len(Included)]
      BY <1>4 DEF IncludeRouter
    <2>2. PICK it : it = Including(remount, mount)[Len(Included)]
      OBVIOUS
    <2>3. Indexed(it)
      BY <2>2, IncludedIndexed
    <2>4. QED
      BY <1>1, <2>1, <2>2, <2>3
  <1>5. CASE UNCHANGED routingVars
    BY <1>1, <1>2, <1>5 DEF routingVars
  <1>6. QED
    BY <1>3, <1>4, <1>5 DEF RoutingNext

LEMMA RoutesAreIndexed == RoutingSpec => []Indexed(router)
  BY RoutingStarts, RoutingSteps, PTL DEF RoutingSpec

\* Types of the router.
THEOREM RoutingTypeCorrect == RoutingSpec => []RoutingTypeOK
  BY RoutesAreIndexed, IndexedTypes, PTL

\* match() finds the route that a look at all routes would find.
THEOREM BestRouteIsFound == RoutingSpec => []MatchIsBest
  BY RoutesAreIndexed, IndexedFindsTheBest, PTL
=============================================================================
