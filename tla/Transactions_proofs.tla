--------------------------- MODULE Transactions_proofs ---------------------------
(***************************************************************************)
(* What the connection pool and the transactions on it guarantee, for any  *)
(* number of tasks and any pool size: a connection is idle or in the hands *)
(* of one task, an open pool has at most max_size of them and knows how    *)
(* many, and what is idle has no transaction open.  What a block wrote is  *)
(* durable or gone as its end was reported.                                *)
(***************************************************************************)
EXTENDS Transactions, FiniteSetTheorems, FunctionTheorems, SequenceTheorems,
        WellFoundedInduction, TLAPS

-----------------------------------------------------------------------------
(* Queues in which nothing is twice *)

In(x, s) == \E i \in 1..Len(s) : s[i] = x

Once(s) == \A i, j \in 1..Len(s) : s[i] = s[j] => i = j

LEMMA Appended ==
  ASSUME NEW S, NEW s \in Seq(S), NEW x \in S
  PROVE  /\ Append(s, x) \in Seq(S) /\ Append(s, x) # <<>>
         /\ \A y : In(y, Append(s, x)) <=> In(y, s) \/ y = x
         /\ Once(s) /\ ~In(x, s) => Once(Append(s, x))
  BY AppendProperties DEF In, Once

LEMMA HeadTaken ==
  ASSUME NEW S, NEW s \in Seq(S), s # <<>>
  PROVE  /\ Head(s) \in S /\ Tail(s) \in Seq(S)
         /\ In(Head(s), s)
         /\ \A y : In(y, s) <=> In(y, Tail(s)) \/ y = Head(s)
         /\ Once(s) => Once(Tail(s)) /\ ~In(Head(s), Tail(s))
  <1>1. /\ Head(s) = s[1] /\ Head(s) \in S /\ Tail(s) \in Seq(S)
        /\ Len(s) \in Nat \ {0} /\ Len(Tail(s)) = Len(s) - 1
        /\ \A i \in 1..Len(Tail(s)) : Tail(s)[i] = s[i + 1]
    BY HeadTailProperties, EmptySeq, LenProperties
  <1>2. \A y : In(y, Tail(s)) => In(y, s)
    BY <1>1 DEF In
  <1>3. In(Head(s), s)
    BY <1>1 DEF In
  <1>4. ASSUME NEW y, In(y, s), y # Head(s) PROVE In(y, Tail(s))
    <2>1. PICK i \in 1..Len(s) : s[i] = y
      BY <1>4 DEF In
    <2>2. i - 1 \in 1..Len(Tail(s)) /\ Tail(s)[i - 1] = s[i - 1 + 1]
      BY <2>1, <1>1, <1>4
    <2>3. QED
      BY <2>1, <2>2 DEF In
  <1>5. ASSUME Once(s) PROVE Once(Tail(s)) /\ ~In(Head(s), Tail(s))
    BY <1>1, <1>5 DEF In, Once
  <1>6. QED
    BY <1>1, <1>2, <1>3, <1>4, <1>5

\* Taking out what is at one place.
LEMMA TakenOut ==
  ASSUME NEW S, NEW s \in Seq(S), NEW k \in 1..Len(s)
  PROVE  /\ RemoveAt(s, k) \in Seq(S)
         /\ \A y : In(y, RemoveAt(s, k)) => In(y, s)
         /\ Once(s) => Once(RemoveAt(s, k)) /\ ~In(s[k], RemoveAt(s, k))
  <1> DEFINE before == SubSeq(s, 1, k - 1)
             after == SubSeq(s, k + 1, Len(s))
             r == RemoveAt(s, k)
  <1>1. /\ Len(s) \in Nat
        /\ before \in Seq(S) /\ Len(before) = k - 1
        /\ \A i \in 1..k - 1 : before[i] = s[i]
        /\ after \in Seq(S) /\ Len(after) = Len(s) - k
        /\ \A i \in 1..Len(s) - k : after[i] = s[k + i]
    <2>1. Len(s) \in Nat /\ \A i \in 1..Len(s) : s[i] \in S
      BY LenProperties, ElementOfSeq
    <2>2. /\ before \in Seq(S) /\ Len(before) = k - 1
          /\ \A i \in 1..k - 1 : before[i] = s[i]
      BY <2>1, SubSeqProperties
    <2>3. /\ after \in Seq(S) /\ Len(after) = Len(s) - k
          /\ \A i \in 1..Len(s) - k : after[i] = s[k + i]
      BY <2>1, SubSeqProperties
    <2>4. QED
      BY <2>1, <2>2, <2>3
  <1>2. /\ r \in Seq(S) /\ Len(r) = Len(s) - 1
        /\ \A i \in 1..k - 1 : r[i] = s[i]
        /\ \A i \in k..Len(s) - 1 : r[i] = s[i + 1]
    <2>1. r = before \o after
      BY DEF RemoveAt
    <2>2. /\ r \in Seq(S) /\ Len(r) = Len(before) + Len(after)
          /\ \A i \in 1..Len(before) + Len(after) :
                r[i] = IF i <= Len(before) THEN before[i] ELSE after[i - Len(before)]
      <3> HIDE DEF before, after, r
      <3>1. QED
        BY <1>1, <2>1, ConcatProperties
    <2> HIDE DEF before, after, r
    <2>3. Len(before) + Len(after) = Len(s) - 1
      BY <1>1
    <2>4. ASSUME NEW i \in 1..k - 1 PROVE r[i] = s[i]
      <3>1. i \in 1..Len(before) + Len(after) /\ i <= Len(before) /\ before[i] = s[i]
        BY <1>1
      <3>2. QED
        BY <3>1, <2>2
    <2>5. ASSUME NEW i \in k..Len(s) - 1 PROVE r[i] = s[i + 1]
      <3>1. r[i] = after[i - (k - 1)]
        <4>1. /\ i \in 1..Len(before) + Len(after) /\ ~(i <= Len(before))
              /\ i - Len(before) = i - (k - 1)
          BY <1>1
        <4>2. QED
          BY <4>1, <2>2
      <3>2. i - (k - 1) \in 1..Len(s) - k /\ k + (i - (k - 1)) = i + 1
        BY <1>1
      <3>3. QED
        BY <3>1, <3>2, <1>1
    <2>6. QED
      BY <2>2, <2>3, <2>4, <2>5
  <1> HIDE DEF before, after, r
  <1>3. ASSUME NEW y, In(y, r) PROVE In(y, s)
    <2>1. PICK i \in 1..Len(r) : r[i] = y
      BY <1>3 DEF In
    <2>2. i \in 1..k - 1 \/ i \in k..Len(s) - 1
      BY <1>1, <1>2
    <2>3. CASE i \in 1..k - 1
      <3>1. i \in 1..Len(s) /\ s[i] = y
        BY <1>1, <1>2, <2>1, <2>3
      <3>2. QED
        BY <3>1 DEF In
    <2>4. CASE i \in k..Len(s) - 1
      <3>1. i + 1 \in 1..Len(s) /\ s[i + 1] = y
        BY <1>1, <1>2, <2>1, <2>4
      <3>2. QED
        BY <3>1 DEF In
    <2>5. QED
      BY <2>2, <2>3, <2>4
  <1>4. ASSUME Once(s) PROVE Once(r) /\ ~In(s[k], r)
    <2>1. Once(r)
      <3> SUFFICES ASSUME NEW i \in 1..Len(r), NEW j \in 1..Len(r), r[i] = r[j] PROVE i = j
        BY DEF Once
      <3> DEFINE Was(n) == IF n < k THEN n ELSE n + 1
      <3>1. ASSUME NEW n \in 1..Len(r) PROVE Was(n) \in 1..Len(s) /\ s[Was(n)] = r[n]
        <4>1. CASE n < k
          <5>1. Was(n) = n /\ n \in 1..k - 1
            BY <1>1, <1>2, <4>1
          <5>2. QED
            BY <1>1, <1>2, <5>1
        <4>2. CASE ~(n < k)
          <5>1. Was(n) = n + 1 /\ n \in k..Len(s) - 1
            BY <1>1, <1>2, <4>2
          <5>2. QED
            BY <1>1, <1>2, <5>1
        <4>3. QED
          BY <4>1, <4>2
      <3> HIDE DEF Was
      <3>2. Was(i) = Was(j)
        BY <3>1, <1>4 DEF Once
      <3>3. QED
        BY <3>2, <1>1, <1>2 DEF Was
    <2>2. ASSUME NEW i \in 1..Len(r) PROVE r[i] # s[k]
      <3> DEFINE was == IF i < k THEN i ELSE i + 1
      <3>1. was \in 1..Len(s) /\ was # k /\ r[i] = s[was]
        BY <1>1, <1>2
      <3>2. QED
        BY <3>1, <1>4 DEF Once
    <2>3. QED
      BY <2>1, <2>2 DEF In
  <1>5. QED
    BY <1>2, <1>3, <1>4 DEF r

\* A queue in which nothing is twice has as many elements as it has places.
LEMMA OnceCounts ==
  ASSUME NEW S, NEW s \in Seq(S), Once(s)
  PROVE  Cardinality(Range(s)) = Len(s)
  <1>1. Len(s) \in Nat /\ DOMAIN s = 1..Len(s) /\ s = [i \in 1..Len(s) |-> s[i]]
    BY LenProperties, ElementOfSeq
  <1>2. s \in Bijection(1..Len(s), Range(s))
    <2>1. s \in [1..Len(s) -> Range(s)] /\ \A x \in Range(s) : \E i \in 1..Len(s) : s[i] = x
      BY <1>1 DEF Range
    <2>2. QED
      BY <2>1, Fun_IsBij DEF Once
  <1>3. ExistsBijection(1..Len(s), Range(s))
    BY <1>2 DEF ExistsBijection
  <1>4. QED
    BY <1>1, <1>3, FS_CountingElements

-----------------------------------------------------------------------------
(* Who has each connection *)

IdleOnce == Once(idle)

LeasesApart == \A t, u \in Tasks : lease[t] = lease[u] /\ lease[t] # None => t = u

LeasedIsNotIdle == \A t \in Tasks : lease[t] # None => ~In(lease[t], idle)

Leased(c) == \E t \in Tasks : lease[t] = c

LiveIsKept == \A c \in Conns : c \in live <=> In(c, idle) \/ Leased(c)

LiveWasOpened == \A c \in live : c <= opened

Custody ==
    /\ idle \in Seq(Conns) /\ opened \in 0..MaxConns /\ live \subseteq Conns
    /\ lease \in [Tasks -> Conns \union {None}]
    /\ IdleOnce /\ LeasesApart /\ LeasedIsNotIdle /\ LiveIsKept /\ LiveWasOpened

\* The numbers of connections, and that None is not one.
LEMMA ConnNumbers ==
  /\ MaxConns \in Nat /\ MaxSize \in Nat /\ MinSize \in Nat /\ MinSize <= MaxSize
  /\ None \notin Conns /\ \A c \in Conns : c \in Nat /\ c >= 1
  BY PoolAssumption DEF Conns

\* A step that changes what one task has.
TaskHas(t, c) ==
    /\ lease' \in [Tasks -> Conns \union {None}]
    /\ lease'[t] = c
    /\ \A u \in Tasks : u # t => lease'[u] = lease[u]

LEMMA LeaseReplaced ==
  ASSUME Custody, NEW t \in Tasks, NEW c \in Conns \union {None},
         lease' = [lease EXCEPT ![t] = c]
  PROVE  TaskHas(t, c)
  BY DEF Custody, TaskHas

\* The idle connection at the head of the pool goes to a task that has none.
LEMMA IdleIsLeased ==
  ASSUME Custody, NEW t \in Tasks, lease[t] = None, idle # <<>>,
         lease' = [lease EXCEPT ![t] = Head(idle)], idle' = Tail(idle),
         UNCHANGED <<opened, live>>
  PROVE  Custody'
  <1>1. /\ Head(idle) \in Conns /\ idle' \in Seq(Conns) /\ In(Head(idle), idle)
        /\ \A c : In(c, idle) <=> In(c, idle') \/ c = Head(idle)
        /\ Once(idle') /\ ~In(Head(idle), idle')
    BY HeadTaken DEF Custody, IdleOnce
  <1>2. TaskHas(t, Head(idle))
    BY <1>1, LeaseReplaced
  <1>3. LeasesApart'
    BY <1>1, <1>2, ConnNumbers DEF Custody, LeasesApart, LeasedIsNotIdle, TaskHas
  <1>4. LeasedIsNotIdle'
    BY <1>1, <1>2 DEF Custody, LeasedIsNotIdle, TaskHas
  <1>5. LiveIsKept'
    BY <1>1, <1>2, ConnNumbers DEF Custody, LiveIsKept, Leased, TaskHas
  <1>6. QED
    BY <1>1, <1>2, <1>3, <1>4, <1>5 DEF Custody, IdleOnce, LiveWasOpened, TaskHas

\* A new connection goes to a task that has none.
LEMMA NewIsLeased ==
  ASSUME Custody, NEW t \in Tasks, lease[t] = None, Opens,
         lease' = [lease EXCEPT ![t] = opened'], idle' = idle
  PROVE  Custody'
  <1>1. /\ opened' = opened + 1 /\ opened' \in Conns /\ opened' \in 0..MaxConns
        /\ live' = live \union {opened'} /\ opened' \notin live
    BY ConnNumbers DEF Custody, Opens, Conns, LiveWasOpened
  <1>2. TaskHas(t, opened')
    BY <1>1, LeaseReplaced
  <1>3. ~In(opened', idle) /\ \A u \in Tasks : lease[u] # opened'
    BY <1>1 DEF Custody, LiveIsKept, Leased
  <1>4. LeasesApart' /\ LeasedIsNotIdle'
    BY <1>2, <1>3 DEF Custody, LeasesApart, LeasedIsNotIdle, TaskHas
  <1>5. LiveIsKept'
    BY <1>1, <1>2, <1>3, ConnNumbers DEF Custody, LiveIsKept, Leased, TaskHas
  <1>6. LiveWasOpened'
    BY <1>1, ConnNumbers DEF Custody, LiveWasOpened, Conns
  <1>7. QED
    BY <1>1, <1>2, <1>4, <1>5, <1>6 DEF Custody, IdleOnce, TaskHas

\* A new connection goes to the pool.
LEMMA NewIsIdle ==
  ASSUME Custody, Opens, idle' = Append(idle, opened'), lease' = lease
  PROVE  Custody'
  <1>1. /\ opened' = opened + 1 /\ opened' \in Conns /\ opened' \in 0..MaxConns
        /\ live' = live \union {opened'} /\ opened' \notin live
    BY ConnNumbers DEF Custody, Opens, Conns, LiveWasOpened
  <1>2. ~In(opened', idle) /\ \A u \in Tasks : lease[u] # opened'
    BY <1>1 DEF Custody, LiveIsKept, Leased
  <1>3. /\ idle' \in Seq(Conns) /\ Once(idle')
        /\ \A c : In(c, idle') <=> In(c, idle) \/ c = opened'
    BY <1>1, <1>2, Appended DEF Custody, IdleOnce
  <1>4. LeasesApart' /\ LeasedIsNotIdle' /\ LiveIsKept'
    BY <1>1, <1>2, <1>3 DEF Custody, LeasesApart, LeasedIsNotIdle, LiveIsKept, Leased
  <1>5. LiveWasOpened'
    BY <1>1, ConnNumbers DEF Custody, LiveWasOpened, Conns
  <1>6. QED
    BY <1>1, <1>3, <1>4, <1>5 DEF Custody, IdleOnce

\* What a task has goes back to the pool, or is disconnected.
LEMMA LeasedIsReleased ==
  ASSUME Custody, NEW t \in Tasks, lease[t] # None,
         lease' = [lease EXCEPT ![t] = None], opened' = opened,
         \/ idle' = Append(idle, lease[t]) /\ live' = live
         \/ idle' = idle /\ live' = live \ {lease[t]}
  PROVE  Custody'
  <1>1. TaskHas(t, None)
    BY LeaseReplaced
  <1>2. /\ lease[t] \in Conns /\ ~In(lease[t], idle)
        /\ \A u \in Tasks : u # t => lease[u] # lease[t]
    BY DEF Custody, LeasesApart, LeasedIsNotIdle
  <1>3. LeasesApart'
    BY <1>1 DEF Custody, LeasesApart, TaskHas
  <1>4. CASE idle' = Append(idle, lease[t]) /\ live' = live
    <2>1. /\ idle' \in Seq(Conns) /\ Once(idle')
          /\ \A c : In(c, idle') <=> In(c, idle) \/ c = lease[t]
      BY <1>2, <1>4, Appended DEF Custody, IdleOnce
    <2>2. LeasedIsNotIdle'
      BY <1>1, <1>2, <2>1 DEF Custody, LeasedIsNotIdle, TaskHas
    <2>3. LiveIsKept'
      BY <1>1, <1>2, <1>4, <2>1, ConnNumbers DEF Custody, LiveIsKept, Leased, TaskHas
    <2>4. QED
      BY <1>1, <1>3, <1>4, <2>1, <2>2, <2>3 DEF Custody, IdleOnce, LiveWasOpened, TaskHas
  <1>5. CASE idle' = idle /\ live' = live \ {lease[t]}
    <2>1. LeasedIsNotIdle'
      BY <1>1, <1>5 DEF Custody, LeasedIsNotIdle, TaskHas
    <2>2. LiveIsKept'
      BY <1>1, <1>2, <1>5, ConnNumbers DEF Custody, LiveIsKept, Leased, TaskHas
    <2>3. QED
      BY <1>1, <1>3, <1>5, <2>1, <2>2 DEF Custody, IdleOnce, LiveWasOpened, TaskHas
  <1>6. QED
    BY <1>4, <1>5

\* The connection at the head of the pool is disconnected.
LEMMA IdleIsDropped ==
  ASSUME Custody, idle # <<>>, idle' = Tail(idle), live' = live \ {Head(idle)},
         UNCHANGED <<opened, lease>>
  PROVE  Custody'
  <1>1. /\ Head(idle) \in Conns /\ idle' \in Seq(Conns) /\ In(Head(idle), idle)
        /\ \A c : In(c, idle) <=> In(c, idle') \/ c = Head(idle)
        /\ Once(idle') /\ ~In(Head(idle), idle')
    BY HeadTaken DEF Custody, IdleOnce
  <1>2. \A u \in Tasks : lease[u] # Head(idle)
    BY <1>1, ConnNumbers DEF Custody, LeasedIsNotIdle
  <1>3. LeasesApart' /\ LeasedIsNotIdle' /\ LiveIsKept'
    BY <1>1, <1>2 DEF Custody, LeasesApart, LeasedIsNotIdle, LiveIsKept, Leased
  <1>4. QED
    BY <1>1, <1>3 DEF Custody, IdleOnce, LiveWasOpened

LEMMA CustodyStays ==
  ASSUME Custody, UNCHANGED <<idle, opened, live, lease>>
  PROVE  Custody'
  BY DEF Custody, IdleOnce, LeasesApart, LeasedIsNotIdle, LiveIsKept, Leased, LiveWasOpened

LEMMA CustodyMeansExclusive ==
  ASSUME Custody
  PROVE  LeasesExclusive
  <1>1. idle \in Seq(Conns) /\ DOMAIN idle = 1..Len(idle)
    BY LenProperties DEF Custody
  <1>2. \A c : c \in Range(idle) <=> In(c, idle)
    BY <1>1 DEF Range, In
  <1>3. Range(idle) \subseteq Conns
    BY <1>1, ElementOfSeq DEF Range
  <1>4. Cardinality(Range(idle)) = Len(idle)
    BY <1>1, OnceCounts DEF Custody, IdleOnce
  <1>5. \A t \in Tasks : lease[t] \notin Range(idle)
    BY <1>2, <1>3, ConnNumbers DEF Custody, LeasedIsNotIdle
  <1>6. \A c : c \in Range(idle) \union ({lease[t] : t \in Tasks} \ {None}) <=> c \in live
    <2>1. \A t \in Tasks : lease[t] # None => lease[t] \in Conns
      BY DEF Custody
    <2>2. QED
      BY <2>1, <1>2, <1>3, ConnNumbers DEF Custody, LiveIsKept, Leased
  <1>7. QED
    BY <1>4, <1>5, <1>6 DEF Custody, LeasesApart, LeasesExclusive

-----------------------------------------------------------------------------
(* The pool's books *)

BooksTypeOK ==
    /\ size \in Nat /\ toOpen \in 0..MinSize
    /\ closed \in BOOLEAN /\ draining \in BOOLEAN
    /\ holder \in Tasks \union {Starter, None}

\* initialize() holds the lock until it is done, and only then is there a close().
StarterHolds ==
    /\ holder = Starter <=> toOpen > 0
    /\ closed => toOpen = 0

CloseEmpties ==
    /\ draining => closed
    /\ ClosedIsEmpty

Counted == ~closed => Cardinality(live) = size /\ size + toOpen <= MaxSize

\* Who looked at the size and went on to connect still has room.
Connecting == doing = "connecting"
RoomToConnect == ~closed /\ holder \in Tasks /\ Connecting => size < MaxSize

Books == BooksTypeOK /\ StarterHolds /\ CloseEmpties /\ Counted /\ RoomToConnect

PoolInv == Custody /\ Books

LEMMA Actors ==
  /\ Starter \notin Tasks /\ None \notin Tasks /\ Starter # None
  /\ \A t \in Tasks : t # Starter /\ t # None
  BY PoolAssumption

LEMMA LiveIsFinite ==
  ASSUME Custody
  PROVE  IsFiniteSet(live)
  <1>1. IsFiniteSet(Conns)
    BY ConnNumbers, FS_Interval DEF Conns
  <1>2. QED
    BY <1>1, FS_Subset DEF Custody

LEMMA PoolStarts ==
  ASSUME PoolInit
  PROVE  PoolInv
  <1>1. <<>> \in Seq(Conns) /\ Len(<<>>) = 0 /\ Once(<<>>) /\ \A c : ~In(c, <<>>)
    BY EmptySeq DEF Once, In
  <1>2. Custody
    BY <1>1, ConnNumbers DEF PoolInit, Custody, IdleOnce, LeasesApart, LeasedIsNotIdle,
       LiveIsKept, Leased, LiveWasOpened
  <1>3. Cardinality(live) = 0
    BY FS_EmptySet DEF PoolInit
  <1>4. /\ idle = <<>> /\ size = 0 /\ closed = FALSE /\ draining = FALSE /\ toOpen = MinSize
        /\ holder = IF MinSize = 0 THEN None ELSE Starter
    BY DEF PoolInit
  <1>5. BooksTypeOK /\ StarterHolds
    <2>1. holder = Starter <=> MinSize > 0
      BY <1>4, ConnNumbers, Actors
    <2>2. MinSize \in 0..MinSize
      BY ConnNumbers
    <2>3. holder \in Tasks \union {Starter, None}
      BY <1>4
    <2>4. QED
      BY <1>4, <2>1, <2>2, <2>3 DEF BooksTypeOK, StarterHolds
  <1>6. CloseEmpties /\ Counted
    BY <1>3, <1>4, ConnNumbers DEF CloseEmpties, ClosedIsEmpty, Counted
  <1>7. RoomToConnect
    BY <1>4, Actors DEF RoomToConnect
  <1>8. QED
    BY <1>2, <1>5, <1>6, <1>7 DEF PoolInv, Books

\* What a new connection does to the count.
LEMMA OneMoreCounted ==
  ASSUME Custody, BooksTypeOK, Counted, Opens
  PROVE  /\ size' = size + 1 /\ size' \in Nat
         /\ ~closed => Cardinality(live') = size'
  <1>1. opened' \notin live
    BY ConnNumbers DEF Custody, Opens, LiveWasOpened, Conns
  <1>2. Cardinality(live') = Cardinality(live) + 1
    BY <1>1, LiveIsFinite, FS_AddElement DEF Opens
  <1>3. QED
    BY <1>2 DEF Opens, BooksTypeOK, Counted

LEMMA InitializeConnectsKeeps ==
  ASSUME PoolInv, InitializeConnects
  PROVE  PoolInv'
  <1>1. Custody'
    BY NewIsIdle DEF PoolInv, InitializeConnects
  <1>2. size' = size + 1 /\ size' \in Nat /\ (~closed => Cardinality(live') = size')
    BY OneMoreCounted DEF PoolInv, Books, InitializeConnects
  <1>3. BooksTypeOK'
    BY <1>2, ConnNumbers DEF PoolInv, Books, BooksTypeOK, InitializeConnects
  <1>4. StarterHolds' /\ CloseEmpties'
    BY ConnNumbers, Actors
    DEF PoolInv, Books, BooksTypeOK, StarterHolds, CloseEmpties, ClosedIsEmpty, InitializeConnects
  <1>5. Counted'
    BY <1>2, ConnNumbers DEF PoolInv, Books, BooksTypeOK, Counted, InitializeConnects
  <1>6. RoomToConnect'
    BY Actors DEF RoomToConnect, InitializeConnects
  <1>7. QED
    BY <1>1, <1>3, <1>4, <1>5, <1>6 DEF PoolInv, Books

LEMMA InitializeFailsKeeps ==
  ASSUME PoolInv, InitializeFails
  PROVE  PoolInv'
  <1>1. Custody'
    BY CustodyStays DEF PoolInv, InitializeFails
  <1>2. BooksTypeOK' /\ StarterHolds' /\ CloseEmpties' /\ Counted'
    BY ConnNumbers, Actors
    DEF PoolInv, Books, BooksTypeOK, StarterHolds, CloseEmpties, ClosedIsEmpty, Counted, InitializeFails
  <1>3. RoomToConnect'
    BY Actors DEF RoomToConnect, InitializeFails
  <1>4. QED
    BY <1>1, <1>2, <1>3 DEF PoolInv, Books

\* A step of the pool that changes nothing but who has which connection.
LEMMA BooksStay ==
  ASSUME PoolInv, UNCHANGED <<size, closed, draining, toOpen, holder, doing>>,
         ~closed => Cardinality(live') = Cardinality(live),
         closed /\ ~draining => idle' = idle
  PROVE  Books'
  BY DEF PoolInv, Books, BooksTypeOK, StarterHolds, CloseEmpties, ClosedIsEmpty, Counted,
         RoomToConnect, Connecting

LEMMA AcquireIdleKeeps ==
  ASSUME PoolInv, NEW t \in Tasks, lease[t] = None, AcquireIdle(t)
  PROVE  PoolInv'
  <1>1. Custody'
    BY IdleIsLeased DEF PoolInv, AcquireIdle
  <1>2. Books'
    BY BooksStay DEF AcquireIdle
  <1>3. QED
    BY <1>1, <1>2 DEF PoolInv

LEMMA AcquireQueuesKeeps ==
  ASSUME PoolInv, NEW t \in Tasks, AcquireQueues(t)
  PROVE  PoolInv'
  <1>1. Custody'
    BY CustodyStays DEF PoolInv, AcquireQueues
  <1>2. Books'
    BY BooksStay DEF AcquireQueues
  <1>3. QED
    BY <1>1, <1>2 DEF PoolInv

LEMMA GetsLockKeeps ==
  ASSUME PoolInv, NEW t \in Tasks, GetsLock(t)
  PROVE  PoolInv'
  <1>1. Custody'
    BY CustodyStays DEF PoolInv, GetsLock
  <1>2. holder = None /\ holder' = t /\ UNCHANGED <<idle, size, closed, draining, toOpen, live>>
    BY DEF GetsLock, NextForLock
  <1>3. BooksTypeOK' /\ StarterHolds' /\ CloseEmpties' /\ Counted'
    BY <1>2, Actors
    DEF PoolInv, Books, BooksTypeOK, StarterHolds, CloseEmpties, ClosedIsEmpty, Counted
  <1>4. Connecting' => size < MaxSize
    BY DEF GetsLock, Connecting
  <1>5. RoomToConnect'
    BY <1>2, <1>4 DEF RoomToConnect
  <1>6. QED
    BY <1>1, <1>3, <1>5 DEF PoolInv, Books

LEMMA ConnectsKeeps ==
  ASSUME PoolInv, NEW t \in Tasks, lease[t] = None, Connects(t)
  PROVE  PoolInv'
  <1>1. Custody'
    BY NewIsLeased DEF PoolInv, Connects
  <1>2. size' = size + 1 /\ size' \in Nat /\ (~closed => Cardinality(live') = size')
    BY OneMoreCounted DEF PoolInv, Books, Connects
  <1>3. /\ holder = t /\ Connecting /\ holder' = None
        /\ UNCHANGED <<idle, closed, draining, toOpen>>
    BY DEF Connects, Connecting
  <1>4. BooksTypeOK' /\ StarterHolds' /\ CloseEmpties'
    BY <1>2, <1>3, Actors
    DEF PoolInv, Books, BooksTypeOK, StarterHolds, CloseEmpties, ClosedIsEmpty
  <1>5. toOpen = 0 /\ (~closed => size < MaxSize)
    BY <1>3, Actors, ConnNumbers DEF PoolInv, Books, BooksTypeOK, StarterHolds, RoomToConnect
  <1>6. Counted'
    BY <1>2, <1>3, <1>5, ConnNumbers DEF PoolInv, Books, BooksTypeOK, Counted
  <1>7. RoomToConnect'
    BY <1>3, Actors DEF RoomToConnect
  <1>8. QED
    BY <1>1, <1>4, <1>6, <1>7 DEF PoolInv, Books

\* A step that gives the lock back.
LEMMA UnlockKeepsBooks ==
  ASSUME PoolInv, NEW t \in Tasks, holder = t, holder' = None,
         UNCHANGED <<size, closed, draining, toOpen, live>>,
         closed /\ ~draining => idle' = idle
  PROVE  Books'
  <1>1. BooksTypeOK' /\ StarterHolds' /\ CloseEmpties' /\ Counted'
    BY Actors DEF PoolInv, Books, BooksTypeOK, StarterHolds, CloseEmpties, ClosedIsEmpty, Counted
  <1>2. RoomToConnect'
    BY Actors DEF RoomToConnect
  <1>3. QED
    BY <1>1, <1>2 DEF Books

LEMMA GetsKeeps ==
  ASSUME PoolInv, NEW t \in Tasks, lease[t] = None, Gets(t)
  PROVE  PoolInv'
  <1>1. Custody'
    BY IdleIsLeased DEF PoolInv, Gets
  <1>2. /\ holder = t /\ holder' = None /\ idle # <<>>
        /\ UNCHANGED <<size, closed, draining, toOpen, live>>
    BY DEF Gets
  <1>3. closed /\ ~draining => idle' = idle
    BY <1>2 DEF PoolInv, Books, CloseEmpties, ClosedIsEmpty
  <1>4. QED
    BY <1>1, <1>2, <1>3, UnlockKeepsBooks DEF PoolInv

LEMMA AcquireFailsKeeps ==
  ASSUME PoolInv, NEW t \in Tasks, AcquireFails(t)
  PROVE  PoolInv'
  <1>1. Custody'
    BY CustodyStays DEF PoolInv, AcquireFails
  <1>2. UNCHANGED <<idle, size, closed, draining, toOpen, doing, live>>
    BY DEF AcquireFails
  <1>3. CASE holder = t /\ holder' = None
    BY <1>1, <1>2, <1>3, UnlockKeepsBooks DEF PoolInv
  <1>4. CASE UNCHANGED holder
    BY <1>1, <1>2, <1>4, BooksStay DEF PoolInv
  <1>5. QED
    BY <1>3, <1>4 DEF AcquireFails

LEMMA ReleasedKeeps ==
  ASSUME PoolInv, NEW t \in Tasks, lease[t] # None, Release(t)
  PROVE  PoolInv'
  <1>1. Custody'
    BY LeasedIsReleased DEF PoolInv, Release
  <1>2. Books'
    BY BooksStay DEF Release
  <1>3. QED
    BY <1>1, <1>2 DEF PoolInv

LEMMA CloseKeeps ==
  ASSUME PoolInv, Close
  PROVE  PoolInv'
  <1>1. Custody'
    BY CustodyStays DEF PoolInv, Close
  <1>2. Books'
    BY DEF PoolInv, Books, BooksTypeOK, StarterHolds, CloseEmpties, ClosedIsEmpty, Counted,
           RoomToConnect, Close
  <1>3. QED
    BY <1>1, <1>2 DEF PoolInv

LEMMA DrainOneKeeps ==
  ASSUME PoolInv, DrainOne
  PROVE  PoolInv'
  <1>1. Custody'
    BY IdleIsDropped DEF PoolInv, DrainOne
  <1>2. Books'
    BY BooksStay DEF DrainOne, PoolInv, Books, CloseEmpties
  <1>3. QED
    BY <1>1, <1>2 DEF PoolInv

LEMMA DrainEndsKeeps ==
  ASSUME PoolInv, DrainEnds
  PROVE  PoolInv'
  <1>1. Custody'
    BY CustodyStays DEF PoolInv, DrainEnds
  <1>2. Books'
    BY DEF PoolInv, Books, BooksTypeOK, StarterHolds, CloseEmpties, ClosedIsEmpty, Counted,
           RoomToConnect, DrainEnds
  <1>3. QED
    BY <1>1, <1>2 DEF PoolInv

LEMMA PoolStepKeeps ==
  ASSUME PoolInv, PoolStep \/ ClosePool
  PROVE  PoolInv'
  BY InitializeConnectsKeeps, InitializeFailsKeeps, DrainOneKeeps, DrainEndsKeeps, CloseKeeps
  DEF PoolStep, ClosePool

LEMMA PoolStays ==
  ASSUME PoolInv, UNCHANGED poolVars
  PROVE  PoolInv'
  <1>1. Custody'
    BY CustodyStays DEF PoolInv, poolVars
  <1>2. Books'
    BY BooksStay DEF poolVars
  <1>3. QED
    BY <1>1, <1>2 DEF PoolInv

LEMMA PoolInvMeans ==
  ASSUME PoolInv
  PROVE  LeasesExclusive /\ PoolAccounts
  <1>1. LeasesExclusive
    BY CustodyMeansExclusive DEF PoolInv
  <1>2. PoolAccounts
    BY ConnNumbers DEF PoolInv, Books, BooksTypeOK, Counted, CloseEmpties, PoolAccounts, WithinMaxSize
  <1>3. QED
    BY <1>1, <1>2

-----------------------------------------------------------------------------
(* What a task has while it is at each place of its code *)

InBody(p) == p = "body"
AtCall(p) == p = "calling"
AtLock(p) == p \in {"queued for a call", "queued for a transaction"}
AtBegin(p) == p = "beginning"
AtExit(p) == p \in {"committing", "rolling back"}
AtEnd(p) == p = "finished"
Absent(p) == p = "absent"

Place == {"absent", "body", "queued for a call", "queued for a transaction",
          "calling", "beginning", "committing", "rolling back", "finished"}

LEMMA Places ==
  /\ \A p : InBody(p) => /\ ~AtCall(p) /\ ~AtLock(p) /\ ~AtBegin(p) /\ ~AtExit(p)
                         /\ ~AtEnd(p) /\ ~Absent(p)
  /\ \A p : AtCall(p) => ~AtLock(p) /\ ~AtBegin(p) /\ ~AtExit(p) /\ ~AtEnd(p) /\ ~Absent(p)
  /\ \A p : AtLock(p) => ~AtBegin(p) /\ ~AtExit(p) /\ ~AtEnd(p) /\ ~Absent(p)
  /\ \A p : AtBegin(p) => ~AtCall(p) /\ ~AtLock(p) /\ ~AtExit(p) /\ ~AtEnd(p) /\ ~Absent(p)
  /\ \A p : AtExit(p) => ~AtCall(p) /\ ~AtLock(p) /\ ~AtBegin(p) /\ ~AtEnd(p) /\ ~Absent(p)
  /\ \A p : AtEnd(p) => ~AtCall(p) /\ ~AtLock(p) /\ ~AtBegin(p) /\ ~AtExit(p) /\ ~Absent(p)
  BY DEF InBody, AtCall, AtLock, AtBegin, AtExit, AtEnd, Absent

\* The transactions a task is inside of, by its own account.
Levels(t) == Len(expected[t])

TasksTypeOK ==
    /\ pc \in [Tasks -> Place]
    /\ context \in [Tasks -> Conns \union {None}]
    /\ depth \in [Tasks -> Nat]
    /\ expected \in [Tasks -> Seq(SUBSET Write)]

\* A task has the connection in its context, but for a single call's; a child
\* has none, and is never without one in its context.
HandOK(t) ==
    /\ AtCall(pc[t]) => lease[t] # None /\ context[t] = None
    /\ AtLock(pc[t]) => lease[t] = None /\ context[t] = None
    /\ t \notin Children =>
          ~Absent(pc[t]) /\ (AtCall(pc[t]) \/ AtLock(pc[t]) \/ lease[t] = context[t])
    /\ t \in Children =>
          /\ lease[t] = None /\ ~AtCall(pc[t]) /\ ~AtLock(pc[t])
          /\ Absent(pc[t]) \/ context[t] # None

\* The depth a task reads is the number of its transactions, the one it begins
\* included; a child's is greater by those it was created in.
DepthOK(t) ==
    /\ AtExit(pc[t]) => Levels(t) >= 1
    /\ t \notin Children =>
          /\ AtBegin(pc[t]) => depth[t] = Levels(t) + 1
          /\ ~AtBegin(pc[t]) /\ ~AtEnd(pc[t]) => depth[t] = Levels(t)
          /\ ~AtEnd(pc[t]) => (context[t] = None <=> depth[t] = 0)
    /\ t \in Children =>
          /\ Absent(pc[t]) => Levels(t) = 0
          /\ ~Absent(pc[t]) => depth[t] > Levels(t)
          /\ AtBegin(pc[t]) => depth[t] > Levels(t) + 1

TaskOK(t) == HandOK(t) /\ DepthOK(t)

\* Who holds or waits for the lock is waiting for a connection.
InLine ==
    /\ queue \in Seq(Tasks) /\ Once(queue)
    /\ \A t \in Tasks : /\ In(t, queue) => AtLock(pc[t]) /\ holder # t
                        /\ holder = t => AtLock(pc[t])

TasksInv == TasksTypeOK /\ InLine /\ \A t \in Tasks : TaskOK(t)

\* A transaction is open on a connection only while the task that acquired it
\* is inside of it, or has ended in its BEGIN.
Inside(t) == Levels(t) > 0 \/ AtEnd(pc[t])

OpenIsHeld ==
    /\ DOMAIN frames = Conns
    /\ \A c \in Conns : frames[c] # <<>> /\ c \notin dirty =>
          \E t \in Tasks : lease[t] = c /\ Inside(t)

Inv == PoolInv /\ TasksInv /\ OpenIsHeld

-----------------------------------------------------------------------------
(* One task moves *)

\* The step is of one task: all others keep what they have.
OthersKeep(t) ==
    \A u \in Tasks : u # t =>
        /\ pc'[u] = pc[u] /\ context'[u] = context[u] /\ depth'[u] = depth[u]
        /\ expected'[u] = expected[u] /\ lease'[u] = lease[u]

LEMMA OneTaskMoves ==
  ASSUME TasksInv, NEW t \in Tasks, OthersKeep(t), TaskOK(t)', TasksTypeOK', InLine'
  PROVE  TasksInv'
  <1>1. ASSUME NEW u \in Tasks, u # t PROVE TaskOK(u)'
    BY <1>1 DEF OthersKeep, TasksInv, TaskOK, HandOK, DepthOK, Levels
  <1>2. QED
    BY <1>1 DEF TasksInv

\* A step that leaves the lock and its queue alone, or gives the lock up, by a
\* task that was not waiting.
LEMMA LineStays ==
  ASSUME TasksInv, NEW t \in Tasks, OthersKeep(t), queue' = queue, holder' = holder,
         ~AtLock(pc[t]) \/ AtLock(pc'[t])
  PROVE  InLine'
  BY DEF OthersKeep, TasksInv, InLine

\* What makes OpenIsHeld true after a step of task t.
LEMMA HeldStays ==
  ASSUME Inv, NEW t \in Tasks, OthersKeep(t), DOMAIN frames' = Conns,
         \A c \in Conns : frames'[c] # <<>> /\ c \notin dirty' =>
            \/ lease'[t] = c /\ Inside(t)'
            \/ frames[c] # <<>> /\ c \notin dirty /\ ~(lease[t] = c /\ Inside(t))
  PROVE  OpenIsHeld'
  <1> SUFFICES ASSUME NEW c \in Conns, frames'[c] # <<>>, c \notin dirty'
               PROVE  \E u \in Tasks : lease'[u] = c /\ Inside(u)'
    BY DEF OpenIsHeld
  <1>1. CASE lease'[t] = c /\ Inside(t)'
    BY <1>1
  <1>2. CASE frames[c] # <<>> /\ c \notin dirty /\ ~(lease[t] = c /\ Inside(t))
    <2>1. PICK u \in Tasks : lease[u] = c /\ Inside(u)
      BY <1>2 DEF Inv, OpenIsHeld
    <2>2. u # t
      BY <1>2, <2>1
    <2>3. lease'[u] = c /\ Inside(u)'
      BY <2>1, <2>2 DEF OthersKeep, Inside, Levels
    <2>4. QED
      BY <2>3
  <1>3. QED
    BY <1>1, <1>2

LEMMA Moves ==
  ASSUME TasksTypeOK, NEW t \in Tasks, NEW where \in Place, Becomes(t, where)
  PROVE  /\ pc' \in [Tasks -> Place] /\ pc'[t] = where
         /\ \A u \in Tasks : u # t => pc'[u] = pc[u]
  BY DEF TasksTypeOK, Becomes

\* What each place is called.
LEMMA PlaceNames ==
  /\ InBody("body") /\ AtCall("calling") /\ AtBegin("beginning") /\ AtEnd("finished")
  /\ AtExit("committing") /\ AtExit("rolling back")
  /\ AtLock("queued for a call") /\ AtLock("queued for a transaction")
  /\ "body" \in Place /\ "calling" \in Place /\ "beginning" \in Place /\ "finished" \in Place
  /\ "committing" \in Place /\ "rolling back" \in Place
  /\ "queued for a call" \in Place /\ "queued for a transaction" \in Place
  BY DEF InBody, AtCall, AtBegin, AtEnd, AtExit, AtLock, Place

\* The levels of a task: one more, one less, and a write more in the last.
LEMMA LevelAdded ==
  ASSUME NEW e \in Seq(SUBSET Write)
  PROVE  Append(e, {}) \in Seq(SUBSET Write) /\ Len(Append(e, {})) = Len(e) + 1
  BY AppendProperties

LEMMA LevelDropped ==
  ASSUME NEW e \in Seq(SUBSET Write), Len(e) >= 1
  PROVE  /\ SubSeq(e, 1, Len(e) - 1) \in Seq(SUBSET Write)
         /\ Len(SubSeq(e, 1, Len(e) - 1)) = Len(e) - 1
         /\ \A m \in 1..Len(e) - 1 : SubSeq(e, 1, Len(e) - 1)[m] = e[m]
  <1> DEFINE n == Len(e) - 1
             outer == SubSeq(e, 1, n)
  <1>1. n \in Nat /\ \A i \in 1..n : e[i] \in SUBSET Write
    BY LenProperties, ElementOfSeq
  <1> HIDE DEF n
  <1>2. /\ outer \in Seq(SUBSET Write) /\ Len(outer) = IF 1 <= n THEN n - 1 + 1 ELSE 0
        /\ \A m \in 1..n - 1 + 1 : outer[m] = e[1 + m - 1]
    BY <1>1, SubSeqProperties
  <1> HIDE DEF outer
  <1>3. /\ outer \in Seq(SUBSET Write) /\ Len(outer) = n
        /\ \A m \in 1..n : outer[m] = e[m]
    BY <1>1, <1>2
  <1>4. QED
    BY <1>3 DEF outer, n

LEMMA LevelWritten ==
  ASSUME NEW S, NEW e \in Seq(S), NEW i \in 1..Len(e), NEW w \in S
  PROVE  [e EXCEPT ![i] = w] \in Seq(S) /\ Len([e EXCEPT ![i] = w]) = Len(e)
  BY ExceptSeq

LEMMA Lengths ==
  \A e \in Seq(SUBSET Write) : Len(e) \in Nat /\ (e = <<>> <=> Len(e) = 0)
  BY EmptySeq, LenProperties

\* What the commands do to the connections' transactions: only a BEGIN starts
\* one, and the outermost COMMIT and ROLLBACK end it.
NoneOpened ==
    /\ DOMAIN frames' = Conns
    /\ \A c \in Conns : frames'[c] # <<>> => frames[c] # <<>>

LEMMA ExecutesOpensNone ==
  ASSUME DOMAIN frames = Conns, NEW c \in Conns, NEW w, Executes(c, w)
  PROVE  NoneOpened
  BY DEF Executes, NoneOpened

LEMMA ServerKeeps ==
  ASSUME DOMAIN frames = Conns, UNCHANGED serverVars
  PROVE  NoneOpened
  BY DEF serverVars, NoneOpened

LEMMA BeginsOpens ==
  ASSUME DOMAIN frames = Conns, NEW c \in Conns, NEW d \in Nat, Begins(c, d)
  PROVE  /\ DOMAIN frames' = Conns
         /\ \A b \in Conns : b # c => frames'[b] = frames[b]
         /\ d # 0 => NoneOpened
  BY DEF Begins, SqlBegin, SqlSavepoint, NoneOpened

LEMMA CommitsEnds ==
  ASSUME DOMAIN frames = Conns, NEW c \in Conns, NEW d \in Nat, Commits(c, d)
  PROVE  NoneOpened /\ (d = 0 => frames'[c] = <<>>)
  <1>1. CASE d = 0
    BY <1>1 DEF Commits, SqlCommit, NoneOpened
  <1>2. CASE d # 0
    <2>1. frames[c] # <<>>
      BY <1>2 DEF Commits, SqlRelease, Savepoints
    <2>2. \E f : frames' = [frames EXCEPT ![c] = f]
      BY <1>2 DEF Commits, SqlRelease
    <2>3. QED
      BY <1>2, <2>1, <2>2 DEF NoneOpened
  <1>3. QED
    BY <1>1, <1>2

LEMMA RollsBackEnds ==
  ASSUME DOMAIN frames = Conns, NEW c \in Conns, NEW d \in Nat, RollsBack(c, d)
  PROVE  NoneOpened /\ (d = 0 => frames'[c] = <<>>)
  <1>1. CASE d = 0
    BY <1>1 DEF RollsBack, SqlRollback, NoneOpened
  <1>2. CASE d # 0
    <2>1. frames[c] # <<>>
      BY <1>2 DEF RollsBack, SqlRollbackTo, Savepoints
    <2>2. \E f : frames' = [frames EXCEPT ![c] = f]
      BY <1>2 DEF RollsBack, SqlRollbackTo
    <2>3. QED
      BY <1>2, <2>1, <2>2 DEF NoneOpened
  <1>3. QED
    BY <1>1, <1>2

\* Leaving a transaction: the task that acquired the connection gives it back
\* with the outermost one, and only then.
LEMMA LeavesMoves ==
  ASSUME Inv, NEW t \in Tasks, AtBegin(pc[t]) \/ AtExit(pc[t]), Leaves(t)
  PROVE  /\ PoolInv' /\ queue' = queue /\ holder' = holder
         /\ depth' \in [Tasks -> Nat] /\ depth[t] >= 1 /\ depth'[t] = depth[t] - 1
         /\ context' \in [Tasks -> Conns \union {None}]
         /\ \A u \in Tasks : u # t =>
               depth'[u] = depth[u] /\ context'[u] = context[u] /\ lease'[u] = lease[u]
         /\ t \notin Children /\ depth[t] = 1 => lease'[t] = None /\ context'[t] = None
         /\ t \in Children \/ depth[t] # 1 =>
               lease'[t] = lease[t] /\ context'[t] = context[t]
  <1>1. /\ depth \in [Tasks -> Nat] /\ depth[t] \in Nat /\ Levels(t) \in Nat
        /\ context \in [Tasks -> Conns \union {None}]
        /\ lease \in [Tasks -> Conns \union {None}]
    BY Lengths DEF Inv, PoolInv, Custody, TasksInv, TasksTypeOK, Levels
  <1>2. HandOK(t) /\ DepthOK(t)
    BY DEF Inv, TasksInv, TaskOK
  <1>3. depth[t] >= 1
    BY <1>1, <1>2, Places DEF DepthOK
  <1>4. /\ depth' \in [Tasks -> Nat] /\ depth'[t] = depth[t] - 1
        /\ \A u \in Tasks : u # t => depth'[u] = depth[u]
    BY <1>1, <1>3 DEF Leaves
  <1>5. Owns(t) <=> t \notin Children /\ depth[t] = 1
    <2>1. Owns(t) <=> lease[t] # None /\ depth[t] = 1
      BY <1>1 DEF Owns, Level
    <2>2. t \in Children => lease[t] = None
      BY <1>2 DEF HandOK
    <2>3. t \notin Children /\ depth[t] = 1 => lease[t] # None
      BY <1>1, <1>2, Places DEF HandOK, DepthOK
    <2>4. QED
      BY <2>1, <2>2, <2>3
  <1>6. CASE Owns(t)
    <2>1. Release(t) /\ context' = [context EXCEPT ![t] = None]
      BY <1>6 DEF Leaves
    <2>2. PoolInv'
      BY <1>6, <2>1, ReleasedKeeps DEF Inv, Owns
    <2>3. lease' = [lease EXCEPT ![t] = None] /\ queue' = queue /\ holder' = holder
      BY <2>1 DEF Release
    <2>4. QED
      BY <1>1, <1>3, <1>4, <1>5, <1>6, <2>1, <2>2, <2>3
  <1>7. CASE ~Owns(t)
    <2>1. UNCHANGED <<poolVars, context>>
      BY <1>7 DEF Leaves
    <2>2. PoolInv' /\ queue' = queue /\ holder' = holder /\ lease' = lease
      BY <2>1, PoolStays DEF Inv, poolVars
    <2>3. QED
      BY <1>1, <1>3, <1>4, <1>5, <1>7, <2>1, <2>2
  <1>8. QED
    BY <1>6, <1>7

-----------------------------------------------------------------------------
(* Single calls and the acquiring of connections *)

\* The types of what task t has.
LEMMA TaskTypes ==
  ASSUME Inv, NEW t \in Tasks
  PROVE  /\ TasksTypeOK /\ HandOK(t) /\ DepthOK(t) /\ InLine
         /\ lease \in [Tasks -> Conns \union {None}]
         /\ lease[t] \in Conns \union {None} /\ context[t] \in Conns \union {None}
         /\ depth[t] \in Nat /\ Levels(t) \in Nat /\ expected[t] \in Seq(SUBSET Write)
         /\ expected[t] = <<>> <=> Levels(t) = 0
         /\ DOMAIN frames = Conns
  BY Lengths DEF Inv, PoolInv, Custody, TasksInv, TasksTypeOK, TaskOK, Levels, OpenIsHeld

\* What follows when the step changes only where t is and what it has leased.
LEMMA OnlyHand ==
  ASSUME TasksTypeOK, NEW t \in Tasks, NEW p \in Place, Becomes(t, p),
         \A u \in Tasks : u # t => lease'[u] = lease[u],
         UNCHANGED <<context, depth, expected>>
  PROVE  OthersKeep(t) /\ TasksTypeOK' /\ Levels(t)' = Levels(t)
  BY Moves DEF OthersKeep, TasksTypeOK, Levels

\* A task that asked for a connection has it: it calls, or begins.
LEMMA ProceedsKeeps ==
  ASSUME Inv, NEW t \in Tasks, NEW goal \in Goals, Proceeds(t, goal),
         NEW c \in Conns, lease' = [lease EXCEPT ![t] = c],
         (InBody(pc[t]) /\ context[t] = None) \/ AtLock(pc[t]),
         UNCHANGED <<expected, frames, dirty>>
  PROVE  OthersKeep(t) /\ TasksTypeOK' /\ TaskOK(t)' /\ OpenIsHeld' /\ ~AtLock(pc'[t])
  <1>1. /\ lease'[t] = c /\ c # None /\ \A u \in Tasks : u # t => lease'[u] = lease[u]
        /\ ~AtEnd(pc[t]) /\ ~AtBegin(pc[t]) /\ ~Absent(pc[t])
    BY TaskTypes, Places, ConnNumbers
  <1>2. /\ t \notin Children /\ context[t] = None /\ lease[t] = None
        /\ depth[t] = 0 /\ Levels(t) = 0
    BY <1>1, TaskTypes, Places DEF HandOK, DepthOK
  <1>3. /\ OthersKeep(t) /\ TasksTypeOK' /\ Levels(t)' = 0 /\ TaskOK(t)' /\ ~AtEnd(pc'[t])
        /\ ~AtLock(pc'[t])
    <2>1. CASE goal = "call"
      <3>1. Becomes(t, "calling") /\ UNCHANGED <<context, depth>>
        BY <2>1 DEF Proceeds
      <3>2. AtCall(pc'[t])
        BY <3>1, Moves, PlaceNames, TaskTypes
      <3>3. OthersKeep(t) /\ TasksTypeOK' /\ Levels(t)' = 0
        BY <1>1, <1>2, <3>1, OnlyHand, PlaceNames, TaskTypes
      <3>4. TaskOK(t)'
        BY <1>1, <1>2, <3>1, <3>2, <3>3, Places DEF TaskOK, HandOK, DepthOK
      <3>5. QED
        BY <3>2, <3>3, <3>4, Places
    <2>2. CASE goal # "call"
      <3>1. /\ Becomes(t, "beginning") /\ context' = [context EXCEPT ![t] = lease'[t]]
            /\ depth' = [depth EXCEPT ![t] = @ + 1]
        BY <2>2 DEF Proceeds
      <3>2. /\ AtBegin(pc'[t]) /\ pc' \in [Tasks -> Place]
            /\ \A u \in Tasks : u # t => pc'[u] = pc[u]
        BY <3>1, Moves, PlaceNames, TaskTypes
      <3>3. /\ context' \in [Tasks -> Conns \union {None}] /\ context'[t] = c
            /\ \A u \in Tasks : u # t => context'[u] = context[u]
        BY <3>1, <1>1, TaskTypes DEF TasksTypeOK
      <3>4. /\ depth' \in [Tasks -> Nat] /\ depth'[t] = 1
            /\ \A u \in Tasks : u # t => depth'[u] = depth[u]
        BY <3>1, <1>2, TaskTypes DEF TasksTypeOK
      <3>5. OthersKeep(t) /\ TasksTypeOK' /\ Levels(t)' = 0
        BY <1>1, <1>2, <3>2, <3>3, <3>4, TaskTypes DEF OthersKeep, TasksTypeOK, Levels
      <3>6. TaskOK(t)'
        BY <1>1, <1>2, <3>2, <3>3, <3>4, <3>5, Places DEF TaskOK, HandOK, DepthOK
      <3>7. QED
        BY <3>2, <3>5, <3>6, Places
    <2>3. QED
      BY <2>1, <2>2
  <1>4. OpenIsHeld'
    <2>1. ~Inside(t) /\ frames' = frames /\ dirty' = dirty /\ DOMAIN frames = Conns
      BY <1>1, <1>2, TaskTypes DEF Inside
    <2>2. QED
      BY <1>3, <2>1, HeldStays
  <1>5. QED
    BY <1>3, <1>4

LEMMA AcquireKeeps ==
  ASSUME Inv, NEW t \in Tasks, NEW goal \in Goals, Acquire(t, goal)
  PROVE  Inv'
  <1>1. InBody(pc[t]) /\ context[t] = None /\ UNCHANGED <<expected, frames, dirty>>
    BY DEF Acquire, InBody, serverVars, reportVars
  <1>2. lease[t] = None /\ t \notin Children /\ depth[t] = 0 /\ Levels(t) = 0
    BY <1>1, TaskTypes, Places DEF HandOK, DepthOK
  <1>3. ~In(t, queue) /\ holder # t
    <2>1. InLine
      BY TaskTypes
    <2>2. QED
      BY <1>1, <2>1, Places DEF InLine
  <1>4. CASE AcquireIdle(t) /\ Proceeds(t, goal)
    <2>1. PoolInv'
      BY <1>2, <1>4, AcquireIdleKeeps DEF Inv
    <2>2. Head(idle) \in Conns
      BY <1>4, HeadTaken DEF AcquireIdle, Inv, PoolInv, Custody
    <2>3. /\ lease' = [lease EXCEPT ![t] = Head(idle)] /\ queue' = queue /\ holder' = holder
      BY <1>4 DEF AcquireIdle
    <2>4. OthersKeep(t) /\ TasksTypeOK' /\ TaskOK(t)' /\ OpenIsHeld'
      BY <1>1, <1>4, <2>2, <2>3, ProceedsKeeps
    <2>5. InLine'
      BY <1>1, <2>3, <2>4, LineStays, Places DEF Inv
    <2>6. QED
      BY <2>1, <2>4, <2>5, OneTaskMoves DEF Inv
  <1>5. CASE AcquireQueues(t) /\ Becomes(t, QueuedFor(goal)) /\ UNCHANGED <<context, depth>>
    <2>1. PoolInv'
      BY <1>5, AcquireQueuesKeeps DEF Inv
    <2>2. lease' = lease /\ queue' = Append(queue, t) /\ holder' = holder
      BY <1>5 DEF AcquireQueues
    <2>3. QueuedFor(goal) \in Place /\ AtLock(QueuedFor(goal))
      BY DEF QueuedFor, Goals, Place, AtLock
    <2>4. AtLock(pc'[t])
      BY <1>5, <2>3, Moves, TaskTypes
    <2>5. OthersKeep(t) /\ TasksTypeOK' /\ Levels(t)' = 0
      BY <1>1, <1>2, <1>5, <2>2, <2>3, OnlyHand, TaskTypes
    <2>6. TaskOK(t)'
      BY <1>1, <1>2, <1>5, <2>2, <2>4, <2>5, Places DEF TaskOK, HandOK, DepthOK
    <2>7. /\ queue' \in Seq(Tasks) /\ Once(queue')
          /\ \A u : In(u, queue') <=> In(u, queue) \/ u = t
      BY <1>3, <2>2, Appended, TaskTypes DEF InLine
    <2>8. InLine'
      BY <1>3, <2>2, <2>4, <2>5, <2>7, TaskTypes DEF InLine, OthersKeep
    <2>9. OpenIsHeld'
      <3>1. ~Inside(t) /\ frames' = frames /\ dirty' = dirty /\ DOMAIN frames = Conns
        BY <1>1, <1>2, TaskTypes, Places DEF Inside
      <3>2. QED
        BY <2>5, <3>1, HeldStays
    <2>10. QED
      BY <2>1, <2>5, <2>6, <2>8, <2>9, OneTaskMoves DEF Inv
  <1>6. QED
    BY <1>4, <1>5 DEF Acquire

LEMMA WaitForLockKeeps ==
  ASSUME Inv, NEW t \in Tasks, WaitForLock(t)
  PROVE  Inv'
  <1>1. PoolInv'
    BY GetsLockKeeps DEF Inv, WaitForLock
  <1>2. /\ queue # <<>> /\ t = Head(queue) /\ queue' = Tail(queue) /\ holder' = t
        /\ UNCHANGED <<lease, pc, context, depth, expected, frames, dirty>>
    BY DEF WaitForLock, GetsLock, NextForLock, taskVars, serverVars, reportVars
  <1>3. /\ queue' \in Seq(Tasks) /\ Once(queue') /\ ~In(t, queue') /\ In(t, queue)
        /\ \A u : In(u, queue') => In(u, queue)
    BY <1>2, HeadTaken, TaskTypes DEF InLine
  <1>4. InLine'
    <2>1. InLine
      BY TaskTypes
    <2>2. QED
      BY <1>2, <1>3, <2>1 DEF InLine
  <1>5. OthersKeep(t) /\ TasksTypeOK' /\ TaskOK(t)'
    BY <1>2, TaskTypes DEF OthersKeep, TasksTypeOK, TaskOK, HandOK, DepthOK, Levels
  <1>6. OpenIsHeld'
    BY <1>2 DEF Inv, OpenIsHeld, Inside, Levels
  <1>7. QED
    BY <1>1, <1>4, <1>5, <1>6, OneTaskMoves DEF Inv

LEMMA AcquiredKeeps ==
  ASSUME Inv, NEW t \in Tasks, NEW goal \in Goals, Acquired(t, goal)
  PROVE  Inv'
  <1>1. AtLock(pc[t]) /\ Proceeds(t, goal) /\ UNCHANGED <<expected, frames, dirty>>
    BY DEF Acquired, QueuedFor, AtLock, serverVars, reportVars
  <1>2. lease[t] = None
    BY <1>1, TaskTypes DEF HandOK
  <1>3. PoolInv'
    BY <1>2, ConnectsKeeps, GetsKeeps DEF Inv, Acquired
  <1>4. holder = t /\ holder' = None /\ queue' = queue
    BY DEF Acquired, Connects, Gets
  <1>5. PICK c \in Conns : lease' = [lease EXCEPT ![t] = c]
    <2>1. CASE Connects(t)
      <3>1. opened' \in Conns
        BY <2>1, ConnNumbers DEF Connects, Opens, Inv, PoolInv, Custody, Conns
      <3>2. QED
        BY <2>1, <3>1 DEF Connects
    <2>2. CASE Gets(t)
      <3>1. Head(idle) \in Conns
        BY <2>2, HeadTaken DEF Gets, Inv, PoolInv, Custody
      <3>2. QED
        BY <2>2, <3>1 DEF Gets
    <2>3. QED
      BY <2>1, <2>2 DEF Acquired
  <1>6. OthersKeep(t) /\ TasksTypeOK' /\ TaskOK(t)' /\ OpenIsHeld'
    BY <1>1, <1>5, ProceedsKeeps
  <1>7. InLine'
    BY <1>4, <1>6, TaskTypes, Actors DEF InLine, OthersKeep
  <1>8. QED
    BY <1>3, <1>6, <1>7, OneTaskMoves DEF Inv

LEMMA NotAcquiredKeeps ==
  ASSUME Inv, NEW t \in Tasks, NotAcquired(t)
  PROVE  Inv'
  <1>1. /\ AcquireFails(t) /\ Becomes(t, "body")
        /\ UNCHANGED <<context, depth, expected, frames, dirty>>
    BY DEF NotAcquired, serverVars, reportVars
  <1>2. lease' = lease
    BY <1>1 DEF AcquireFails
  <1>3. /\ In(t, queue) \/ holder = t
        /\ queue' \in Seq(Tasks) /\ Once(queue') /\ ~In(t, queue') /\ holder' # t
        /\ \A u : In(u, queue') => In(u, queue)
        /\ \A u \in Tasks : holder' = u => holder = u
    <2>0. InLine
      BY TaskTypes
    <2>1. CASE holder = t /\ holder' = None /\ UNCHANGED queue
      BY <2>0, <2>1, Actors DEF InLine
    <2>2. CASE /\ \E i \in DOMAIN queue : queue[i] = t /\ queue' = RemoveAt(queue, i)
               /\ UNCHANGED holder
      <3>1. PICK i \in 1..Len(queue) : queue[i] = t /\ queue' = RemoveAt(queue, i)
        BY <2>0, <2>2, LenProperties DEF InLine
      <3>2. In(t, queue)
        BY <3>1 DEF In
      <3>3. QED
        BY <2>0, <2>2, <3>1, <3>2, TakenOut DEF InLine
    <2>3. QED
      BY <1>1, <2>1, <2>2 DEF AcquireFails
  <1>4. AtLock(pc[t])
    <2>1. InLine
      BY TaskTypes
    <2>2. QED
      BY <1>3, <2>1 DEF InLine
  <1>5. /\ lease[t] = None /\ context[t] = None /\ t \notin Children
        /\ depth[t] = 0 /\ Levels(t) = 0
    BY <1>4, TaskTypes, Places DEF HandOK, DepthOK
  <1>6. PoolInv'
    BY <1>1, AcquireFailsKeeps DEF Inv
  <1>7. InBody(pc'[t])
    BY <1>1, Moves, PlaceNames, TaskTypes
  <1>8. OthersKeep(t) /\ TasksTypeOK' /\ Levels(t)' = 0
    BY <1>1, <1>2, <1>5, OnlyHand, PlaceNames, TaskTypes
  <1>9. TaskOK(t)'
    BY <1>1, <1>2, <1>5, <1>7, <1>8, Places DEF TaskOK, HandOK, DepthOK
  <1>10. InLine'
    <2>1. InLine
      BY TaskTypes
    <2>2. QED
      BY <1>3, <1>8, <2>1 DEF InLine, OthersKeep
  <1>11. OpenIsHeld'
    <2>1. ~Inside(t) /\ frames' = frames /\ dirty' = dirty /\ DOMAIN frames = Conns
      BY <1>1, <1>4, <1>5, TaskTypes, Places DEF Inside
    <2>2. QED
      BY <1>8, <2>1, HeldStays
  <1>12. QED
    BY <1>6, <1>8, <1>9, <1>10, <1>11, OneTaskMoves DEF Inv

LEMMA CallKeeps ==
  ASSUME Inv, NEW t \in Tasks, CallReturns(t) \/ CallFails(t)
  PROVE  Inv'
  <1>1. /\ AtCall(pc[t]) /\ Release(t) /\ Becomes(t, "body")
        /\ UNCHANGED <<context, depth, expected, dirty>>
    BY DEF CallReturns, CallFails, AtCall, reportVars
  <1>2. /\ lease[t] # None /\ lease[t] \in Conns /\ context[t] = None /\ t \notin Children
        /\ depth[t] = 0 /\ Levels(t) = 0 /\ ~AtEnd(pc[t])
    BY <1>1, TaskTypes, Places DEF HandOK, DepthOK
  <1>3. PoolInv'
    BY <1>1, <1>2, ReleasedKeeps DEF Inv
  <1>4. lease' = [lease EXCEPT ![t] = None] /\ queue' = queue /\ holder' = holder
    BY <1>1 DEF Release
  <1>5. lease'[t] = None /\ \A u \in Tasks : u # t => lease'[u] = lease[u]
    BY <1>4, TaskTypes
  <1>6. InBody(pc'[t])
    BY <1>1, Moves, PlaceNames, TaskTypes
  <1>7. OthersKeep(t) /\ TasksTypeOK' /\ Levels(t)' = 0
    BY <1>1, <1>2, <1>5, OnlyHand, PlaceNames, TaskTypes
  <1>8. TaskOK(t)'
    BY <1>1, <1>2, <1>5, <1>6, <1>7, Places DEF TaskOK, HandOK, DepthOK
  <1>9. InLine'
    BY <1>1, <1>4, <1>7, LineStays, Places DEF Inv
  <1>10. NoneOpened
    BY <1>2, TaskTypes, ExecutesOpensNone, ServerKeeps DEF CallReturns, CallFails
  <1>11. OpenIsHeld'
    BY <1>1, <1>2, <1>7, <1>10, HeldStays DEF Inside, NoneOpened
  <1>12. QED
    BY <1>3, <1>7, <1>8, <1>9, <1>11, OneTaskMoves DEF Inv

-----------------------------------------------------------------------------
(* Inside transactions *)

\* A step that leaves the pool and its line alone.
LEMMA PoolUntouched ==
  ASSUME Inv, UNCHANGED poolVars
  PROVE  PoolInv' /\ lease' = lease /\ queue' = queue /\ holder' = holder
  BY PoolStays DEF Inv, poolVars

\* The bounds' counters.
CountsTypeOK ==
    /\ DOMAIN uses = Tasks /\ \A t \in Tasks : uses[t] \in 0..MaxUses[t]
    /\ writes \in [Tasks -> 0..MaxWrites]
    /\ faults \in 0..MaxFaults

LEMMA StatementKeeps ==
  ASSUME Inv, CountsTypeOK, NEW t \in Tasks, Statement(t)
  PROVE  Inv'
  <1>1. /\ context[t] \in live /\ Executes(context[t], NextWrite(t)) /\ writes[t] < MaxWrites
        /\ UNCHANGED <<poolVars, pc, context, depth, dirty>>
    BY DEF Statement, CountsWrite, reportVars
  <1>2. PoolInv' /\ lease' = lease /\ queue' = queue /\ holder' = holder
    BY <1>1, PoolUntouched
  <1>3. expected' = expected \/ \E i \in 1..Len(expected[t]), e \in SUBSET Write :
           Levels(t) > 0 /\ expected' = [expected EXCEPT ![t] = [@ EXCEPT ![i] = e]]
    <2>1. CASE expected[t] = <<>>
      BY <2>1 DEF Statement
    <2>2. CASE expected[t] # <<>>
      <3> DEFINE i == Len(expected[t])
                 e == expected[t][i] \union {NextWrite(t)}
      <3>1. i \in 1..Len(expected[t]) /\ Levels(t) > 0
        BY <2>2, TaskTypes DEF Levels
      <3>2. expected[t][i] \in SUBSET Write
        BY <3>1, TaskTypes, ElementOfSeq
      <3>3. NextWrite(t) \in Write
        <4>1. writes[t] + 1 \in 1..MaxWrites
          BY <1>1, TransactionAssumption DEF CountsTypeOK
        <4>2. QED
          BY <4>1 DEF NextWrite, Write
      <3>4. expected' = [expected EXCEPT ![t] = [@ EXCEPT ![i] = e]]
        BY <2>2 DEF Statement
      <3>5. QED
        BY <3>1, <3>2, <3>3, <3>4
    <2>3. QED
      BY <2>1, <2>2
  <1>4. /\ expected' \in [Tasks -> Seq(SUBSET Write)] /\ Levels(t)' = Levels(t)
        /\ \A u \in Tasks : u # t => expected'[u] = expected[u]
    <2>1. expected \in [Tasks -> Seq(SUBSET Write)]
      BY TaskTypes DEF TasksTypeOK
    <2>2. CASE expected' = expected
      BY <2>1, <2>2 DEF Levels
    <2>3. ASSUME NEW i \in 1..Len(expected[t]), NEW e \in SUBSET Write,
                 expected' = [expected EXCEPT ![t] = [@ EXCEPT ![i] = e]]
          PROVE  /\ expected' \in [Tasks -> Seq(SUBSET Write)] /\ Levels(t)' = Levels(t)
                 /\ \A u \in Tasks : u # t => expected'[u] = expected[u]
      <3> DEFINE new == [expected[t] EXCEPT ![i] = e]
      <3>1. new \in Seq(SUBSET Write) /\ Len(new) = Len(expected[t])
        BY <2>1, LevelWritten
      <3>2. expected' = [expected EXCEPT ![t] = new]
        BY <2>3
      <3> HIDE DEF new
      <3>3. QED
        BY <2>1, <3>1, <3>2 DEF Levels
    <2>4. QED
      BY <1>3, <2>2, <2>3
  <1>5. OthersKeep(t) /\ TasksTypeOK' /\ TaskOK(t)' /\ Inside(t)' = Inside(t)
    BY <1>1, <1>2, <1>4, TaskTypes DEF OthersKeep, TasksTypeOK, TaskOK, HandOK, DepthOK, Inside
  <1>6. InLine'
    BY <1>1, <1>2, <1>5 DEF Inv, TasksInv, InLine
  <1>7. NoneOpened
    BY <1>1, TaskTypes, ExecutesOpensNone DEF Inv, PoolInv, Custody
  <1>8. OpenIsHeld'
    BY <1>1, <1>2, <1>5, <1>7, HeldStays DEF NoneOpened
  <1>9. QED
    BY <1>2, <1>5, <1>6, <1>8, OneTaskMoves DEF Inv

\* A step in which only the task's place and depth change.
LEMMA NestKeeps ==
  ASSUME Inv, NEW t \in Tasks, Nest(t)
  PROVE  Inv'
  <1>1. /\ InBody(pc[t]) /\ context[t] # None /\ Becomes(t, "beginning")
        /\ depth' = [depth EXCEPT ![t] = @ + 1]
        /\ UNCHANGED <<poolVars, context, expected, frames, dirty>>
    BY DEF Nest, InBody, serverVars, reportVars
  <1>2. PoolInv' /\ lease' = lease /\ queue' = queue /\ holder' = holder
    BY <1>1, PoolUntouched
  <1>3. /\ AtBegin(pc'[t]) /\ pc' \in [Tasks -> Place]
        /\ \A u \in Tasks : u # t => pc'[u] = pc[u]
    BY <1>1, Moves, PlaceNames, TaskTypes
  <1>4. /\ depth' \in [Tasks -> Nat] /\ depth'[t] = depth[t] + 1
        /\ \A u \in Tasks : u # t => depth'[u] = depth[u]
    BY <1>1, TaskTypes DEF TasksTypeOK
  <1>5. OthersKeep(t) /\ TasksTypeOK' /\ Levels(t)' = Levels(t)
    BY <1>1, <1>2, <1>3, <1>4, TaskTypes DEF OthersKeep, TasksTypeOK, Levels
  <1>6. HandOK(t)'
    BY <1>1, <1>2, <1>3, TaskTypes, Places DEF HandOK
  <1>7. DepthOK(t)'
    BY <1>1, <1>3, <1>4, <1>5, TaskTypes, Places DEF DepthOK
  <1>8. InLine'
    BY <1>1, <1>2, <1>5, LineStays, Places DEF Inv
  <1>9. OpenIsHeld'
    <2>1. Inside(t)' = Inside(t) /\ DOMAIN frames = Conns
      BY <1>1, <1>3, <1>5, TaskTypes, Places DEF Inside
    <2>2. QED
      BY <1>1, <1>2, <1>5, <2>1, HeldStays
  <1>10. QED
    BY <1>2, <1>5, <1>6, <1>7, <1>8, <1>9, OneTaskMoves DEF Inv, TaskOK

LEMMA BeganKeeps ==
  ASSUME Inv, NEW t \in Tasks, Began(t)
  PROVE  Inv'
  <1>1. /\ AtBegin(pc[t]) /\ Becomes(t, "body") /\ context[t] \in live
        /\ Begins(context[t], Level(t))
        /\ expected' = [expected EXCEPT ![t] = Append(@, {})]
        /\ UNCHANGED <<poolVars, context, depth, dirty>>
    BY DEF Began, AtBegin, reportVars
  <1>2. PoolInv' /\ lease' = lease /\ queue' = queue /\ holder' = holder
    BY <1>1, PoolUntouched
  <1>3. /\ InBody(pc'[t]) /\ pc' \in [Tasks -> Place]
        /\ \A u \in Tasks : u # t => pc'[u] = pc[u]
    BY <1>1, Moves, PlaceNames, TaskTypes
  <1>4. /\ expected' \in [Tasks -> Seq(SUBSET Write)] /\ Levels(t)' = Levels(t) + 1
        /\ \A u \in Tasks : u # t => expected'[u] = expected[u]
    <2> DEFINE new == Append(expected[t], {})
    <2>1. new \in Seq(SUBSET Write) /\ Len(new) = Len(expected[t]) + 1
      BY TaskTypes, LevelAdded
    <2>2. expected \in [Tasks -> Seq(SUBSET Write)] /\ expected' = [expected EXCEPT ![t] = new]
      BY <1>1, TaskTypes DEF TasksTypeOK
    <2> HIDE DEF new
    <2>3. QED
      BY <2>1, <2>2 DEF Levels
  <1>5. OthersKeep(t) /\ TasksTypeOK'
    BY <1>1, <1>2, <1>3, <1>4, TaskTypes DEF OthersKeep, TasksTypeOK
  <1>6. HandOK(t)'
    BY <1>1, <1>2, <1>3, TaskTypes, Places DEF HandOK
  <1>7. DepthOK(t)'
    BY <1>1, <1>3, <1>4, TaskTypes, Places DEF DepthOK
  <1>8. InLine'
    BY <1>1, <1>2, <1>5, LineStays, Places DEF Inv
  <1>9. OpenIsHeld'
    <2>1. Inside(t)'
      BY <1>4, TaskTypes DEF Inside
    <2>2. context[t] \in Conns /\ context[t] # None
      BY <1>1, ConnNumbers DEF Inv, PoolInv, Custody
    <2>3. Level(t) \in Nat /\ (t \notin Children => lease[t] = context[t])
          /\ (t \in Children => Level(t) # 0)
      BY <1>1, TaskTypes, Places DEF DepthOK, HandOK, Level
    <2>4. /\ DOMAIN frames' = Conns
          /\ \A b \in Conns : b # context[t] => frames'[b] = frames[b]
          /\ Level(t) # 0 => NoneOpened
      BY <1>1, <2>2, <2>3, TaskTypes, BeginsOpens
    <2>5. QED
      BY <1>1, <1>2, <1>5, <2>1, <2>3, <2>4, HeldStays DEF NoneOpened
  <1>10. QED
    BY <1>2, <1>5, <1>6, <1>7, <1>8, <1>9, OneTaskMoves DEF Inv, TaskOK

LEMMA BeginRaisesKeeps ==
  ASSUME Inv, NEW t \in Tasks, BeginRaises(t)
  PROVE  Inv'
  <1>1. /\ AtBegin(pc[t]) /\ Becomes(t, "body") /\ Leaves(t)
        /\ UNCHANGED <<expected, frames, dirty>>
    BY DEF BeginRaises, AtBegin, serverVars, reportVars
  <1>2. /\ InBody(pc'[t]) /\ pc' \in [Tasks -> Place]
        /\ \A u \in Tasks : u # t => pc'[u] = pc[u]
    BY <1>1, Moves, PlaceNames, TaskTypes
  <1>3. PoolInv' /\ queue' = queue /\ holder' = holder
    BY <1>1, LeavesMoves
  <1>4. OthersKeep(t) /\ TasksTypeOK' /\ Levels(t)' = Levels(t)
    BY <1>1, <1>2, LeavesMoves, TaskTypes DEF OthersKeep, TasksTypeOK, Levels
  <1>5. /\ depth[t] >= 1 /\ depth'[t] = depth[t] - 1
        /\ t \notin Children /\ depth[t] = 1 => lease'[t] = None /\ context'[t] = None
        /\ t \in Children \/ depth[t] # 1 =>
               lease'[t] = lease[t] /\ context'[t] = context[t]
    BY <1>1, LeavesMoves
  <1>6. HandOK(t)'
    BY <1>1, <1>2, <1>5, TaskTypes, Places DEF HandOK
  <1>7. DepthOK(t)'
    BY <1>1, <1>2, <1>4, <1>5, TaskTypes, Places DEF DepthOK
  <1>8. InLine'
    BY <1>1, <1>3, <1>4, LineStays, Places DEF Inv
  <1>9. OpenIsHeld'
    <2>1. /\ DOMAIN frames = Conns /\ (Inside(t)' <=> Inside(t))
          /\ Inside(t) => t \in Children \/ depth[t] # 1
      BY <1>1, <1>2, <1>4, TaskTypes, Places DEF Inside, DepthOK
    <2>2. QED
      BY <1>1, <1>4, <1>5, <2>1, HeldStays
  <1>10. QED
    BY <1>3, <1>4, <1>6, <1>7, <1>8, <1>9, OneTaskMoves DEF Inv, TaskOK

LEMMA BeginCancelledKeeps ==
  ASSUME Inv, NEW t \in Tasks, BeginCancelled(t)
  PROVE  Inv'
  <1>1. /\ AtBegin(pc[t]) /\ context[t] \in live
        /\ Begins(context[t], Level(t)) \/ UNCHANGED serverVars
        /\ UNCHANGED <<poolVars, context, expected, dirty>>
    BY DEF BeginCancelled, AtBegin, reportVars
  <1>2. PoolInv' /\ lease' = lease /\ queue' = queue /\ holder' = holder
    BY <1>1, PoolUntouched
  <1>3. /\ pc' \in [Tasks -> Place] /\ \A u \in Tasks : u # t => pc'[u] = pc[u]
        /\ depth' \in [Tasks -> Nat] /\ \A u \in Tasks : u # t => depth'[u] = depth[u]
        /\ \/ Levels(t) = 0 /\ AtEnd(pc'[t]) /\ depth'[t] = depth[t]
           \/ Levels(t) > 0 /\ AtExit(pc'[t]) /\ depth'[t] = depth[t] - 1
    <2>1. CASE expected[t] = <<>>
      <3>1. Becomes(t, "finished") /\ depth' = depth
        BY <2>1 DEF BeginCancelled
      <3>2. /\ AtEnd(pc'[t]) /\ pc' \in [Tasks -> Place]
            /\ \A u \in Tasks : u # t => pc'[u] = pc[u]
        BY <3>1, Moves, PlaceNames, TaskTypes
      <3>3. QED
        BY <2>1, <3>1, <3>2, TaskTypes DEF TasksTypeOK
    <2>2. CASE expected[t] # <<>>
      <3>1. Becomes(t, "rolling back") /\ depth' = [depth EXCEPT ![t] = @ - 1]
        BY <2>2 DEF BeginCancelled
      <3>2. /\ AtExit(pc'[t]) /\ pc' \in [Tasks -> Place]
            /\ \A u \in Tasks : u # t => pc'[u] = pc[u]
        BY <3>1, Moves, PlaceNames, TaskTypes
      <3>3. depth[t] - 1 \in Nat /\ Levels(t) > 0
        BY <1>1, <2>2, TaskTypes, Places DEF DepthOK
      <3>4. /\ depth' \in [Tasks -> Nat] /\ depth'[t] = depth[t] - 1
            /\ \A u \in Tasks : u # t => depth'[u] = depth[u]
        BY <3>1, <3>3, TaskTypes DEF TasksTypeOK
      <3>5. QED
        BY <3>2, <3>3, <3>4
    <2>3. QED
      BY <2>1, <2>2
  <1>4. OthersKeep(t) /\ TasksTypeOK' /\ Levels(t)' = Levels(t)
    BY <1>1, <1>2, <1>3, TaskTypes DEF OthersKeep, TasksTypeOK, Levels
  <1>5. HandOK(t)'
    BY <1>1, <1>2, <1>3, TaskTypes, Places DEF HandOK
  <1>6. DepthOK(t)'
    BY <1>1, <1>3, <1>4, TaskTypes, Places DEF DepthOK
  <1>7. InLine'
    BY <1>1, <1>2, <1>4, LineStays, Places DEF Inv
  <1>8. OpenIsHeld'
    <2>1. Inside(t)'
      BY <1>3, <1>4 DEF Inside
    <2>2. context[t] \in Conns
      BY <1>1 DEF Inv, PoolInv, Custody
    <2>3. Level(t) \in Nat /\ (t \notin Children => lease[t] = context[t])
          /\ (t \in Children => Level(t) # 0)
      BY <1>1, TaskTypes, Places DEF DepthOK, HandOK, Level
    <2>4. /\ DOMAIN frames' = Conns
          /\ \A b \in Conns : b # context[t] => (frames'[b] # <<>> => frames[b] # <<>>)
          /\ Level(t) # 0 => NoneOpened
      BY <1>1, <2>2, <2>3, TaskTypes, BeginsOpens, ServerKeeps DEF NoneOpened
    <2>5. QED
      BY <1>1, <1>2, <1>4, <2>1, <2>3, <2>4, HeldStays DEF NoneOpened
  <1>9. QED
    BY <1>2, <1>4, <1>5, <1>6, <1>7, <1>8, OneTaskMoves DEF Inv, TaskOK

LEMMA ExitKeeps ==
  ASSUME Inv, NEW t \in Tasks, Exits(t)
  PROVE  Inv'
  <1>1. /\ InBody(pc[t]) /\ expected[t] # <<>>
        /\ Becomes(t, "committing") \/ Becomes(t, "rolling back")
        /\ UNCHANGED <<poolVars, context, depth, expected, frames, dirty>>
    BY DEF Exits, Exit, InBody, serverVars, reportVars
  <1>2. PoolInv' /\ lease' = lease /\ queue' = queue /\ holder' = holder
    BY <1>1, PoolUntouched
  <1>3. /\ AtExit(pc'[t]) /\ pc' \in [Tasks -> Place]
        /\ \A u \in Tasks : u # t => pc'[u] = pc[u]
    BY <1>1, Moves, PlaceNames, TaskTypes
  <1>4. OthersKeep(t) /\ TasksTypeOK' /\ Levels(t)' = Levels(t)
    BY <1>1, <1>2, <1>3, TaskTypes DEF OthersKeep, TasksTypeOK, Levels
  <1>5. HandOK(t)'
    BY <1>1, <1>2, <1>3, TaskTypes, Places DEF HandOK
  <1>6. DepthOK(t)'
    <2>1. Levels(t) >= 1 /\ Levels(t)' = Levels(t) /\ depth' = depth /\ context' = context
      <3>1. expected[t] # <<>> /\ depth' = depth /\ context' = context
        BY <1>1
      <3>2. QED
        BY <3>1, <1>4, TaskTypes
    <2>2. DepthOK(t) /\ ~AtBegin(pc[t]) /\ ~AtEnd(pc[t]) /\ ~Absent(pc[t])
      BY <1>1, TaskTypes, Places
    <2>3. ~AtBegin(pc'[t]) /\ ~AtEnd(pc'[t]) /\ ~Absent(pc'[t])
      BY <1>3, Places
    <2>4. QED
      BY <2>1, <2>2, <2>3 DEF DepthOK
  <1>7. InLine'
    BY <1>1, <1>2, <1>4, LineStays, Places DEF Inv
  <1>8. OpenIsHeld'
    <2>1. Inside(t)' = Inside(t) /\ DOMAIN frames = Conns
      BY <1>1, <1>3, <1>4, TaskTypes, Places DEF Inside
    <2>2. QED
      BY <1>1, <1>2, <1>4, <2>1, HeldStays
  <1>9. QED
    BY <1>2, <1>4, <1>5, <1>6, <1>7, <1>8, OneTaskMoves DEF Inv, TaskOK

\* A task leaves a transaction after a COMMIT or a ROLLBACK, with one level less.
\* If it was the outermost, it has ended on the server too, or is given up.
LEMMA ExitEnds ==
  ASSUME Inv, NEW t \in Tasks, AtExit(pc[t]), Leaves(t), Becomes(t, "body"),
         NEW e \in Seq(SUBSET Write), Len(e) = Len(expected[t]) - 1,
         expected' = [expected EXCEPT ![t] = e],
         NoneOpened, dirty \subseteq dirty',
         Level(t) = 0 /\ context[t] \in Conns =>
            frames'[context[t]] = <<>> \/ context[t] \in dirty'
  PROVE  Inv'
  <1>1. /\ InBody(pc'[t]) /\ pc' \in [Tasks -> Place]
        /\ \A u \in Tasks : u # t => pc'[u] = pc[u]
    BY Moves, PlaceNames, TaskTypes
  <1>2. PoolInv' /\ queue' = queue /\ holder' = holder
    BY LeavesMoves
  <1>3. /\ expected' \in [Tasks -> Seq(SUBSET Write)] /\ Levels(t)' = Levels(t) - 1
        /\ \A u \in Tasks : u # t => expected'[u] = expected[u]
    BY TaskTypes DEF TasksTypeOK, Levels
  <1>4. OthersKeep(t) /\ TasksTypeOK'
    BY <1>1, <1>3, LeavesMoves, TaskTypes DEF OthersKeep, TasksTypeOK
  <1>5. /\ depth[t] >= 1 /\ depth'[t] = depth[t] - 1
        /\ t \notin Children /\ depth[t] = 1 => lease'[t] = None /\ context'[t] = None
        /\ t \in Children \/ depth[t] # 1 =>
               lease'[t] = lease[t] /\ context'[t] = context[t]
    BY LeavesMoves
  <1>6. HandOK(t)'
    BY <1>1, <1>5, TaskTypes, Places DEF HandOK
  <1>7. DepthOK(t)'
    BY <1>1, <1>3, <1>5, TaskTypes, Places DEF DepthOK
  <1>8. InLine'
    BY <1>2, <1>4, LineStays, Places DEF Inv
  <1>9. OpenIsHeld'
    <2> SUFFICES ASSUME NEW c \in Conns, frames'[c] # <<>>, c \notin dirty'
                 PROVE  \/ lease'[t] = c /\ Inside(t)'
                        \/ frames[c] # <<>> /\ c \notin dirty /\ ~(lease[t] = c /\ Inside(t))
      BY <1>4, HeldStays DEF NoneOpened
    <2>1. frames[c] # <<>> /\ c \notin dirty
      BY DEF NoneOpened
    <2>2. ASSUME lease[t] = c PROVE lease'[t] = c /\ Inside(t)'
      <3>1. t \notin Children /\ context[t] = c /\ depth[t] = Levels(t)
        BY <2>2, TaskTypes, Places, ConnNumbers DEF HandOK, DepthOK
      <3>2. depth[t] # 1
        BY <3>1, TaskTypes DEF Level
      <3>3. lease'[t] = c /\ Levels(t)' > 0
        BY <1>3, <1>5, <2>2, <3>1, <3>2, TaskTypes
      <3>4. QED
        BY <3>3 DEF Inside
    <2>3. QED
      BY <2>1, <2>2
  <1>10. QED
    BY <1>2, <1>4, <1>6, <1>7, <1>8, <1>9, OneTaskMoves DEF Inv, TaskOK

\* The levels around the innermost one.
LEMMA OuterLevels ==
  ASSUME Inv, NEW t \in Tasks, AtExit(pc[t])
  PROVE  /\ Len(expected[t]) >= 1 /\ Len(expected[t]) \in Nat /\ Level(t) \in Nat
         /\ Outer(t) \in Seq(SUBSET Write) /\ Len(Outer(t)) = Len(expected[t]) - 1
         /\ Inner(t) \in SUBSET Write
         /\ \A m \in 1..Len(Outer(t)) : Outer(t)[m] = expected[t][m]
  <1>1. Levels(t) >= 1 /\ depth[t] \in Nat /\ depth[t] >= Levels(t)
    BY TaskTypes, Places DEF DepthOK
  <1>2. Len(expected[t]) >= 1 /\ Len(expected[t]) \in Nat /\ Level(t) \in Nat
    BY <1>1, TaskTypes DEF Levels, Level
  <1>3. Inner(t) \in SUBSET Write
    BY <1>2, TaskTypes, ElementOfSeq DEF Inner, Top
  <1>4. /\ Outer(t) \in Seq(SUBSET Write) /\ Len(Outer(t)) = Len(expected[t]) - 1
        /\ \A m \in 1..Len(Outer(t)) : Outer(t)[m] = expected[t][m]
    BY <1>2, TaskTypes, LevelDropped DEF Outer
  <1>5. QED
    BY <1>2, <1>3, <1>4

LEMMA CommitKeeps ==
  ASSUME Inv, NEW t \in Tasks, Commit(t)
  PROVE  Inv'
  <1>1. /\ AtExit(pc[t]) /\ Leaves(t) /\ Becomes(t, "body") /\ context[t] \in live
        /\ Commits(context[t], Level(t)) /\ dirty' = dirty
    BY DEF Commit, AtExit
  <1>2. context[t] \in Conns /\ Level(t) \in Nat
    BY <1>1, OuterLevels DEF Inv, PoolInv, Custody
  <1>3. NoneOpened /\ (Level(t) = 0 => frames'[context[t]] = <<>>)
    BY <1>1, <1>2, CommitsEnds, TaskTypes
  <1>4. PICK e \in Seq(SUBSET Write) :
           Len(e) = Len(expected[t]) - 1 /\ expected' = [expected EXCEPT ![t] = e]
    <2>1. CASE Outer(t) = <<>>
      <3>1. <<>> \in Seq(SUBSET Write) /\ Len(<<>>) = Len(expected[t]) - 1
        BY <1>1, <2>1, OuterLevels
      <3>2. expected' = [expected EXCEPT ![t] = <<>>]
        BY <2>1 DEF Commit
      <3>3. QED
        BY <3>1, <3>2
    <2>2. CASE Outer(t) # <<>>
      <3> DEFINE i == Len(Outer(t))
                 w == Outer(t)[i] \union Inner(t)
                 e == [Outer(t) EXCEPT ![i] = w]
      <3>1. i \in 1..Len(Outer(t))
        BY <1>1, <2>2, OuterLevels, Lengths
      <3>2. w \in SUBSET Write
        BY <1>1, <3>1, OuterLevels, ElementOfSeq
      <3>3. e \in Seq(SUBSET Write) /\ Len(e) = Len(Outer(t))
        <4> HIDE DEF w
        <4>1. QED
          BY <1>1, <3>1, <3>2, OuterLevels, LevelWritten
      <3>4. expected' = [expected EXCEPT ![t] = e]
        BY <2>2 DEF Commit
      <3> HIDE DEF e
      <3>5. QED
        BY <1>1, <3>3, <3>4, OuterLevels
    <2>3. QED
      BY <2>1, <2>2
  <1>5. QED
    BY <1>1, <1>3, <1>4, ExitEnds

LEMMA RollbackKeeps ==
  ASSUME Inv, NEW t \in Tasks, Rollback(t)
  PROVE  Inv'
  <1>1. /\ AtExit(pc[t]) /\ Leaves(t) /\ Becomes(t, "body") /\ context[t] \in live
        /\ RollsBack(context[t], Level(t)) /\ dirty' = dirty
        /\ expected' = [expected EXCEPT ![t] = Outer(t)]
    BY DEF Rollback, AtExit
  <1>2. context[t] \in Conns /\ Level(t) \in Nat
    BY <1>1, OuterLevels DEF Inv, PoolInv, Custody
  <1>3. NoneOpened /\ (Level(t) = 0 => frames'[context[t]] = <<>>)
    BY <1>1, <1>2, RollsBackEnds, TaskTypes
  <1>4. QED
    BY <1>1, <1>3, OuterLevels, ExitEnds

LEMMA ExitFailsKeeps ==
  ASSUME Inv, NEW t \in Tasks, ExitFails(t)
  PROVE  Inv'
  <1>1. /\ AtExit(pc[t]) /\ Leaves(t) /\ Becomes(t, "body")
        /\ dirty \subseteq dirty' /\ (Level(t) = 0 => context[t] \in dirty')
        /\ expected' = [expected EXCEPT ![t] = Outer(t)]
    BY DEF ExitFails, AtExit
  <1>2. NoneOpened
    <2>1. CASE CannotExit(t)
      BY <2>1, ServerKeeps, TaskTypes DEF ExitFails
    <2>2. CASE ~CannotExit(t)
      <3>1. context[t] \in Conns /\ Level(t) \in Nat
        BY <1>1, <2>2, OuterLevels DEF CannotExit, Inv, PoolInv, Custody
      <3>2. \/ UNCHANGED serverVars
            \/ Commits(context[t], Level(t))
            \/ RollsBack(context[t], Level(t))
        BY <2>2 DEF ExitFails
      <3>3. QED
        BY <3>1, <3>2, ServerKeeps, CommitsEnds, RollsBackEnds, TaskTypes
    <2>3. QED
      BY <2>1, <2>2
  <1>3. QED
    BY <1>1, <1>2, OuterLevels, ExitEnds

LEMMA SpawnKeeps ==
  ASSUME Inv, NEW child \in Children, Spawn(child)
  PROVE  Inv'
  <1> DEFINE t == Parent[child]
  <1>1. t \in Tasks /\ t \notin Children /\ child \in Tasks
    BY TransactionAssumption
  <1>2. /\ InBody(pc[t]) /\ context[t] # None /\ Absent(pc[child]) /\ Becomes(child, "body")
        /\ context' = [context EXCEPT ![child] = context[t]]
        /\ depth' = [depth EXCEPT ![child] = depth[t]]
        /\ UNCHANGED <<poolVars, expected, frames, dirty>>
    BY DEF Spawn, InBody, Absent, serverVars, reportVars
  <1> HIDE DEF t
  <1>3. PoolInv' /\ lease' = lease /\ queue' = queue /\ holder' = holder
    BY <1>2, PoolUntouched
  <1>4. /\ InBody(pc'[child]) /\ pc' \in [Tasks -> Place]
        /\ \A u \in Tasks : u # child => pc'[u] = pc[u]
    BY <1>1, <1>2, Moves, PlaceNames, TaskTypes
  <1>5. context[t] \in Conns \union {None} /\ depth[t] \in Nat /\ depth[t] > 0
    BY <1>1, <1>2, TaskTypes, Places DEF DepthOK
  <1>6. /\ context' \in [Tasks -> Conns \union {None}] /\ context'[child] # None
        /\ depth' \in [Tasks -> Nat] /\ depth'[child] > 0
        /\ \A u \in Tasks : u # child => context'[u] = context[u] /\ depth'[u] = depth[u]
    BY <1>1, <1>2, <1>5, TaskTypes DEF TasksTypeOK
  <1>7. OthersKeep(child) /\ TasksTypeOK' /\ Levels(child)' = Levels(child)
    BY <1>1, <1>2, <1>3, <1>4, <1>6, TaskTypes DEF OthersKeep, TasksTypeOK, Levels
  <1>8. HandOK(child)'
    BY <1>1, <1>3, <1>4, <1>6, TaskTypes, Places DEF HandOK
  <1>9. DepthOK(child)'
    BY <1>1, <1>2, <1>4, <1>6, <1>7, TaskTypes, Places DEF DepthOK
  <1>10. ~AtLock(pc[child]) /\ ~Inside(child)
    BY <1>1, <1>2, TaskTypes DEF HandOK, DepthOK, Inside, Absent, AtEnd
  <1>11. InLine'
    BY <1>1, <1>3, <1>7, <1>10, LineStays DEF Inv
  <1>12. OpenIsHeld'
    <2>1. DOMAIN frames = Conns
      BY <1>1, TaskTypes
    <2>2. QED
      BY <1>1, <1>2, <1>7, <1>10, <2>1, HeldStays
  <1>13. QED
    BY <1>1, <1>3, <1>7, <1>8, <1>9, <1>11, <1>12, OneTaskMoves DEF Inv, TaskOK

-----------------------------------------------------------------------------
(* The specification *)

\* A step of no task that does not move the leases, and gives no one the lock.
LEMMA NoTaskMoves ==
  ASSUME TasksInv, OpenIsHeld, UNCHANGED <<pc, context, depth, expected, lease, frames, dirty, queue>>,
         holder' = holder \/ holder' \notin Tasks
  PROVE  TasksInv' /\ OpenIsHeld'
  <1>1. TasksTypeOK' /\ InLine'
    BY DEF TasksInv, TasksTypeOK, InLine
  <1>2. \A t \in Tasks : TaskOK(t)'
    BY DEF TasksInv, TaskOK, HandOK, DepthOK, Levels
  <1>3. OpenIsHeld'
    BY DEF OpenIsHeld, Inside, Levels
  <1>4. QED
    BY <1>1, <1>2, <1>3 DEF TasksInv

LEMMA PoolStepsKeep ==
  ASSUME Inv, PoolStep \/ ClosePool
  PROVE  Inv'
  <1>1. PoolInv'
    BY PoolStepKeeps DEF Inv
  <1>2. /\ UNCHANGED <<pc, context, depth, expected, lease, frames, dirty, queue>>
        /\ holder' = holder \/ holder' \in {None, Starter}
    <2>1. UNCHANGED <<pc, context, depth, expected, frames, dirty>>
      BY DEF PoolStep, ClosePool, taskVars, serverVars, reportVars
    <2>2. UNCHANGED <<lease, queue>> /\ (holder' = holder \/ holder' \in {None, Starter})
      BY DEF PoolStep, ClosePool, InitializeConnects, InitializeFails, DrainOne, DrainEnds, Close
    <2>3. QED
      BY <2>1, <2>2
  <1>3. holder' = holder \/ holder' \notin Tasks
    BY <1>2, Actors
  <1>4. QED
    BY <1>1, <1>2, <1>3, NoTaskMoves DEF Inv

LEMMA StutterKeeps ==
  ASSUME Inv, UNCHANGED vars
  PROVE  Inv'
  BY NoTaskMoves, PoolStays DEF Inv, vars, poolVars, taskVars, serverVars, reportVars

LEMMA InvInit == Init => Inv
  <1> SUFFICES ASSUME Init PROVE Inv
    OBVIOUS
  <1>1. PoolInit /\ PoolInv
    BY PoolStarts DEF Init
  <1>2. /\ queue = <<>> /\ (holder = None \/ holder = Starter) /\ lease = [t \in Tasks |-> None]
    BY <1>1 DEF PoolInit
  <1>3. /\ context = [t \in Tasks |-> None] /\ depth = [t \in Tasks |-> 0]
        /\ expected = [t \in Tasks |-> <<>>] /\ frames = [c \in Conns |-> <<>>] /\ dirty = {}
    BY DEF Init
  <1>4. pc \in [Tasks -> Place]
    BY DEF Init, Place
  <1>5. \A t \in Tasks : (t \in Children => Absent(pc[t])) /\ (t \notin Children => InBody(pc[t]))
    BY DEF Init, Absent, InBody
  <1>6. \A t \in Tasks : Absent(pc[t]) =>
           ~AtCall(pc[t]) /\ ~AtLock(pc[t]) /\ ~AtBegin(pc[t]) /\ ~AtExit(pc[t]) /\ ~AtEnd(pc[t])
    BY DEF Absent, AtCall, AtLock, AtBegin, AtExit, AtEnd
  <1>7. <<>> \in Seq(SUBSET Write) /\ Len(<<>>) = 0 /\ <<>> \in Seq(Tasks)
    BY EmptySeq
  <1>8. TasksTypeOK
    BY <1>3, <1>4, <1>7 DEF TasksTypeOK
  <1>9. InLine
    BY <1>2, <1>7, Actors DEF InLine, Once, In
  <1>10. \A t \in Tasks : Levels(t) = 0
    BY <1>3, <1>7 DEF Levels
  <1>11. \A t \in Tasks : HandOK(t)
    BY <1>2, <1>3, <1>5, <1>6, Places DEF HandOK
  <1>12. \A t \in Tasks : DepthOK(t)
    BY <1>3, <1>5, <1>6, <1>10, Places DEF DepthOK
  <1>13. OpenIsHeld
    BY <1>3 DEF OpenIsHeld
  <1>14. QED
    BY <1>1, <1>8, <1>9, <1>11, <1>12, <1>13 DEF Inv, TasksInv, TaskOK


LEMMA InvNext ==
  ASSUME Inv, CountsTypeOK, [Next]_vars
  PROVE  Inv'
  <1>1. ASSUME NEW t \in Tasks, NEW goal \in Goals, Acquire(t, goal) PROVE Inv'
    BY <1>1, AcquireKeeps
  <1>2. ASSUME NEW t \in Tasks, NotAcquired(t) \/ Statement(t) \/ Nest(t) PROVE Inv'
    BY <1>2, NotAcquiredKeeps, StatementKeeps, NestKeeps
  <1>3. ASSUME NEW t \in Tasks, Progress(t) PROVE Inv'
    <2>1. CASE Acquiring(t)
      BY <2>1, WaitForLockKeeps, AcquiredKeeps DEF Acquiring
    <2>2. CASE Calling(t)
      BY <2>2, CallKeeps DEF Calling
    <2>3. CASE Beginning(t)
      BY <2>3, BeganKeeps, BeginRaisesKeeps, BeginCancelledKeeps DEF Beginning
    <2>4. CASE Exiting(t)
      BY <2>4, CommitKeeps, RollbackKeeps, ExitFailsKeeps DEF Exiting
    <2>5. CASE Exits(t)
      BY <2>5, ExitKeeps
    <2>6. QED
      BY <1>3, <2>1, <2>2, <2>3, <2>4, <2>5 DEF Progress
  <1>4. ASSUME NEW child \in Children, Spawn(child) PROVE Inv'
    BY <1>4, SpawnKeeps
  <1>5. CASE PoolStep \/ ClosePool
    BY <1>5, PoolStepsKeep
  <1>6. CASE UNCHANGED vars
    BY <1>6, StutterKeeps
  <1>7. QED
    BY <1>1, <1>2, <1>3, <1>4, <1>5, <1>6 DEF Next

-----------------------------------------------------------------------------
(* The bounds' counters *)

Counting ==
    /\ uses' = uses \/ \E t \in Tasks : CountsUse(t)
    /\ writes' = writes \/ \E t \in Tasks : CountsWrite(t)
    /\ faults' = faults \/ Fault

LEMMA StepsCount ==
  ASSUME [Next]_vars
  PROVE  Counting
  <1>1. ASSUME NEW t \in Tasks, NEW goal \in Goals, Acquire(t, goal) \/ Acquired(t, goal)
        PROVE  Counting
    BY <1>1 DEF Acquire, Acquired, Counting
  <1>2. ASSUME NEW t \in Tasks, NotAcquired(t) \/ Statement(t) \/ Nest(t) \/ WaitForLock(t)
        PROVE  Counting
    BY <1>2 DEF NotAcquired, Statement, Nest, WaitForLock, taskVars, Counting
  <1>3. ASSUME NEW t \in Tasks, Calling(t) PROVE Counting
    BY <1>3 DEF Calling, CallReturns, CallFails, Counting
  <1>4. ASSUME NEW t \in Tasks, Beginning(t) PROVE Counting
    BY <1>4 DEF Beginning, Began, BeginRaises, BeginCancelled, Counting
  <1>5. ASSUME NEW t \in Tasks, Exiting(t) \/ Exits(t) PROVE Counting
    BY <1>5 DEF Exiting, Exits, Exit, Commit, Rollback, ExitFails, Counting
  <1>6. ASSUME NEW child \in Children, Spawn(child) PROVE Counting
    BY <1>6 DEF Spawn, Counting
  <1>7. CASE PoolStep \/ ClosePool \/ UNCHANGED vars
    BY <1>7 DEF PoolStep, ClosePool, vars, taskVars, Counting
  <1>8. QED
    BY <1>1, <1>2, <1>3, <1>4, <1>5, <1>6, <1>7 DEF Next, Progress, Acquiring

LEMMA CountsInit ==
  ASSUME Init
  PROVE  CountsTypeOK
  BY TransactionAssumption DEF Init, CountsTypeOK

LEMMA CountsNext ==
  ASSUME CountsTypeOK, [Next]_vars
  PROVE  CountsTypeOK'
  <1>1. Counting
    BY StepsCount
  <1>2. DOMAIN uses' = Tasks /\ \A t \in Tasks : uses'[t] \in 0..MaxUses[t]
    BY <1>1, TransactionAssumption DEF CountsTypeOK, Counting, CountsUse
  <1>3. writes' \in [Tasks -> 0..MaxWrites]
    BY <1>1, TransactionAssumption DEF CountsTypeOK, Counting, CountsWrite
  <1>4. faults' \in 0..MaxFaults
    BY <1>1, TransactionAssumption DEF CountsTypeOK, Counting, Fault
  <1>5. QED
    BY <1>2, <1>3, <1>4 DEF CountsTypeOK

-----------------------------------------------------------------------------
(* The server *)

\* A connection's first frame is the transaction itself.
FirstIsTransaction == \A c \in Conns : frames[c] # <<>> => frames[c][1].name = 0

ServerTypeOK ==
    /\ frames \in [Conns -> Seq(Frame)]
    /\ committed \subseteq Write

ServerInv == ServerTypeOK /\ FirstIsTransaction

\* A set of positions has a greatest one.
LEMMA MaxIsMember ==
  ASSUME NEW n \in Nat, NEW S \in SUBSET (1..n), S # {}
  PROVE  Max(S) \in S /\ \A x \in S : Max(S) >= x
  <1> DEFINE T == {k \in Nat : n - k \in S}
  <1>1. T # {} /\ T \subseteq Nat
    <2>1. PICK x \in S : TRUE
      OBVIOUS
    <2>2. n - x \in Nat /\ n - (n - x) = x
      BY <2>1
    <2>3. QED
      BY <2>1, <2>2
  <1>2. PICK k \in T : \A l \in T : ~(<<l, k>> \in OpToRel(<, Nat))
    BY <1>1, NatLessThanWellFounded, WFMin
  <1>3. \A l \in T : k <= l
    <2> SUFFICES ASSUME NEW l \in T PROVE k <= l
      OBVIOUS
    <2>1. k \in Nat /\ l \in Nat
      OBVIOUS
    <2>2. ~(l < k)
      BY <1>2, <2>1, Zenon DEF OpToRel
    <2>3. QED
      BY <2>1, <2>2
  <1>4. n - k \in S /\ \A y \in S : n - k >= y
    <2>1. ASSUME NEW y \in S PROVE n - k >= y
      <3>1. n - y \in Nat /\ n - (n - y) = y /\ y \in Nat
        OBVIOUS
      <3>2. k <= n - y
        BY <1>3, <3>1
      <3>3. QED
        BY <3>1, <3>2
    <2>2. QED
      BY <2>1
  <1>5. QED
    BY <1>4 DEF Max

\* What becomes of a connection's frames: it has the ones it had, with the last
\* of them changed, or fewer with one more on top, but always the first.
LEMMA FramesReplaced ==
  ASSUME ServerInv, NEW c \in Conns, NEW f \in Seq(Frame), f # <<>> => f[1].name = 0,
         frames' = [frames EXCEPT ![c] = f], committed' \subseteq Write
  PROVE  ServerInv'
  BY DEF ServerInv, ServerTypeOK, FirstIsTransaction

LEMMA FrameTypes ==
  ASSUME ServerInv, NEW c \in Conns
  PROVE  /\ frames[c] \in Seq(Frame) /\ Len(frames[c]) \in Nat
         /\ DOMAIN frames[c] = 1..Len(frames[c])
         /\ \A i \in 1..Len(frames[c]) :
               /\ frames[c][i] \in Frame /\ frames[c][i].writes \subseteq Write
               /\ frames[c][i].name \in Nat
         /\ frames[c] # <<>> => Len(frames[c]) >= 1 /\ frames[c][1].name = 0
  <1>1. frames[c] \in Seq(Frame)
    BY DEF ServerInv, ServerTypeOK
  <1>2. /\ Len(frames[c]) \in Nat /\ DOMAIN frames[c] = 1..Len(frames[c])
        /\ \A i \in 1..Len(frames[c]) : frames[c][i] \in Frame
    BY <1>1, LenProperties, ElementOfSeq
  <1>3. frames[c] # <<>> => Len(frames[c]) >= 1
    BY <1>1, <1>2, EmptySeq
  <1>4. QED
    BY <1>1, <1>2, <1>3 DEF ServerInv, FirstIsTransaction, Frame

LEMMA NewFrameType ==
  ASSUME NEW d \in Nat
  PROVE  NewFrame(d) \in Frame /\ NewFrame(d).name = d
  BY DEF NewFrame, Frame

\* The savepoint that a command at depth d > 0 refers to is not the first frame.
LEMMA SavepointIsInner ==
  ASSUME ServerInv, NEW c \in Conns, NEW d \in Nat, d # 0, Savepoints(c, d) # {}
  PROVE  /\ Max(Savepoints(c, d)) \in 2..Len(frames[c])
         /\ frames[c] # <<>>
  <1>1. Savepoints(c, d) \in SUBSET (1..Len(frames[c])) /\ Len(frames[c]) \in Nat
    BY FrameTypes DEF Savepoints
  <1>2. Max(Savepoints(c, d)) \in Savepoints(c, d)
    BY <1>1, MaxIsMember
  <1>3. \A i \in Savepoints(c, d) : i \in 1..Len(frames[c]) /\ frames[c][i].name = d
    BY FrameTypes DEF Savepoints
  <1>4. frames[c] # <<>>
    BY <1>2, <1>3, EmptySeq
  <1>5. frames[c][1].name = 0
    BY <1>4, FrameTypes
  <1>6. Max(Savepoints(c, d)) # 1
    BY <1>2, <1>3, <1>5
  <1>7. QED
    BY <1>1, <1>2, <1>3, <1>4, <1>6

\* The first k frames and one more on top.
LEMMA FramesCut ==
  ASSUME ServerInv, NEW c \in Conns, NEW k \in 0..Len(frames[c]), frames[c] # <<>>,
         NEW top \in Frame, k = 0 => top.name = 0
  PROVE  LET f == Append(SubSeq(frames[c], 1, k), top)
         IN  f \in Seq(Frame) /\ f # <<>> /\ f[1].name = 0
  <1> DEFINE s == SubSeq(frames[c], 1, k)
             f == Append(s, top)
  <1>1. \A i \in 1..k : frames[c][i] \in Frame
    BY FrameTypes
  <1>2. /\ s \in Seq(Frame) /\ Len(s) = k
        /\ \A i \in 1..k : s[i] = frames[c][i]
    <2>1. /\ k \in Nat /\ s \in Seq(Frame) /\ Len(s) = IF 1 <= k THEN k - 1 + 1 ELSE 0
          /\ \A i \in 1..k - 1 + 1 : s[i] = frames[c][1 + i - 1]
      BY <1>1, FrameTypes, SubSeqProperties
    <2> HIDE DEF s
    <2>2. QED
      BY <2>1
  <1> HIDE DEF s
  <1>3. /\ f \in Seq(Frame) /\ f # <<>>
        /\ \A i \in 1..k : f[i] = s[i]
        /\ f[k + 1] = top
    BY <1>2, AppendProperties
  <1> HIDE DEF f
  <1>4. f[1].name = 0
    <2>1. CASE k = 0
      BY <1>3, <2>1
    <2>2. CASE k # 0
      BY <1>2, <1>3, <2>2, FrameTypes
    <2>3. QED
      BY <2>1, <2>2
  <1>5. QED
    BY <1>3, <1>4 DEF f, s

LEMMA ExecutesKeepsServer ==
  ASSUME ServerInv, NEW c \in Conns, NEW w \in Write, Executes(c, w)
  PROVE  ServerInv'
  <1>1. CASE frames[c] = <<>>
    BY <1>1 DEF Executes, ServerInv, ServerTypeOK, FirstIsTransaction
  <1>2. CASE frames[c] # <<>>
    <2> DEFINE n == Len(frames[c])
               g == [frames[c][n] EXCEPT !.writes = @ \union {w}]
               f == [frames[c] EXCEPT ![n] = g]
    <2>1. n \in 1..Len(frames[c])
      BY <1>2, FrameTypes
    <2>2. g \in Frame /\ g.name = frames[c][n].name
      BY <2>1, FrameTypes DEF Frame
    <2>3. frames' = [frames EXCEPT ![c] = f] /\ committed' = committed
      BY <1>2 DEF Executes
    <2> HIDE DEF g
    <2>4. /\ f \in Seq(Frame)
          /\ \A j \in 1..n : f[j] = IF j = n THEN g ELSE frames[c][j]
      BY <2>1, <2>2, FrameTypes, ExceptSeq
    <2>5. f[1].name = 0
      BY <1>2, <2>1, <2>2, <2>4, FrameTypes
    <2> HIDE DEF f
    <2>6. QED
      BY <2>3, <2>4, <2>5, FramesReplaced DEF ServerInv, ServerTypeOK
  <1>3. QED
    BY <1>1, <1>2

LEMMA BeginsKeepsServer ==
  ASSUME ServerInv, NEW c \in Conns, NEW d \in Nat, Begins(c, d)
  PROVE  ServerInv'
  <1>1. CASE d = 0
    <2> DEFINE f == IF frames[c] = <<>> THEN <<NewFrame(0)>> ELSE frames[c]
    <2>1. f \in Seq(Frame) /\ f[1].name = 0
      <3>1. <<NewFrame(0)>> \in Seq(Frame) /\ <<NewFrame(0)>>[1].name = 0
        BY NewFrameType
      <3>2. QED
        BY <3>1, FrameTypes
    <2>2. frames' = [frames EXCEPT ![c] = f] /\ committed' = committed
      BY <1>1 DEF Begins, SqlBegin
    <2> HIDE DEF f
    <2>3. QED
      BY <2>1, <2>2, FramesReplaced DEF ServerInv, ServerTypeOK
  <1>2. CASE d # 0
    <2> DEFINE f == Append(frames[c], NewFrame(d))
    <2>1. frames[c] # <<>> /\ frames' = [frames EXCEPT ![c] = f] /\ committed' = committed
      BY <1>2 DEF Begins, SqlSavepoint
    <2>2. f \in Seq(Frame) /\ f[1] = frames[c][1]
      BY <2>1, NewFrameType, FrameTypes, AppendProperties
    <2>3. f[1].name = 0
      BY <2>1, <2>2, FrameTypes
    <2> HIDE DEF f
    <2>4. QED
      BY <2>1, <2>2, <2>3, FramesReplaced DEF ServerInv, ServerTypeOK
  <1>3. QED
    BY <1>1, <1>2

\* COMMIT and RELEASE, ROLLBACK and ROLLBACK TO, whatever is reported of them.
LEMMA CommitsKeepsServer ==
  ASSUME ServerInv, NEW c \in Conns, NEW d \in Nat, Commits(c, d)
  PROVE  ServerInv'
  <1>1. CASE d = 0
    <2>1. Pending(c) \subseteq Write
      BY FrameTypes DEF Pending
    <2>2. <<>> \in Seq(Frame)
      BY EmptySeq
    <2>3. QED
      BY <1>1, <2>1, <2>2, FramesReplaced DEF Commits, SqlCommit, ServerInv, ServerTypeOK
  <1>2. CASE d # 0
    <2> DEFINE i == Max(Savepoints(c, d))
               merged == UNION {frames[c][k].writes : k \in i - 1 .. Len(frames[c])}
               top == [frames[c][i - 1] EXCEPT !.writes = merged]
               f == Append(SubSeq(frames[c], 1, i - 2), top)
    <2>1. Savepoints(c, d) # {} /\ frames' = [frames EXCEPT ![c] = f] /\ committed' = committed
      BY <1>2 DEF Commits, SqlRelease
    <2>2. i \in 2..Len(frames[c]) /\ frames[c] # <<>>
      BY <1>2, <2>1, SavepointIsInner
    <2> HIDE DEF i
    <2>3. /\ i - 1 \in 1..Len(frames[c]) /\ i - 2 \in 0..Len(frames[c])
          /\ i - 2 = 0 => i - 1 = 1
      BY <2>2, FrameTypes
    <2>4. merged \subseteq Write
      <3>1. \A k \in i - 1 .. Len(frames[c]) : k \in 1..Len(frames[c])
        BY <2>3, FrameTypes
      <3>2. QED
        BY <3>1, FrameTypes
    <2> HIDE DEF merged
    <2>5. top \in Frame /\ top.name = frames[c][i - 1].name
      BY SMTT(30), <2>3, <2>4, FrameTypes DEF Frame
    <2> HIDE DEF top
    <2>6. i - 2 = 0 => top.name = 0
      BY <2>2, <2>3, <2>5, FrameTypes
    <2>7. f \in Seq(Frame) /\ f[1].name = 0
      BY <2>2, <2>3, <2>5, <2>6, FramesCut
    <2> HIDE DEF f
    <2>8. QED
      BY <2>1, <2>7, FramesReplaced DEF ServerInv, ServerTypeOK
  <1>3. QED
    BY <1>1, <1>2

LEMMA RollsBackKeepsServer ==
  ASSUME ServerInv, NEW c \in Conns, NEW d \in Nat, RollsBack(c, d)
  PROVE  ServerInv'
  <1>1. CASE d = 0
    <2>1. <<>> \in Seq(Frame)
      BY EmptySeq
    <2>2. QED
      BY <1>1, <2>1, FramesReplaced DEF RollsBack, SqlRollback, ServerInv, ServerTypeOK
  <1>2. CASE d # 0
    <2> DEFINE i == Max(Savepoints(c, d))
               f == Append(SubSeq(frames[c], 1, i - 1), NewFrame(d))
    <2>1. Savepoints(c, d) # {} /\ frames' = [frames EXCEPT ![c] = f] /\ committed' = committed
      BY <1>2 DEF RollsBack, SqlRollbackTo
    <2>2. i \in 2..Len(frames[c]) /\ frames[c] # <<>>
      BY <1>2, <2>1, SavepointIsInner
    <2> HIDE DEF i
    <2>3. i - 1 \in 0..Len(frames[c]) /\ i - 1 # 0
      BY <2>2, FrameTypes
    <2>4. f \in Seq(Frame) /\ f[1].name = 0
      BY <2>2, <2>3, NewFrameType, FramesCut
    <2> HIDE DEF f
    <2>5. QED
      BY <2>1, <2>4, FramesReplaced DEF ServerInv, ServerTypeOK
  <1>3. QED
    BY <1>1, <1>2

\* A step's commands to the server: none, or one on a connection of the pool.
Commands ==
    \/ UNCHANGED serverVars
    \/ \E c \in Conns, w \in Write : Executes(c, w)
    \/ \E c \in Conns, d \in Nat : Begins(c, d) \/ Commits(c, d) \/ RollsBack(c, d)

ReportTypeOK == promised \subseteq Write /\ revoked \subseteq Write /\ dirty \subseteq Conns

DoingTypeOK == doing \in {"connecting", "getting"}

LEMMA NextWriteType ==
  ASSUME CountsTypeOK, NEW t \in Tasks, writes[t] < MaxWrites
  PROVE  NextWrite(t) \in Write
  <1>1. writes[t] + 1 \in 1..MaxWrites
    BY TransactionAssumption DEF CountsTypeOK
  <1>2. QED
    BY <1>1 DEF NextWrite, Write

LEMMA CallCommands ==
  ASSUME Inv, CountsTypeOK, NEW t \in Tasks, Calling(t) \/ Statement(t)
  PROVE  Commands /\ (ReportTypeOK => ReportTypeOK')
  <1>1. writes[t] < MaxWrites
    BY DEF Calling, CallReturns, CallFails, Statement, CountsWrite
  <1>2. NextWrite(t) \in Write
    BY <1>1, NextWriteType
  <1>3. CASE Calling(t)
    <2>1. AtCall(pc[t])
      BY <1>3 DEF Calling, CallReturns, CallFails, AtCall
    <2>2. lease[t] \in Conns
      BY <2>1, TaskTypes DEF HandOK
    <2>3. QED
      BY <1>2, <1>3, <2>2
      DEF Calling, CallReturns, CallFails, Commands, ReportTypeOK, reportVars
  <1>4. CASE Statement(t)
    <2>1. context[t] \in Conns
      BY <1>4 DEF Statement, Inv, PoolInv, Custody
    <2>2. QED
      BY <1>2, <1>4, <2>1 DEF Statement, Commands, ReportTypeOK, reportVars
  <1>5. QED
    BY <1>3, <1>4

LEMMA BeginCommands ==
  ASSUME Inv, NEW t \in Tasks, Beginning(t)
  PROVE  Commands /\ (ReportTypeOK => ReportTypeOK')
  <1>1. AtBegin(pc[t]) /\ UNCHANGED reportVars
    BY DEF Beginning, Began, BeginRaises, BeginCancelled, AtBegin, reportVars
  <1>2. Level(t) \in Nat
    BY <1>1, TaskTypes, Places DEF DepthOK, Level
  <1>3. context[t] \in live => context[t] \in Conns
    BY DEF Inv, PoolInv, Custody
  <1>4. Commands
    BY <1>2, <1>3 DEF Beginning, Began, BeginRaises, BeginCancelled, Commands
  <1>5. QED
    BY <1>1, <1>4 DEF ReportTypeOK, reportVars

LEMMA ExitCommands ==
  ASSUME Inv, NEW t \in Tasks, Exiting(t)
  PROVE  Commands /\ (ReportTypeOK => ReportTypeOK')
  <1>1. AtExit(pc[t])
    BY DEF Exiting, Commit, Rollback, ExitFails, AtExit
  <1>2. Level(t) \in Nat /\ Inner(t) \subseteq Write
    BY <1>1, OuterLevels
  <1>3. context[t] \in live => context[t] \in Conns
    BY DEF Inv, PoolInv, Custody
  <1>4. Level(t) = 0 => context[t] \in Conns
    BY <1>1, TaskTypes, Places DEF DepthOK, Level
  <1>5. CASE Commit(t)
    BY <1>2, <1>3, <1>5 DEF Commit, Commands, ReportTypeOK
  <1>6. CASE Rollback(t)
    BY <1>2, <1>3, <1>6 DEF Rollback, Commands, ReportTypeOK
  <1>7. CASE ExitFails(t)
    <2>1. Commands
      BY <1>2, <1>3, <1>7 DEF ExitFails, CannotExit, Commands
    <2>2. ReportTypeOK => ReportTypeOK'
      BY <1>4, <1>7 DEF ExitFails, ReportTypeOK
    <2>3. QED
      BY <2>1, <2>2
  <1>8. QED
    BY <1>5, <1>6, <1>7 DEF Exiting

\* A task that only asks, waits, nests or leaves a block sends no command.
LEMMA OtherCommands ==
  ASSUME \/ PoolStep \/ ClosePool \/ UNCHANGED vars
         \/ \E child \in Children : Spawn(child)
         \/ \E t \in Tasks :
               \/ \E goal \in Goals : Acquire(t, goal)
               \/ NotAcquired(t) \/ Nest(t) \/ Acquiring(t) \/ Exits(t)
  PROVE  Commands /\ (ReportTypeOK => ReportTypeOK')
  <1>1. UNCHANGED serverVars /\ UNCHANGED reportVars
    BY DEF PoolStep, ClosePool, vars, Spawn, Acquire, NotAcquired, Nest, Acquiring, WaitForLock,
           Acquired, Exits, Exit
  <1>2. QED
    BY <1>1 DEF Commands, ReportTypeOK, reportVars

LEMMA StepCommands ==
  ASSUME Inv, CountsTypeOK, [Next]_vars
  PROVE  Commands /\ (ReportTypeOK => ReportTypeOK')
  BY CallCommands, BeginCommands, ExitCommands, OtherCommands DEF Next, Progress

LEMMA ServerNext ==
  ASSUME ServerInv, Commands
  PROVE  ServerInv'
  <1>1. CASE UNCHANGED serverVars
    BY <1>1 DEF serverVars, ServerInv, ServerTypeOK, FirstIsTransaction
  <1>2. QED
    BY <1>1, ExecutesKeepsServer, BeginsKeepsServer, CommitsKeepsServer, RollsBackKeepsServer
    DEF Commands

LEMMA DoingNext ==
  ASSUME DoingTypeOK, [Next]_vars
  PROVE  DoingTypeOK'
  <1> DEFINE OK == doing' = doing \/ doing' \in {"connecting", "getting"}
  <1>1. ASSUME NEW t \in Tasks, Leaves(t) PROVE OK
    BY <1>1 DEF Leaves, Release, poolVars
  <1>2. ASSUME NEW t \in Tasks, Progress(t) PROVE OK
    <2>1. CASE Acquiring(t)
      BY <2>1 DEF Acquiring, WaitForLock, GetsLock, Acquired, Connects, Gets
    <2>2. CASE Calling(t)
      BY <2>2 DEF Calling, CallReturns, CallFails, Release
    <2>3. CASE Beginning(t)
      BY <2>3, <1>1 DEF Beginning, Began, BeginRaises, BeginCancelled, poolVars
    <2>4. CASE Exiting(t)
      BY <2>4, <1>1 DEF Exiting, Commit, Rollback, ExitFails
    <2>5. CASE Exits(t)
      BY <2>5 DEF Exits, Exit, poolVars
    <2>6. QED
      BY <1>2, <2>1, <2>2, <2>3, <2>4, <2>5 DEF Progress
  <1>3. ASSUME NEW t \in Tasks, \/ \E goal \in Goals : Acquire(t, goal)
                                \/ NotAcquired(t) \/ Statement(t) \/ Nest(t)
        PROVE  OK
    BY <1>3 DEF Acquire, AcquireIdle, AcquireQueues, NotAcquired, AcquireFails, Statement, Nest, poolVars
  <1>4. ASSUME PoolStep \/ ClosePool \/ UNCHANGED vars \/ \E child \in Children : Spawn(child)
        PROVE  OK
    <2>1. ASSUME NEW child \in Children, Spawn(child) PROVE OK
      BY <2>1 DEF Spawn, poolVars
    <2>2. CASE PoolStep \/ ClosePool
      BY <2>2 DEF PoolStep, InitializeConnects, InitializeFails, DrainOne, DrainEnds, ClosePool, Close
    <2>3. CASE UNCHANGED vars
      BY <2>3 DEF vars, poolVars
    <2>4. QED
      BY <1>4, <2>1, <2>2, <2>3
  <1>5. QED
    BY <1>2, <1>3, <1>4 DEF Next, DoingTypeOK

-----------------------------------------------------------------------------
(* What holds always *)

TransactionsInv ==
    Inv /\ CountsTypeOK /\ ServerInv /\ ReportTypeOK /\ DoingTypeOK

LEMMA TransactionsInvInit == Init => TransactionsInv
  <1> SUFFICES ASSUME Init PROVE TransactionsInv
    OBVIOUS
  <1>1. Inv /\ CountsTypeOK
    BY InvInit, CountsInit
  <1>2. ServerInv
    <2>1. <<>> \in Seq(Frame)
      BY EmptySeq
    <2>2. frames = [c \in Conns |-> <<>>] /\ committed = {}
      BY DEF Init
    <2>3. QED
      BY <2>1, <2>2 DEF ServerInv, ServerTypeOK, FirstIsTransaction
  <1>3. ReportTypeOK /\ DoingTypeOK
    BY DEF Init, PoolInit, ReportTypeOK, DoingTypeOK
  <1>4. QED
    BY <1>1, <1>2, <1>3 DEF TransactionsInv

LEMMA TransactionsInvNext ==
  ASSUME TransactionsInv, [Next]_vars
  PROVE  TransactionsInv'
  <1>1. Inv' /\ CountsTypeOK'
    BY InvNext, CountsNext DEF TransactionsInv
  <1>2. ServerInv' /\ ReportTypeOK'
    BY StepCommands, ServerNext DEF TransactionsInv
  <1>3. DoingTypeOK'
    BY DoingNext DEF TransactionsInv
  <1>4. QED
    BY <1>1, <1>2, <1>3 DEF TransactionsInv

LEMMA AlwaysTransactionsInv == Spec => []TransactionsInv
  <1>1. TransactionsInv /\ [Next]_vars => TransactionsInv'
    BY TransactionsInvNext
  <1>2. QED
    BY TransactionsInvInit, <1>1, PTL DEF Spec

\* Every variable of the pool, of the tasks and of the server keeps its type.
THEOREM TransactionTypeCorrect == Spec => []TypeOK
  <1>1. TransactionsInv => TypeOK
    <2> SUFFICES ASSUME TransactionsInv PROVE TypeOK
      OBVIOUS
    <2>1. PoolTypeOK
      BY DEF TransactionsInv, Inv, PoolInv, Custody, Books, BooksTypeOK, TasksInv, InLine,
             DoingTypeOK, PoolTypeOK
    <2>2. QED
      BY <2>1 DEF TransactionsInv, Inv, TasksInv, TasksTypeOK, Place, CountsTypeOK, ServerInv,
                  ServerTypeOK, ReportTypeOK, TypeOK
  <1>2. QED
    BY AlwaysTransactionsInv, <1>1, PTL

\* However tasks overtake each other, fail, are cancelled or wait, no connection is
\* ever handed to two of them, left in the pool while it is in use, or lost.
THEOREM LeasesStayExclusive == Spec => []LeasesExclusive
  <1>1. TransactionsInv => LeasesExclusive
    BY PoolInvMeans DEF TransactionsInv, Inv
  <1>2. QED
    BY AlwaysTransactionsInv, <1>1, PTL

\* The pool never has more than max_size connections open, and never loses count
\* of them; once it is closed nothing is or comes to be left in it.
THEOREM PoolKeepsAccount == Spec => []PoolAccounts
  <1>1. TransactionsInv => PoolAccounts
    BY PoolInvMeans DEF TransactionsInv, Inv
  <1>2. QED
    BY AlwaysTransactionsInv, <1>1, PTL

\* Whoever takes a connection from the pool finds no transaction open on it, unless
\* a COMMIT or a ROLLBACK on that connection failed.
THEOREM IdleStaysClean == Spec => []IdleIsClean
  <1>1. TransactionsInv => IdleIsClean
    <2> SUFFICES ASSUME TransactionsInv, NEW i \in DOMAIN idle, frames[idle[i]] # <<>>
                 PROVE  idle[i] \in dirty
      BY DEF IdleIsClean
    <2>1. idle \in Seq(Conns) /\ i \in 1..Len(idle)
      BY LenProperties DEF TransactionsInv, Inv, PoolInv, Custody
    <2>2. idle[i] \in Conns /\ In(idle[i], idle)
      BY <2>1, ElementOfSeq DEF In
    <2>3. ASSUME idle[i] \notin dirty PROVE FALSE
      <3>1. PICK t \in Tasks : lease[t] = idle[i]
        BY <2>2, <2>3 DEF TransactionsInv, Inv, OpenIsHeld
      <3>2. QED
        BY <2>2, <3>1, ConnNumbers DEF TransactionsInv, Inv, PoolInv, Custody, LeasedIsNotIdle
    <2>4. QED
      BY <2>3
  <1>2. QED
    BY AlwaysTransactionsInv, <1>1, PTL

-----------------------------------------------------------------------------
(* How a task's levels fit the frames of its connection *)

\* Write w is in frame i or a later one.
Holds(f, i, w) == \E j \in 1..Len(f) : j >= i /\ w \in f[j].writes

\* Frame i is where the task's k-th level begins: a ROLLBACK TO or a RELEASE of that
\* level refers to it.
Mark(f, i, k) ==
    /\ i \in 1..Len(f) /\ f[i].name = k - 1
    /\ \A j \in 1..Len(f) : j > i => f[j].name >= k

\* Every level has its mark, and what was written in a level is behind the marks of
\* the levels around it and its own, and of no other.
Fits(f, e) ==
    \A k \in 1..Len(e) : \E i \in 1..Len(f) :
        /\ Mark(f, i, k)
        /\ \A m \in 1..Len(e) : \A w \in e[m] : k <= m <=> Holds(f, i, w)

\* No write is in two frames.
Single(f) ==
    \A w \in Write : \A i, j \in 1..Len(f) : w \in f[i].writes /\ w \in f[j].writes => i = j

LEMMA FrameSeq ==
  ASSUME NEW f \in Seq(Frame)
  PROVE  /\ Len(f) \in Nat
         /\ \A i \in 1..Len(f) : f[i].name \in Nat /\ f[i].writes \subseteq Write
  <1>1. Len(f) \in Nat /\ \A i \in 1..Len(f) : f[i] \in Frame
    BY LenProperties, ElementOfSeq
  <1>2. QED
    BY <1>1 DEF Frame

\* What the levels hold is on the connection.
LEMMA FitsHolds ==
  ASSUME NEW f \in Seq(Frame), NEW e, Len(e) \in Nat, Fits(f, e),
         NEW m \in 1..Len(e), NEW w \in e[m]
  PROVE  Holds(f, 1, w)
  <1>1. 1 \in 1..Len(e) /\ 1 <= m
    OBVIOUS
  <1>2. PICK i \in 1..Len(f) : Holds(f, i, w)
    BY <1>1 DEF Fits
  <1>3. QED
    BY <1>2, FrameSeq DEF Holds

LEMMA MarksAreOrdered ==
  ASSUME NEW f \in Seq(Frame), NEW k \in Nat, NEW l \in Nat, k < l, NEW i, NEW j,
         Mark(f, i, k), Mark(f, j, l)
  PROVE  i < j
  <1>1. /\ i \in 1..Len(f) /\ j \in 1..Len(f) /\ Len(f) \in Nat
        /\ f[i].name = k - 1 /\ f[j].name = l - 1 /\ (i > j => f[i].name >= l)
    BY FrameSeq DEF Mark
  <1>2. i # j /\ ~(i > j)
    BY <1>1
  <1>3. QED
    BY <1>1, <1>2

\* The savepoint that a command of level k refers to.
LEMMA MarkIsMax ==
  ASSUME NEW f \in Seq(Frame), NEW k \in Nat, NEW i, Mark(f, i, k)
  PROVE  Max({j \in 1..Len(f) : f[j].name = k - 1}) = i
  <1> DEFINE S == {j \in 1..Len(f) : f[j].name = k - 1}
  <1>1. i \in S /\ S \in SUBSET (1..Len(f)) /\ Len(f) \in Nat
    BY FrameSeq DEF Mark
  <1>2. \A j \in S : ~(j > i)
    BY <1>1, FrameSeq DEF Mark
  <1> HIDE DEF S
  <1>3. Max(S) \in S /\ Max(S) >= i
    BY <1>1, MaxIsMember
  <1>4. i \in 1..Len(f) /\ Max(S) \in 1..Len(f)
    BY <1>1, <1>3
  <1>5. Max(S) = i
    BY <1>1, <1>2, <1>3, <1>4
  <1>6. QED
    BY <1>5 DEF S

\* A level that is left as it is.
LEMMA FitsDropped ==
  ASSUME NEW f \in Seq(Frame), NEW e, NEW e2, Len(e) \in Nat, Len(e2) \in Nat,
         Len(e2) <= Len(e), \A m \in 1..Len(e2) : e2[m] \subseteq e[m], Fits(f, e)
  PROVE  Fits(f, e2)
  <1>1. \A m \in 1..Len(e2) : m \in 1..Len(e)
    OBVIOUS
  <1>2. QED
    BY <1>1 DEF Fits

-----------------------------------------------------------------------------
\* A statement writes into the innermost level.
LEMMA FitsWritten ==
  ASSUME NEW f \in Seq(Frame), NEW g \in Seq(Frame), NEW e, NEW e2, NEW w,
         Len(f) >= 1, Len(g) = Len(f),
         \A j \in 1..Len(f) : g[j].name = f[j].name,
         \A j \in 1..Len(f) : g[j].writes = f[j].writes \union (IF j = Len(f) THEN {w} ELSE {}),
         Len(e) \in Nat, Len(e2) = Len(e),
         \A m \in 1..Len(e) : e2[m] = e[m] \union (IF m = Len(e) THEN {w} ELSE {}),
         ~Holds(f, 1, w), Fits(f, e)
  PROVE  Fits(g, e2)
  <1> SUFFICES ASSUME NEW k \in 1..Len(e)
               PROVE  \E i \in 1..Len(g) :
                         /\ Mark(g, i, k)
                         /\ \A m \in 1..Len(e) : \A v \in e2[m] : k <= m <=> Holds(g, i, v)
    BY DEF Fits
  <1>1. PICK i \in 1..Len(f) :
           /\ Mark(f, i, k)
           /\ \A m \in 1..Len(e) : \A v \in e[m] : k <= m <=> Holds(f, i, v)
    BY DEF Fits
  <1>2. Mark(g, i, k)
    BY <1>1 DEF Mark
  <1>3. ASSUME NEW m \in 1..Len(e), NEW v \in e2[m] PROVE k <= m <=> Holds(g, i, v)
    <2>1. CASE v = w
      <3>1. v \notin e[m]
        BY <2>1, FitsHolds
      <3>2. m = Len(e) /\ k <= m
        BY <3>1
      <3>3. Len(f) \in 1..Len(g) /\ Len(f) >= i /\ v \in g[Len(f)].writes
        BY <2>1, FrameSeq
      <3>4. QED
        BY <3>2, <3>3 DEF Holds
    <2>2. CASE v # w
      <3>1. v \in e[m]
        BY <2>2
      <3>2. \A j \in 1..Len(f) : v \in g[j].writes <=> v \in f[j].writes
        BY <2>2
      <3>3. Holds(g, i, v) <=> Holds(f, i, v)
        BY <3>2 DEF Holds
      <3>4. QED
        BY <1>1, <3>1, <3>3
    <2>3. QED
      BY <2>1, <2>2
  <1>4. QED
    BY <1>2, <1>3

\* The writes of a connection on which a statement was executed.
LEMMA WrittenHolds ==
  ASSUME NEW f \in Seq(Frame), NEW g \in Seq(Frame), NEW w,
         Len(f) >= 1, Len(g) = Len(f),
         \A j \in 1..Len(f) : g[j].writes = f[j].writes \union (IF j = Len(f) THEN {w} ELSE {}),
         ~Holds(f, 1, w)
  PROVE  /\ \A v : Holds(g, 1, v) => Holds(f, 1, v) \/ v = w
         /\ Single(f) => Single(g)
  <1>1. \A v : Holds(g, 1, v) => Holds(f, 1, v) \/ v = w
    BY DEF Holds
  <1>2. ASSUME Single(f), NEW v \in Write, NEW i \in 1..Len(g), NEW j \in 1..Len(g),
               v \in g[i].writes, v \in g[j].writes
        PROVE  i = j
    <2>1. CASE v = w
      <3>1. \A n \in 1..Len(f) : w \notin f[n].writes
        BY FrameSeq DEF Holds
      <3>2. i = Len(f) /\ j = Len(f)
        BY <1>2, <2>1, <3>1
      <3>3. QED
        BY <3>2
    <2>2. CASE v # w
      <3>1. v \in f[i].writes /\ v \in f[j].writes
        BY <1>2, <2>2
      <3>2. QED
        BY <1>2, <3>1 DEF Single
    <2>3. QED
      BY <2>1, <2>2
  <1>3. QED
    BY <1>1, <1>2 DEF Single
-----------------------------------------------------------------------------
\* A new frame, that of a further level's SAVEPOINT or the BEGIN.
LEMMA FrameAdded ==
  ASSUME NEW f \in Seq(Frame), NEW d \in Nat, NEW g, g = Append(f, NewFrame(d))
  PROVE  /\ g \in Seq(Frame) /\ Len(g) = Len(f) + 1
         /\ \A i, w : i \in 1..Len(f) + 1 => (Holds(g, i, w) <=> Holds(f, i, w))
         /\ Single(f) => Single(g)
         /\ Mark(g, Len(f) + 1, d + 1)
         /\ \A i, k : Mark(f, i, k) /\ k <= d => Mark(g, i, k)
  <1>1. /\ g \in Seq(Frame) /\ Len(g) = Len(f) + 1 /\ Len(f) \in Nat
        /\ \A j \in 1..Len(f) : g[j] = f[j]
        /\ g[Len(f) + 1] = NewFrame(d)
    BY NewFrameType, AppendProperties, FrameSeq
  <1>2. NewFrame(d).name = d /\ NewFrame(d).writes = {}
    BY DEF NewFrame
  <1>3. g[Len(f) + 1].name = d /\ g[Len(f) + 1].writes = {}
    BY <1>1, <1>2
  <1>4. ASSUME NEW i, NEW w PROVE Holds(g, i, w) <=> Holds(f, i, w)
    <2>1. ASSUME Holds(f, i, w) PROVE Holds(g, i, w)
      BY <1>1, <2>1 DEF Holds
    <2>2. ASSUME Holds(g, i, w) PROVE Holds(f, i, w)
      <3>1. PICK j \in 1..Len(g) : j >= i /\ w \in g[j].writes
        BY <2>2 DEF Holds
      <3>2. j # Len(f) + 1
        BY <1>3, <3>1
      <3>3. j \in 1..Len(f)
        BY <1>1, <3>2
      <3>4. QED
        BY <1>1, <3>1, <3>3 DEF Holds
    <2>3. QED
      BY <2>1, <2>2
  <1>5. ASSUME Single(f) PROVE Single(g)
    <2> SUFFICES ASSUME NEW w \in Write, NEW i \in 1..Len(g), NEW j \in 1..Len(g),
                        w \in g[i].writes, w \in g[j].writes
                 PROVE  i = j
      BY DEF Single
    <2>1. i # Len(f) + 1 /\ j # Len(f) + 1
      BY <1>3
    <2>2. i \in 1..Len(f) /\ j \in 1..Len(f)
      BY <1>1, <2>1
    <2>3. QED
      BY <1>1, <1>5, <2>2 DEF Single
  <1>6. Mark(g, Len(f) + 1, d + 1)
    BY <1>1, <1>3 DEF Mark
  <1>7. ASSUME NEW i, NEW k, Mark(f, i, k), k <= d PROVE Mark(g, i, k)
    <2>1. i \in 1..Len(g) /\ g[i].name = k - 1
      BY <1>1, <1>7 DEF Mark
    <2>2. ASSUME NEW j \in 1..Len(g), j > i PROVE g[j].name >= k
      <3>1. CASE j = Len(f) + 1
        BY <1>3, <1>7, <3>1
      <3>2. CASE j # Len(f) + 1
        <4>1. j \in 1..Len(f)
          BY <1>1, <3>2
        <4>2. QED
          BY <1>1, <1>7, <2>2, <4>1 DEF Mark
      <3>3. QED
        BY <3>1, <3>2
    <2>3. QED
      BY <2>1, <2>2 DEF Mark
  <1>8. QED
    BY <1>1, <1>4, <1>5, <1>6, <1>7

\* The new frame's level, if the task has begun it.
LEMMA FitsBegun ==
  ASSUME NEW f \in Seq(Frame), NEW e, NEW e2, Len(e) \in Nat,
         NEW g, g = Append(f, NewFrame(Len(e))),
         \/ e2 = e
         \/ /\ Len(e2) = Len(e) + 1 /\ e2[Len(e) + 1] = {}
            /\ \A m \in 1..Len(e) : e2[m] = e[m],
         Fits(f, e)
  PROVE  Fits(g, e2)
  <1>0. /\ g \in Seq(Frame) /\ Len(g) = Len(f) + 1 /\ Len(f) \in Nat
        /\ \A i, w : i \in 1..Len(f) + 1 => (Holds(g, i, w) <=> Holds(f, i, w))
        /\ Mark(g, Len(f) + 1, Len(e) + 1)
        /\ \A i, k : Mark(f, i, k) /\ k <= Len(e) => Mark(g, i, k)
    BY FrameAdded, FrameSeq
  <1>1. \A m \in 1..Len(e2) : \A w \in e2[m] : m \in 1..Len(e) /\ w \in e[m]
    OBVIOUS
  <1>2. ASSUME NEW k \in 1..Len(e)
        PROVE  \E i \in 1..Len(g) :
                  /\ Mark(g, i, k)
                  /\ \A m \in 1..Len(e2) : \A w \in e2[m] : k <= m <=> Holds(g, i, w)
    <2>1. PICK i \in 1..Len(f) :
             /\ Mark(f, i, k)
             /\ \A m \in 1..Len(e) : \A w \in e[m] : k <= m <=> Holds(f, i, w)
      BY DEF Fits
    <2>2. Mark(g, i, k) /\ i \in 1..Len(g) /\ i \in 1..Len(f) + 1
      BY <1>0, <2>1
    <2>3. ASSUME NEW m \in 1..Len(e2), NEW w \in e2[m] PROVE k <= m <=> Holds(g, i, w)
      BY <1>0, <1>1, <2>1, <2>2
    <2>4. QED
      BY <2>2, <2>3
  <1>3. ASSUME NEW k \in 1..Len(e2), k = Len(e) + 1
        PROVE  \E i \in 1..Len(g) :
                  /\ Mark(g, i, k)
                  /\ \A m \in 1..Len(e2) : \A w \in e2[m] : k <= m <=> Holds(g, i, w)
    <2>1. ASSUME NEW w PROVE ~Holds(g, Len(f) + 1, w)
      <3>1. ~Holds(f, Len(f) + 1, w)
        BY <1>0 DEF Holds
      <3>2. Len(f) + 1 \in 1..Len(f) + 1
        BY <1>0
      <3>3. QED
        BY <1>0, <3>1, <3>2
    <2>2. Len(f) + 1 \in 1..Len(g) /\ Mark(g, Len(f) + 1, k)
      BY <1>0, <1>3
    <2>3. ASSUME NEW m \in 1..Len(e2), NEW w \in e2[m] PROVE ~(k <= m)
      BY <1>1, <1>3
    <2>4. QED
      BY <2>1, <2>2, <2>3
  <1>4. \A k \in 1..Len(e2) : k \in 1..Len(e) \/ k = Len(e) + 1
    OBVIOUS
  <1>5. QED
    BY <1>2, <1>3, <1>4 DEF Fits
-----------------------------------------------------------------------------
\* Frames f with those from i on merged into the one before it.
Merged(f, i) ==
    Append(SubSeq(f, 1, i - 2),
           [f[i - 1] EXCEPT !.writes = UNION {f[j].writes : j \in i - 1 .. Len(f)}])

\* Frames f with those from i on replaced by an empty one.
Emptied(f, i, d) == Append(SubSeq(f, 1, i - 1), NewFrame(d))

LEMMA CutFrames ==
  ASSUME NEW f \in Seq(Frame), NEW n \in 0..Len(f), NEW top \in Frame,
         NEW g, g = Append(SubSeq(f, 1, n), top)
  PROVE  /\ g \in Seq(Frame) /\ Len(g) = n + 1
         /\ \A j \in 1..n : g[j] = f[j]
         /\ g[n + 1] = top
  <1> DEFINE s == SubSeq(f, 1, n)
  <1>0. Len(f) \in Nat /\ \A j \in 1..n : f[j] \in Frame
    BY LenProperties, ElementOfSeq
  <1>1. /\ s \in Seq(Frame) /\ Len(s) = n
        /\ \A j \in 1..n : s[j] = f[j]
    <2>1. /\ n \in Nat /\ s \in Seq(Frame) /\ Len(s) = IF 1 <= n THEN n - 1 + 1 ELSE 0
          /\ \A j \in 1..n - 1 + 1 : s[j] = f[1 + j - 1]
      BY <1>0, SubSeqProperties
    <2> HIDE DEF s
    <2>2. QED
      BY <2>1
  <1>2. g = Append(s, top)
    OBVIOUS
  <1> HIDE DEF s
  <1>3. QED
    BY <1>0, <1>1, <1>2, AppendProperties

LEMMA MergedFrames ==
  ASSUME NEW f \in Seq(Frame), NEW i \in 2..Len(f)
  PROVE  LET g == Merged(f, i) IN
         /\ g \in Seq(Frame) /\ Len(g) = i - 1
         /\ \A j \in 1..i - 1 : g[j].name = f[j].name
         /\ \A j \in 1..i - 2 : g[j].writes = f[j].writes
         /\ \A w : w \in g[i - 1].writes <=> \E j \in i - 1 .. Len(f) : w \in f[j].writes
  <1> DEFINE merged == UNION {f[j].writes : j \in i - 1 .. Len(f)}
             top == [f[i - 1] EXCEPT !.writes = merged]
             g == Merged(f, i)
  <1>1. Len(f) \in Nat /\ i - 1 \in 1..Len(f) /\ i - 2 \in 0..Len(f)
    BY FrameSeq
  <1>2. merged \subseteq Write
    <2>1. \A j \in i - 1 .. Len(f) : j \in 1..Len(f)
      BY <1>1
    <2>2. QED
      BY <2>1, FrameSeq
  <1>3. \A w : w \in merged <=> \E j \in i - 1 .. Len(f) : w \in f[j].writes
    OBVIOUS
  <1>4. f[i - 1] \in Frame
    BY <1>1, ElementOfSeq
  <1>5. g = Append(SubSeq(f, 1, i - 2), top)
    BY DEF Merged
  <1> HIDE DEF merged, g
  <1>6. top \in Frame /\ top.name = f[i - 1].name /\ top.writes = merged
    BY <1>2, <1>4 DEF Frame
  <1> HIDE DEF top
  <1>7. /\ g \in Seq(Frame) /\ Len(g) = i - 2 + 1
        /\ \A j \in 1..i - 2 : g[j] = f[j]
        /\ g[i - 2 + 1] = top
    BY <1>1, <1>5, <1>6, CutFrames
  <1>8. i - 2 + 1 = i - 1 /\ \A j \in 1..i - 1 : j \in 1..i - 2 \/ j = i - 1
    OBVIOUS
  <1>9. \A j \in 1..i - 1 : g[j].name = f[j].name
    BY <1>6, <1>7, <1>8
  <1>10. QED
    BY <1>3, <1>6, <1>7, <1>8, <1>9 DEF g

\* The writes stay on the connection, and behind the marks they were behind.
LEMMA MergedHolds ==
  ASSUME NEW f \in Seq(Frame), NEW i \in 2..Len(f), NEW g, g = Merged(f, i)
  PROVE  /\ \A h \in 1..i - 1 : \A w : Holds(g, h, w) <=> Holds(f, h, w)
         /\ \A h, k : Mark(f, h, k) /\ h < i => Mark(g, h, k)
         /\ Single(f) => Single(g)
  <1>1. /\ g \in Seq(Frame) /\ Len(g) = i - 1 /\ Len(f) \in Nat
        /\ \A j \in 1..i - 1 : g[j].name = f[j].name
        /\ \A j \in 1..i - 2 : g[j].writes = f[j].writes
        /\ \A w : w \in g[i - 1].writes <=> \E j \in i - 1 .. Len(f) : w \in f[j].writes
    BY MergedFrames, FrameSeq
  <1>2. ASSUME NEW h \in 1..i - 1, NEW w PROVE Holds(g, h, w) <=> Holds(f, h, w)
    <2>1. ASSUME Holds(g, h, w) PROVE Holds(f, h, w)
      <3>1. PICK j \in 1..i - 1 : j >= h /\ w \in g[j].writes
        BY <1>1, <2>1 DEF Holds
      <3>2. PICK l \in 1..Len(f) : l >= j /\ w \in f[l].writes
        <4>1. CASE j = i - 1
          <5>1. PICK l \in i - 1 .. Len(f) : w \in f[l].writes
            BY <1>1, <3>1, <4>1
          <5>2. l \in 1..Len(f) /\ l >= j
            BY <4>1, <5>1
          <5>3. QED
            BY <5>1, <5>2
        <4>2. CASE j # i - 1
          <5>1. j \in 1..i - 2 /\ j \in 1..Len(f) /\ j >= j
            BY <1>1, <4>2
          <5>2. QED
            BY <1>1, <3>1, <5>1
        <4>3. QED
          BY <4>1, <4>2
      <3>3. l >= h
        BY <3>1, <3>2
      <3>4. QED
        BY <3>2, <3>3 DEF Holds
    <2>2. ASSUME Holds(f, h, w) PROVE Holds(g, h, w)
      <3>1. PICK l \in 1..Len(f) : l >= h /\ w \in f[l].writes
        BY <2>2 DEF Holds
      <3>2. CASE l \in 1..i - 2
        <4>1. l \in 1..Len(g) /\ w \in g[l].writes
          BY <1>1, <3>1, <3>2
        <4>2. QED
          BY <3>1, <4>1 DEF Holds
      <3>3. CASE l \notin 1..i - 2
        <4>1. l \in i - 1 .. Len(f)
          BY <1>1, <3>3
        <4>2. i - 1 \in 1..Len(g) /\ w \in g[i - 1].writes /\ i - 1 >= h
          BY <1>1, <3>1, <4>1
        <4>3. QED
          BY <4>2 DEF Holds
      <3>4. QED
        BY <3>2, <3>3
    <2>3. QED
      BY <2>1, <2>2
  <1>3. ASSUME NEW h, NEW k, Mark(f, h, k), h < i PROVE Mark(g, h, k)
    <2>1. h \in 1..Len(g) /\ g[h].name = k - 1
      <3>1. h \in 1..i - 1 /\ f[h].name = k - 1
        BY <1>1, <1>3 DEF Mark
      <3>2. QED
        BY <1>1, <3>1
    <2>2. ASSUME NEW j \in 1..Len(g), j > h PROVE g[j].name >= k
      <3>1. j \in 1..i - 1 /\ j \in 1..Len(f)
        BY <1>1
      <3>2. QED
        BY <1>1, <1>3, <2>2, <3>1 DEF Mark
    <2>3. QED
      BY <2>1, <2>2 DEF Mark
  <1>4. ASSUME Single(f) PROVE Single(g)
    <2> SUFFICES ASSUME NEW w \in Write, NEW m \in 1..i - 1, NEW n \in 1..i - 1,
                        w \in g[m].writes, w \in g[n].writes
                 PROVE  m = n
      BY <1>1 DEF Single
    <2>1. ASSUME NEW x \in 1..i - 1, w \in g[x].writes
          PROVE  \E l \in 1..Len(f) : w \in f[l].writes /\ x = IF l <= i - 2 THEN l ELSE i - 1
      <3>1. CASE x = i - 1
        <4>1. PICK l \in i - 1 .. Len(f) : w \in f[l].writes
          BY <1>1, <2>1, <3>1
        <4>2. l \in 1..Len(f) /\ ~(l <= i - 2)
          BY <4>1
        <4>3. QED
          BY <3>1, <4>1, <4>2
      <3>2. CASE x # i - 1
        <4>1. x \in 1..i - 2 /\ x \in 1..Len(f) /\ x <= i - 2
          BY <1>1, <3>2
        <4>2. QED
          BY <1>1, <2>1, <4>1
      <3>3. QED
        BY <3>1, <3>2
    <2>2. PICK l \in 1..Len(f) : w \in f[l].writes /\ m = IF l <= i - 2 THEN l ELSE i - 1
      BY <2>1
    <2>3. PICK o \in 1..Len(f) : w \in f[o].writes /\ n = IF o <= i - 2 THEN o ELSE i - 1
      BY <2>1
    <2>4. l = o
      BY <1>4, <2>2, <2>3 DEF Single
    <2>5. QED
      BY <2>2, <2>3, <2>4
  <1>5. QED
    BY <1>2, <1>3, <1>4
\* What is left are the writes before i.
LEMMA EmptiedHolds ==
  ASSUME NEW f \in Seq(Frame), NEW i \in 2..Len(f), NEW d \in Nat, NEW g, g = Emptied(f, i, d)
  PROVE  /\ g \in Seq(Frame)
         /\ \A h \in Nat : \A w : Holds(g, h, w) => Holds(f, h, w)
         /\ \A h \in Nat : \A w : Holds(f, h, w) /\ ~Holds(f, i, w) => Holds(g, h, w)
         /\ Single(f) => \A w \in Write : Holds(f, i, w) => ~Holds(g, 1, w)
         /\ \A h, k : Mark(f, h, k) /\ h < i /\ k <= d => Mark(g, h, k)
         /\ Single(f) => Single(g)
  <1>1. /\ g \in Seq(Frame) /\ Len(g) = i /\ Len(f) \in Nat
        /\ \A j \in 1..i - 1 : g[j] = f[j]
        /\ g[i] = NewFrame(d)
    <2>1. Len(f) \in Nat /\ i - 1 \in 0..Len(f) /\ i - 1 + 1 = i
      BY FrameSeq
    <2>2. g = Append(SubSeq(f, 1, i - 1), NewFrame(d)) /\ NewFrame(d) \in Frame
      BY NewFrameType DEF Emptied
    <2>3. /\ g \in Seq(Frame) /\ Len(g) = i - 1 + 1
          /\ \A j \in 1..i - 1 : g[j] = f[j]
          /\ g[i - 1 + 1] = NewFrame(d)
      BY <2>1, <2>2, CutFrames
    <2>4. QED
      BY <2>1, <2>3
  <1>2. g[i].name = d /\ g[i].writes = {}
    BY <1>1 DEF NewFrame
  <1>3. \A w : \A j \in 1..Len(g) : w \in g[j].writes => j \in 1..i - 1 /\ w \in f[j].writes
    <2> SUFFICES ASSUME NEW w, NEW j \in 1..Len(g), w \in g[j].writes
                 PROVE  j \in 1..i - 1 /\ w \in f[j].writes
      OBVIOUS
    <2>1. j # i
      BY <1>2
    <2>2. j \in 1..i - 1
      BY <1>1, <2>1
    <2>3. QED
      BY <1>1, <2>2
  <1>4. \A j \in 1..i - 1 : j \in 1..Len(f) /\ j \in 1..Len(g)
    BY <1>1
  <1>5. ASSUME NEW h \in Nat, NEW w, Holds(g, h, w) PROVE Holds(f, h, w)
    BY <1>3, <1>4, <1>5 DEF Holds
  <1>6. ASSUME NEW h \in Nat, NEW w, Holds(f, h, w), ~Holds(f, i, w) PROVE Holds(g, h, w)
    <2>1. PICK j \in 1..Len(f) : j >= h /\ w \in f[j].writes
      BY <1>6 DEF Holds
    <2>2. j \in 1..i - 1
      BY <1>6, <2>1 DEF Holds
    <2>3. QED
      BY <1>1, <1>4, <2>1, <2>2 DEF Holds
  <1>7. ASSUME Single(f), NEW w \in Write, Holds(f, i, w), Holds(g, 1, w) PROVE FALSE
    <2>1. PICK j \in 1..Len(f) : j >= i /\ w \in f[j].writes
      BY <1>7 DEF Holds
    <2>2. PICK l \in 1..i - 1 : w \in f[l].writes
      BY <1>3, <1>7 DEF Holds
    <2>3. l = j
      BY <1>4, <1>7, <2>1, <2>2 DEF Single
    <2>4. QED
      BY <2>1, <2>2, <2>3
  <1>8. ASSUME NEW h, NEW k, Mark(f, h, k), h < i, k <= d PROVE Mark(g, h, k)
    <2>1. h \in 1..i - 1 /\ f[h].name = k - 1
      BY <1>1, <1>8 DEF Mark
    <2>2. h \in 1..Len(g) /\ g[h].name = k - 1
      BY <1>1, <1>4, <2>1
    <2>3. ASSUME NEW j \in 1..Len(g), j > h PROVE g[j].name >= k
      <3>1. CASE j = i
        BY <1>2, <1>8, <3>1
      <3>2. CASE j # i
        <4>1. j \in 1..i - 1
          BY <1>1, <3>2
        <4>2. QED
          BY <1>1, <1>4, <1>8, <2>3, <4>1 DEF Mark
      <3>3. QED
        BY <3>1, <3>2
    <2>4. QED
      BY <2>2, <2>3 DEF Mark
  <1>9. ASSUME Single(f) PROVE Single(g)
    BY <1>3, <1>4, <1>9 DEF Single
  <1>10. QED
    BY <1>1, <1>5, <1>6, <1>7, <1>8, <1>9

\* The innermost level has ended, and what was written in it is part of the level
\* around it, or not counted any more.
LEMMA FitsMerged ==
  ASSUME NEW f \in Seq(Frame), NEW e, NEW n \in Nat, Len(e) = n + 1, Fits(f, e),
         NEW i \in 2..Len(f), Mark(f, i, n + 1),
         NEW e2, Len(e2) = n,
         \A m \in 1..n : \A w \in e2[m] : w \in e[m] \/ (m = n /\ w \in e[n + 1])
  PROVE  Fits(Merged(f, i), e2)
  <1>1. PICK g : g = Merged(f, i)
    OBVIOUS
  <1>2. /\ \A h \in 1..i - 1 : \A w : Holds(g, h, w) <=> Holds(f, h, w)
        /\ \A h, k : Mark(f, h, k) /\ h < i => Mark(g, h, k)
    BY <1>1, MergedHolds
  <1>3. ASSUME NEW k \in 1..n
        PROVE  \E h \in 1..Len(g) :
                  /\ Mark(g, h, k)
                  /\ \A m \in 1..n : \A w \in e2[m] : k <= m <=> Holds(g, h, w)
    <2>1. PICK h \in 1..Len(f) :
             /\ Mark(f, h, k)
             /\ \A m \in 1..n + 1 : \A w \in e[m] : k <= m <=> Holds(f, h, w)
      BY DEF Fits
    <2>2. h < i
      <3>1. k \in Nat /\ n + 1 \in Nat /\ k < n + 1 /\ Mark(f, h, k) /\ Mark(f, i, n + 1)
        BY <2>1
      <3>2. QED
        BY <3>1, MarksAreOrdered
    <2>3. Mark(g, h, k) /\ h \in 1..i - 1
      BY <1>2, <2>1, <2>2
    <2>4. ASSUME NEW m \in 1..n, NEW w \in e2[m] PROVE k <= m <=> Holds(f, h, w)
      <3>1. CASE w \in e[m]
        BY <2>1, <3>1
      <3>2. CASE m = n /\ w \in e[n + 1]
        <4>1. k <= m /\ k <= n + 1 /\ n + 1 \in 1..n + 1
          BY <3>2
        <4>2. QED
          BY <2>1, <3>2, <4>1
      <3>3. QED
        BY <3>1, <3>2
    <2>5. h \in 1..Len(g)
      BY <2>3 DEF Mark
    <2>6. QED
      BY <1>2, <2>3, <2>4, <2>5
  <1>4. QED
    BY <1>1, <1>3 DEF Fits

\* The innermost level has ended, and its writes are gone.
LEMMA FitsEmptied ==
  ASSUME NEW f \in Seq(Frame), NEW e, NEW n \in Nat, Len(e) = n + 1, Fits(f, e),
         NEW i \in 2..Len(f), Mark(f, i, n + 1),
         NEW e2, Len(e2) = n, \A m \in 1..n : e2[m] = e[m]
  PROVE  Fits(Emptied(f, i, n), e2)
  <1>1. PICK g : g = Emptied(f, i, n)
    OBVIOUS
  <1>2. /\ \A h \in Nat : \A w : Holds(g, h, w) => Holds(f, h, w)
        /\ \A h \in Nat : \A w : Holds(f, h, w) /\ ~Holds(f, i, w) => Holds(g, h, w)
        /\ \A h, k : Mark(f, h, k) /\ h < i /\ k <= n => Mark(g, h, k)
    BY <1>1, EmptiedHolds
  <1>3. \A m \in 1..n : \A w \in e[m] : ~Holds(f, i, w)
    <2>1. PICK j \in 1..Len(f) :
             /\ Mark(f, j, n + 1)
             /\ \A m \in 1..n + 1 : \A w \in e[m] : n + 1 <= m <=> Holds(f, j, w)
      BY DEF Fits
    <2>2. j = i
      <3>1. n + 1 \in Nat
        OBVIOUS
      <3>2. QED
        BY <2>1, <3>1, MarkIsMax
    <2>3. QED
      BY <2>1, <2>2
  <1>4. ASSUME NEW k \in 1..n
        PROVE  \E h \in 1..Len(g) :
                  /\ Mark(g, h, k)
                  /\ \A m \in 1..n : \A w \in e2[m] : k <= m <=> Holds(g, h, w)
    <2>1. PICK h \in 1..Len(f) :
             /\ Mark(f, h, k)
             /\ \A m \in 1..n + 1 : \A w \in e[m] : k <= m <=> Holds(f, h, w)
      BY DEF Fits
    <2>2. h < i
      <3>1. k \in Nat /\ n + 1 \in Nat /\ k < n + 1 /\ Mark(f, h, k) /\ Mark(f, i, n + 1)
        BY <2>1
      <3>2. QED
        BY <3>1, MarksAreOrdered
    <2>3. Mark(g, h, k) /\ h \in Nat
      BY <1>2, <2>1, <2>2
    <2>4. ASSUME NEW m \in 1..n, NEW w \in e2[m] PROVE k <= m <=> Holds(g, h, w)
      <3>1. w \in e[m] /\ m \in 1..n + 1
        OBVIOUS
      <3>2. k <= m <=> Holds(f, h, w)
        BY <2>1, <3>1
      <3>3. ~Holds(f, i, w)
        BY <1>3, <3>1
      <3>4. Holds(g, h, w) <=> Holds(f, h, w)
        BY <1>2, <2>3, <3>3
      <3>5. QED
        BY <3>2, <3>4
    <2>5. h \in 1..Len(g)
      BY <2>3 DEF Mark
    <2>6. QED
      BY <2>3, <2>4, <2>5
  <1>5. QED
    BY <1>1, <1>4 DEF Fits

-----------------------------------------------------------------------------
(* What each command does to a connection's frames *)

LEMMA ExecutesWrites ==
  ASSUME ServerInv, NEW c \in Conns, NEW w \in Write, Executes(c, w)
  PROVE  /\ \A b \in Conns : b # c => frames'[b] = frames[b]
         /\ frames[c] = <<>> => frames' = frames /\ committed' = committed \union {w}
         /\ frames[c] # <<>> =>
               /\ committed' = committed /\ Len(frames[c]) >= 1
               /\ frames'[c] \in Seq(Frame) /\ Len(frames'[c]) = Len(frames[c])
               /\ \A j \in 1..Len(frames[c]) : frames'[c][j].name = frames[c][j].name
               /\ \A j \in 1..Len(frames[c]) :
                     frames'[c][j].writes =
                        frames[c][j].writes \union (IF j = Len(frames[c]) THEN {w} ELSE {})
  <1>1. CASE frames[c] = <<>>
    BY <1>1 DEF Executes
  <1>2. CASE frames[c] # <<>>
    <2> DEFINE n == Len(frames[c])
               g == [frames[c][n] EXCEPT !.writes = @ \union {w}]
               f == [frames[c] EXCEPT ![n] = g]
    <2>1. n \in 1..Len(frames[c]) /\ n >= 1
      BY <1>2, FrameTypes
    <2>2. g \in Frame /\ g.name = frames[c][n].name /\ g.writes = frames[c][n].writes \union {w}
      BY <2>1, FrameTypes DEF Frame
    <2>3. frames' = [frames EXCEPT ![c] = f] /\ committed' = committed
      BY <1>2 DEF Executes
    <2> HIDE DEF g
    <2>4. /\ f \in Seq(Frame) /\ Len(f) = n
          /\ \A j \in 1..n : f[j] = IF j = n THEN g ELSE frames[c][j]
      BY <2>1, <2>2, FrameTypes, ExceptSeq
    <2> HIDE DEF f
    <2>5. frames'[c] = f /\ \A b \in Conns : b # c => frames'[b] = frames[b]
      BY <2>3 DEF ServerInv, ServerTypeOK
    <2>6. \A j \in 1..n : /\ f[j].name = frames[c][j].name
                          /\ f[j].writes = frames[c][j].writes \union (IF j = n THEN {w} ELSE {})
      BY <2>2, <2>4
    <2>7. QED
      BY <1>2, <2>1, <2>3, <2>4, <2>5, <2>6
  <1>3. QED
    BY <1>1, <1>2

LEMMA BeginsAdds ==
  ASSUME ServerInv, NEW c \in Conns, NEW d \in Nat, Begins(c, d)
  PROVE  /\ \A b \in Conns : b # c => frames'[b] = frames[b]
         /\ committed' = committed
         /\ \/ frames'[c] = Append(frames[c], NewFrame(d))
            \/ d = 0 /\ frames[c] # <<>> /\ frames'[c] = frames[c]
  <1>1. CASE d # 0
    BY <1>1 DEF Begins, SqlSavepoint, ServerInv, ServerTypeOK
  <1>2. CASE d = 0 /\ frames[c] = <<>>
    <2>1. Append(<<>>, NewFrame(0)) = <<NewFrame(0)>>
      OBVIOUS
    <2>2. QED
      BY <1>2, <2>1 DEF Begins, SqlBegin, ServerInv, ServerTypeOK
  <1>3. CASE d = 0 /\ frames[c] # <<>>
    BY <1>3 DEF Begins, SqlBegin, ServerInv, ServerTypeOK
  <1>4. QED
    BY <1>1, <1>2, <1>3

LEMMA CommitsMerges ==
  ASSUME ServerInv, NEW c \in Conns, NEW d \in Nat, Commits(c, d)
  PROVE  /\ \A b \in Conns : b # c => frames'[b] = frames[b]
         /\ d = 0 => frames'[c] = <<>> /\ committed' = committed \union Pending(c)
         /\ d # 0 => /\ frames'[c] = Merged(frames[c], Max(Savepoints(c, d)))
                     /\ Max(Savepoints(c, d)) \in 2..Len(frames[c])
                     /\ committed' = committed
  <1>1. CASE d = 0
    BY <1>1 DEF Commits, SqlCommit, ServerInv, ServerTypeOK
  <1>2. CASE d # 0
    <2>1. /\ Savepoints(c, d) # {} /\ committed' = committed
          /\ frames' = [frames EXCEPT ![c] = Merged(@, Max(Savepoints(c, d)))]
      BY <1>2 DEF Commits, SqlRelease, Merged
    <2>2. QED
      BY <1>2, <2>1, SavepointIsInner DEF ServerInv, ServerTypeOK
  <1>3. QED
    BY <1>1, <1>2

LEMMA RollsBackEmpties ==
  ASSUME ServerInv, NEW c \in Conns, NEW d \in Nat, RollsBack(c, d)
  PROVE  /\ \A b \in Conns : b # c => frames'[b] = frames[b]
         /\ committed' = committed
         /\ d = 0 => frames'[c] = <<>>
         /\ d # 0 => /\ frames'[c] = Emptied(frames[c], Max(Savepoints(c, d)), d)
                     /\ Max(Savepoints(c, d)) \in 2..Len(frames[c])
  <1>1. CASE d = 0
    BY <1>1 DEF RollsBack, SqlRollback, ServerInv, ServerTypeOK
  <1>2. CASE d # 0
    <2>1. /\ Savepoints(c, d) # {} /\ committed' = committed
          /\ frames' = [frames EXCEPT ![c] = Emptied(@, Max(Savepoints(c, d)), d)]
      BY <1>2 DEF RollsBack, SqlRollbackTo, Emptied
    <2>2. QED
      BY <1>2, <2>1, SavepointIsInner DEF ServerInv, ServerTypeOK
  <1>3. QED
    BY <1>1, <1>2

\* A command of the innermost of n + 1 levels refers to that level's mark.
LEMMA InnermostMark ==
  ASSUME ServerInv, NEW c \in Conns, NEW e, NEW n \in Nat, Len(e) = n + 1, Fits(frames[c], e)
  PROVE  /\ Mark(frames[c], Max(Savepoints(c, n)), n + 1)
         /\ \A w \in e[n + 1] : Holds(frames[c], Max(Savepoints(c, n)), w)
  <1>1. PICK i \in 1..Len(frames[c]) :
           /\ Mark(frames[c], i, n + 1)
           /\ \A m \in 1..n + 1 : \A w \in e[m] : n + 1 <= m <=> Holds(frames[c], i, w)
    BY DEF Fits
  <1>2. Savepoints(c, n) = {j \in 1..Len(frames[c]) : frames[c][j].name = n + 1 - 1}
    BY FrameTypes DEF Savepoints
  <1>3. Max(Savepoints(c, n)) = i
    <2>1. n + 1 \in Nat /\ frames[c] \in Seq(Frame)
      BY FrameTypes
    <2>2. QED
      BY <1>1, <1>2, <2>1, MarkIsMax
  <1>4. QED
    BY <1>1, <1>3

LEMMA PendingHolds ==
  ASSUME ServerInv, NEW c \in Conns, NEW w
  PROVE  w \in Pending(c) <=> Holds(frames[c], 1, w)
  BY FrameTypes DEF Pending, Holds

-----------------------------------------------------------------------------
(* What becomes of each write *)

\* Write w is in the transaction open on c.
Open(w, c) == Holds(frames[c], 1, w)

\* Write w was given out.
Given(w) == w[2] <= writes[w[1]]

InOneFrame == \A c \in Conns : Single(frames[c])

OnOneConnection == \A w \in Write : \A b, c \in Conns : Open(w, b) /\ Open(w, c) => b = c

OpenIsUndecided ==
    \A w \in Write : \A c \in Conns :
        Open(w, c) => w \notin committed /\ w \notin revoked

AllGiven ==
    /\ \A w \in Write : w \in committed \/ w \in revoked => Given(w)
    /\ \A w \in Write : \A c \in Conns : Open(w, c) => Given(w)

Settled == promised \subseteq committed /\ revoked \intersect committed = {}

\* A write is on one connection, in one frame, until it is committed or gone, and
\* what the code reported has happened.
Accounted ==
    InOneFrame /\ OnOneConnection /\ OpenIsUndecided /\ AllGiven /\ Settled

\* A step on connection c: at most the writes of N are new, those of C become
\* durable, and those of R are reported as rolled back.
LEMMA AccountsKept ==
  ASSUME Accounted, ReportTypeOK, committed \subseteq Write, NEW c \in Conns,
         NEW N \in SUBSET Write, NEW C \in SUBSET Write, NEW R \in SUBSET Write,
         \A b \in Conns : b # c => frames'[b] = frames[b],
         Single(frames'[c]),
         \A w \in Write : Holds(frames'[c], 1, w) => Open(w, c) \/ w \in N,
         \A w \in Write : Given(w) => Given(w)',
         \A w \in N : ~Given(w) /\ Given(w)',
         committed' = committed \union C,
         \A w \in C : (Open(w, c) \/ w \in N) /\ ~Holds(frames'[c], 1, w),
         revoked' = revoked \union R,
         \A w \in R : Open(w, c) /\ ~Holds(frames'[c], 1, w) /\ w \notin C,
         promised' \subseteq promised \union C
  PROVE  Accounted'
  <1>1. InOneFrame'
    BY DEF Accounted, InOneFrame
  <1>2. ASSUME NEW w \in Write, NEW b \in Conns, Open(w, b)' PROVE Open(w, b) \/ (b = c /\ w \in N)
    BY <1>2 DEF Open
  <1>3. OnOneConnection'
    <2> SUFFICES ASSUME NEW w \in Write, NEW b \in Conns, NEW d \in Conns, Open(w, b)', Open(w, d)'
                 PROVE  b = d
      BY DEF OnOneConnection
    <2>1. \A x \in Conns : Open(w, x) => w \notin N
      BY DEF Accounted, AllGiven
    <2>2. Open(w, b) \/ (b = c /\ w \in N)
      BY <1>2
    <2>3. Open(w, d) \/ (d = c /\ w \in N)
      BY <1>2
    <2>4. QED
      BY <2>1, <2>2, <2>3 DEF Accounted, OnOneConnection
  <1>4. OpenIsUndecided'
    <2> SUFFICES ASSUME NEW w \in Write, NEW b \in Conns, Open(w, b)'
                 PROVE  w \notin committed' /\ w \notin revoked'
      BY DEF OpenIsUndecided
    <2>1. Open(w, b) \/ (b = c /\ w \in N)
      BY <1>2
    <2>2. w \notin committed /\ w \notin revoked
      BY <2>1 DEF Accounted, OpenIsUndecided, AllGiven
    <2>3. w \notin C /\ w \notin R
      <3>1. CASE b = c
        BY <3>1 DEF Open
      <3>2. CASE b # c
        BY <2>1, <3>2 DEF Accounted, OnOneConnection, AllGiven
      <3>3. QED
        BY <3>1, <3>2
    <2>4. QED
      BY <2>2, <2>3
  <1>5. AllGiven'
    <2>1. ASSUME NEW w \in Write, NEW b \in Conns, Open(w, b)' PROVE Given(w)'
      BY <1>2, <2>1 DEF Accounted, AllGiven
    <2>2. ASSUME NEW w \in Write, w \in committed' \/ w \in revoked' PROVE Given(w)'
      BY <2>2 DEF Accounted, AllGiven
    <2>3. QED
      BY <2>1, <2>2 DEF AllGiven
  <1>6. Settled'
    <2>1. promised' \subseteq committed'
      BY DEF Accounted, Settled
    <2>2. ASSUME NEW w, w \in revoked', w \in committed' PROVE FALSE
      <3>1. w \in Write
        BY <2>2 DEF ReportTypeOK
      <3>2. w \in C => w \notin revoked
        BY <3>1 DEF Accounted, OpenIsUndecided, AllGiven
      <3>3. w \in R => w \notin committed
        BY <3>1 DEF Accounted, OpenIsUndecided
      <3>4. w \in revoked => w \notin committed
        BY DEF Accounted, Settled
      <3>5. QED
        BY <2>2, <3>2, <3>3, <3>4
    <2>3. QED
      BY <2>1, <2>2 DEF Settled
  <1>7. QED
    BY <1>1, <1>3, <1>4, <1>5, <1>6 DEF Accounted

\* A step that makes nothing durable and reports nothing.
LEMMA NothingDecided ==
  ASSUME Accounted, ReportTypeOK, committed \subseteq Write, NEW c \in Conns,
         NEW N \in SUBSET Write,
         \A b \in Conns : b # c => frames'[b] = frames[b],
         Single(frames'[c]),
         \A w \in Write : Holds(frames'[c], 1, w) => Open(w, c) \/ w \in N,
         \A w \in Write : Given(w) => Given(w)',
         \A w \in N : ~Given(w) /\ Given(w)',
         UNCHANGED <<committed, promised, revoked>>
  PROVE  Accounted'
  <1>1. PICK none \in SUBSET Write : none = {}
    OBVIOUS
  <1>2. /\ committed' = committed \union none /\ revoked' = revoked \union none
        /\ promised' \subseteq promised \union none
    BY <1>1
  <1>3. /\ \A w \in none : (Open(w, c) \/ w \in N) /\ ~Holds(frames'[c], 1, w)
        /\ \A w \in none : Open(w, c) /\ ~Holds(frames'[c], 1, w) /\ w \notin none
    BY <1>1
  <1>4. QED
    BY <1>2, <1>3, AccountsKept

-----------------------------------------------------------------------------
(* Tasks that share nothing *)

\* The levels of each task fit the frames of the connection in its context.
Fitting ==
    \A t \in Tasks : expected[t] # <<>> =>
        context[t] # None /\ Fits(frames[context[t]], expected[t])

\* A task that runs has the connection in its context to itself, and reads a depth
\* that is the number of its levels.
LEMMA Unshared ==
  ASSUME Inv, NothingShared, NEW t \in Tasks, ~Absent(pc[t])
  PROVE  /\ t \notin Children
         /\ context[t] # None => context[t] \in Conns /\ lease[t] = context[t]
         /\ AtBegin(pc[t]) => depth[t] = Levels(t) + 1 /\ context[t] # None
         /\ InBody(pc[t]) \/ AtExit(pc[t]) =>
               depth[t] = Levels(t) /\ (context[t] = None <=> Levels(t) = 0)
  <1>1. t \notin Children
    BY DEF NothingShared, Absent
  <1>2. context[t] # None => context[t] \in Conns /\ lease[t] = context[t]
    BY <1>1, TaskTypes DEF HandOK
  <1>3. AtBegin(pc[t]) => depth[t] = Levels(t) + 1 /\ context[t] # None
    BY <1>1, TaskTypes, Places DEF DepthOK
  <1>4. InBody(pc[t]) \/ AtExit(pc[t]) =>
           depth[t] = Levels(t) /\ (context[t] = None <=> Levels(t) = 0)
    BY <1>1, TaskTypes, Places DEF DepthOK
  <1>5. QED
    BY <1>1, <1>2, <1>3, <1>4

\* No transaction is open on the connection of a task that has no level.
LEMMA NotYetOpen ==
  ASSUME Inv, NothingShared, NEW t \in Tasks, lease[t] \in Conns, Levels(t) = 0, ~AtEnd(pc[t])
  PROVE  frames[lease[t]] = <<>>
  <1> SUFFICES ASSUME frames[lease[t]] # <<>> PROVE FALSE
    OBVIOUS
  <1>1. lease[t] \notin dirty /\ lease[t] # None
    BY ConnNumbers DEF NothingShared
  <1>2. PICK u \in Tasks : lease[u] = lease[t] /\ Inside(u)
    BY <1>1 DEF Inv, OpenIsHeld
  <1>3. u = t
    BY <1>1, <1>2 DEF Inv, PoolInv, Custody, LeasesApart
  <1>4. QED
    BY <1>2, <1>3, TaskTypes DEF Inside

\* Another task with a transaction has another connection.
LEMMA OtherConnection ==
  ASSUME Inv, NothingShared, NEW t \in Tasks, NEW u \in Tasks, u # t, expected[u] # <<>>,
         context[u] # None
  PROVE  context[u] \in Conns /\ context[u] # lease[t]
  <1>1. ~Absent(pc[u])
    <2> SUFFICES ASSUME Absent(pc[u]) PROVE FALSE
      OBVIOUS
    <2>1. Levels(u) = 0
      BY TaskTypes DEF HandOK, DepthOK
    <2>2. QED
      BY <2>1, TaskTypes
  <1>2. context[u] \in Conns /\ lease[u] = context[u]
    BY <1>1, Unshared
  <1>3. context[u] # lease[t]
    BY <1>2, ConnNumbers DEF Inv, PoolInv, Custody, LeasesApart
  <1>4. QED
    BY <1>2, <1>3

\* A step of one task on the connection it has leaves the levels of the others alone.
LEMMA FittingKept ==
  ASSUME Inv, NothingShared, Fitting, NEW t \in Tasks, lease[t] \in Conns,
         \A b \in Conns : b # lease[t] => frames'[b] = frames[b],
         \A u \in Tasks : u # t => context'[u] = context[u] /\ expected'[u] = expected[u],
         expected'[t] # <<>> => context'[t] # None /\ Fits(frames'[context'[t]], expected'[t])
  PROVE  Fitting'
  <1> SUFFICES ASSUME NEW u \in Tasks, u # t, expected'[u] # <<>>
               PROVE  context'[u] # None /\ Fits(frames'[context'[u]], expected'[u])
    BY DEF Fitting
  <1>1. context'[u] = context[u] /\ expected'[u] = expected[u]
    OBVIOUS
  <1>2. context[u] # None /\ Fits(frames[context[u]], expected[u])
    BY <1>1 DEF Fitting
  <1>3. context[u] \in Conns /\ context[u] # lease[t]
    BY <1>1, <1>2, OtherConnection
  <1>4. QED
    BY <1>1, <1>2, <1>3

Sound == Accounted /\ Fitting

LEMMA QuietStep ==
  ASSUME Sound, UNCHANGED <<frames, committed, promised, revoked, expected>>,
         \A t \in Tasks : expected[t] # <<>> => context'[t] = context[t],
         \A w \in Write : Given(w) => Given(w)'
  PROVE  Sound'
  <1>1. Fitting'
    BY DEF Sound, Fitting
  <1>2. InOneFrame' /\ OnOneConnection' /\ OpenIsUndecided' /\ Settled'
    BY DEF Sound, Accounted, InOneFrame, OnOneConnection, OpenIsUndecided, Settled, Open
  <1>3. AllGiven'
    BY DEF Sound, Accounted, AllGiven, Open
  <1>4. QED
    BY <1>1, <1>2, <1>3 DEF Sound, Accounted

-----------------------------------------------------------------------------
(* The writes that tasks are given *)

LEMMA GivenStays ==
  ASSUME CountsTypeOK, [Next]_vars
  PROVE  \A w \in Write : Given(w) => Given(w)'
  <1> SUFFICES ASSUME NEW w \in Write, Given(w) PROVE Given(w)'
    OBVIOUS
  <1>1. w[1] \in Tasks /\ w[2] \in Nat
    BY TransactionAssumption DEF Write
  <1>2. writes'[w[1]] = writes[w[1]] \/ writes'[w[1]] = writes[w[1]] + 1
    <2>1. writes' = writes \/ \E t \in Tasks : CountsWrite(t)
      BY StepsCount DEF Counting
    <2>2. QED
      BY <1>1, <2>1 DEF CountsWrite, CountsTypeOK
  <1>3. writes[w[1]] \in Nat
    BY <1>1, TransactionAssumption DEF CountsTypeOK
  <1>4. QED
    BY <1>1, <1>2, <1>3 DEF Given

LEMMA NextWriteIsNew ==
  ASSUME CountsTypeOK, NEW t \in Tasks, CountsWrite(t), NEW w, w = NextWrite(t)
  PROVE  w \in Write /\ ~Given(w) /\ Given(w)'
  <1>1. w \in Write
    BY NextWriteType DEF CountsWrite
  <1>2. writes[t] \in Nat /\ writes'[t] = writes[t] + 1
    BY TransactionAssumption DEF CountsTypeOK, CountsWrite
  <1>3. w[1] = t /\ w[2] = writes[t] + 1
    BY DEF NextWrite
  <1>4. ~Given(w) /\ Given(w)'
    BY <1>2, <1>3 DEF Given
  <1>5. QED
    BY <1>1, <1>4

-----------------------------------------------------------------------------
(* Statements *)

LEMMA NothingHeld ==
  ASSUME NEW f, f = <<>>
  PROVE  Single(f) /\ \A h, w : ~Holds(f, h, w)
  <1>1. Len(f) = 0 /\ 1..0 = {}
    OBVIOUS
  <1>2. QED
    BY <1>1 DEF Single, Holds

LEMMA CallWrites ==
  ASSUME TransactionsInv, NothingShared, NEW t \in Tasks, Calling(t), NEW w, w = NextWrite(t)
  PROVE  /\ lease[t] \in Conns /\ frames[lease[t]] = <<>> /\ frames' = frames
         /\ expected[t] = <<>> /\ CountsWrite(t) /\ w \in Write /\ ~Given(w) /\ Given(w)'
         /\ UNCHANGED <<context, expected, revoked>>
         /\ \/ committed' = committed \union {w} /\ promised' \in {promised, promised \union {w}}
            \/ committed' = committed /\ promised' = promised
  <1>0. Inv /\ CountsTypeOK /\ ServerInv
    BY DEF TransactionsInv
  <1>1. AtCall(pc[t]) /\ CountsWrite(t) /\ UNCHANGED <<context, expected, revoked>>
    BY DEF Calling, CallReturns, CallFails, AtCall, reportVars
  <1>2. PICK c : c = lease[t]
    OBVIOUS
  <1>3. c \in Conns /\ Levels(t) = 0 /\ ~AtEnd(pc[t])
    <2>1. ~Absent(pc[t]) /\ ~AtBegin(pc[t]) /\ ~AtEnd(pc[t])
      BY <1>1, Places
    <2>2. t \notin Children
      BY <1>0, <2>1, Unshared
    <2>3. QED
      BY <1>0, <1>1, <1>2, <2>1, <2>2, TaskTypes DEF HandOK, DepthOK
  <1>4. frames[c] = <<>> /\ expected[t] = <<>>
    BY <1>0, <1>2, <1>3, NotYetOpen, TaskTypes
  <1>5. w \in Write /\ ~Given(w) /\ Given(w)'
    BY <1>0, <1>1, NextWriteIsNew
  <1>6. /\ frames' = frames
        /\ \/ committed' = committed \union {w} /\ promised' \in {promised, promised \union {w}}
           \/ committed' = committed /\ promised' = promised
    <2>1. CASE Executes(c, w)
      <3>1. frames' = frames /\ committed' = committed \union {w}
        BY <1>0, <1>3, <1>4, <1>5, <2>1, ExecutesWrites
      <3>2. promised' \in {promised, promised \union {w}}
        BY DEF Calling, CallReturns, CallFails, reportVars
      <3>3. QED
        BY <3>1, <3>2
    <2>2. CASE UNCHANGED serverVars /\ UNCHANGED reportVars
      BY <2>2 DEF serverVars, reportVars
    <2>3. QED
      BY <1>2, <2>1, <2>2 DEF Calling, CallReturns, CallFails
  <1>7. QED
    BY <1>1, <1>2, <1>3, <1>4, <1>5, <1>6

LEMMA CallSound ==
  ASSUME TransactionsInv, NothingShared, Sound, \A w \in Write : Given(w) => Given(w)',
         NEW t \in Tasks, Calling(t)
  PROVE  Sound'
  <1>0. Inv /\ CountsTypeOK /\ ServerInv /\ ReportTypeOK
    BY DEF TransactionsInv
  <1>1. PICK c : c = lease[t]
    OBVIOUS
  <1>2. PICK w : w = NextWrite(t)
    OBVIOUS
  <1>3. c \in Conns /\ frames[c] = <<>> /\ UNCHANGED <<context, expected, revoked>>
    BY <1>1, <1>2, CallWrites
  <1>4. w \in Write /\ ~Given(w) /\ Given(w)'
    BY <1>2, CallWrites
  <1>5. /\ frames' = frames
        /\ \/ committed' = committed \union {w} /\ promised' \subseteq promised \union {w}
           \/ committed' = committed /\ promised' = promised
    BY <1>2, CallWrites
  <1>6. Fitting'
    BY <1>3, <1>5 DEF Sound, Fitting
  <1>7. committed \subseteq Write /\ Accounted
    BY <1>0 DEF ServerInv, ServerTypeOK, Sound
  <1>8. Single(frames'[c]) /\ \A v : ~Holds(frames'[c], 1, v)
    BY <1>3, <1>5, NothingHeld
  <1>9. Accounted'
    <2>1. CASE committed' = committed \union {w} /\ promised' \subseteq promised \union {w}
      <3>1. revoked' = revoked \union {}
        BY <1>3
      <3>2. PICK N \in SUBSET Write : N = {w}
        BY <1>4
      <3>3. /\ \A b \in Conns : b # c => frames'[b] = frames[b]
            /\ \A v \in Write : Holds(frames'[c], 1, v) => Open(v, c) \/ v \in N
            /\ \A v \in N : (Open(v, c) \/ v \in N) /\ ~Holds(frames'[c], 1, v)
        BY <1>5, <1>8
      <3>4. \A v \in N : ~Given(v) /\ Given(v)'
        BY <1>4, <3>2
      <3>5. committed' = committed \union N /\ promised' \subseteq promised \union N
        BY <2>1, <3>2
      <3>6. {} \in SUBSET Write
        OBVIOUS
      <3>7. QED
        BY <1>0, <1>3, <1>7, <1>8, <3>1, <3>3, <3>4, <3>5, <3>6, AccountsKept
    <2>2. CASE committed' = committed /\ promised' = promised
      <3>1. PICK N \in SUBSET Write : N = {}
        OBVIOUS
      <3>2. /\ \A b \in Conns : b # c => frames'[b] = frames[b]
            /\ \A v \in Write : Holds(frames'[c], 1, v) => Open(v, c) \/ v \in N
        BY <1>5, <1>8
      <3>3. \A v \in N : ~Given(v) /\ Given(v)'
        BY <3>1
      <3>4. UNCHANGED <<committed, promised, revoked>>
        BY <1>3, <2>2
      <3>5. QED
        BY <1>0, <1>3, <1>7, <1>8, <3>2, <3>3, <3>4, NothingDecided
    <2>3. QED
      BY <1>5, <2>1, <2>2
  <1>10. QED
    BY <1>6, <1>9 DEF Sound

\* A statement in a transaction goes to the last frame of its connection and to the
\* innermost level of its task.
FrameWritten(f, g, w) ==
    /\ g \in Seq(Frame) /\ Len(g) = Len(f)
    /\ \A j \in 1..Len(f) : g[j].name = f[j].name
    /\ \A j \in 1..Len(f) : g[j].writes = f[j].writes \union (IF j = Len(f) THEN {w} ELSE {})

InnermostWritten(e, e2, w) ==
    /\ Len(e2) = Len(e)
    /\ \A m \in 1..Len(e) : e2[m] = e[m] \union (IF m = Len(e) THEN {w} ELSE {})

LEMMA StatementWrites ==
  ASSUME TransactionsInv, NothingShared, Sound, NEW t \in Tasks, Statement(t),
         NEW c, c = context[t], NEW e, e = expected[t], NEW w, w = NextWrite(t),
         NEW g, g = frames'[c], NEW e2, e2 = expected'[t]
  PROVE  /\ c \in Conns /\ lease[t] = c /\ c # None
         /\ e \in Seq(SUBSET Write) /\ Len(e) \in Nat /\ Len(e) >= 1
         /\ w \in Write /\ ~Given(w) /\ Given(w)' /\ ~Holds(frames[c], 1, w)
         /\ UNCHANGED <<context, committed, promised, revoked>>
         /\ \A b \in Conns : b # c => frames'[b] = frames[b]
         /\ frames[c] \in Seq(Frame) /\ Len(frames[c]) >= 1 /\ Fits(frames[c], e)
         /\ FrameWritten(frames[c], g, w)
         /\ \A u \in Tasks : u # t => expected'[u] = expected[u]
         /\ InnermostWritten(e, e2, w)
  <1>0. Inv /\ CountsTypeOK /\ ServerInv /\ ReportTypeOK
    BY DEF TransactionsInv
  <1>1. /\ InBody(pc[t]) /\ CountsWrite(t) /\ c \in live
        /\ UNCHANGED <<context, promised, revoked>>
    BY DEF Statement, InBody, reportVars
  <1>2. /\ c \in Conns /\ lease[t] = c /\ c # None /\ Len(e) \in Nat /\ Len(e) >= 1
        /\ e # <<>> /\ e \in Seq(SUBSET Write)
    <2>1. ~Absent(pc[t])
      BY <1>1, Places
    <2>2. c \in Conns /\ c # None
      BY <1>0, <1>1, ConnNumbers DEF Inv, PoolInv, Custody
    <2>3. lease[t] = c /\ Levels(t) # 0
      BY <1>0, <1>1, <2>1, <2>2, Unshared
    <2>4. QED
      BY <1>0, <2>2, <2>3, TaskTypes DEF Levels
  <1>3. Fits(frames[c], e)
    BY <1>2 DEF Sound, Fitting
  <1>4. w \in Write /\ ~Given(w) /\ Given(w)'
    BY <1>0, <1>1, NextWriteIsNew
  <1>5. expected' = [expected EXCEPT ![t] = [e EXCEPT ![Len(e)] = @ \union {w}]]
    BY <1>2 DEF Statement
  <1>6. Executes(c, w)
    BY DEF Statement
  <1>7. frames[c] # <<>> /\ frames[c] \in Seq(Frame)
    <2>1. 1 \in 1..Len(e)
      BY <1>2
    <2>2. \E i \in 1..Len(frames[c]) : TRUE
      BY <1>3, <2>1 DEF Fits
    <2>3. QED
      BY <1>0, <1>2, <2>2, FrameTypes, EmptySeq
  <1>8. ~Holds(frames[c], 1, w)
    BY <1>2, <1>4 DEF Sound, Accounted, AllGiven, Open
  <1>9. /\ \A b \in Conns : b # c => frames'[b] = frames[b]
        /\ committed' = committed /\ Len(frames[c]) >= 1
        /\ g \in Seq(Frame) /\ Len(g) = Len(frames[c])
        /\ \A j \in 1..Len(frames[c]) : g[j].name = frames[c][j].name
        /\ \A j \in 1..Len(frames[c]) :
              g[j].writes = frames[c][j].writes \union (IF j = Len(frames[c]) THEN {w} ELSE {})
    BY <1>0, <1>2, <1>4, <1>6, <1>7, ExecutesWrites
  <1>10. e2 = [e EXCEPT ![Len(e)] = @ \union {w}] /\ \A u \in Tasks : u # t => expected'[u] = expected[u]
    BY <1>0, <1>5, TaskTypes DEF TasksTypeOK
  <1>11. /\ Len(e2) = Len(e)
         /\ \A m \in 1..Len(e) : e2[m] = e[m] \union (IF m = Len(e) THEN {w} ELSE {})
    <2>1. Len(e) \in 1..Len(e) /\ DOMAIN e = 1..Len(e)
      BY <1>2, LenProperties
    <2>2. e[Len(e)] \union {w} \in SUBSET Write
      BY <1>2, <1>4, <2>1, ElementOfSeq
    <2>3. Len(e2) = Len(e)
      BY <1>2, <1>10, <2>1, <2>2, LevelWritten
    <2>4. \A m \in 1..Len(e) : e2[m] = IF m = Len(e) THEN e[m] \union {w} ELSE e[m]
      BY <1>10, <2>1
    <2>5. QED
      BY <2>3, <2>4
  <1>12. FrameWritten(frames[c], g, w)
    BY <1>9 DEF FrameWritten
  <1>13. InnermostWritten(e, e2, w)
    BY <1>11 DEF InnermostWritten
  <1>14. QED
    BY <1>1, <1>2, <1>3, <1>4, <1>7, <1>8, <1>9, <1>10, <1>12, <1>13

LEMMA StatementSound ==
  ASSUME TransactionsInv, NothingShared, Sound, \A w \in Write : Given(w) => Given(w)',
         NEW t \in Tasks, Statement(t)
  PROVE  Sound'
  <1>0. Inv /\ ServerInv /\ ReportTypeOK
    BY DEF TransactionsInv
  <1>1. PICK c, e, w, g, e2 :
           c = context[t] /\ e = expected[t] /\ w = NextWrite(t) /\ g = frames'[c] /\ e2 = expected'[t]
    OBVIOUS
  <1>2. /\ c \in Conns /\ lease[t] = c /\ c # None
        /\ e \in Seq(SUBSET Write) /\ Len(e) \in Nat /\ Len(e) >= 1
        /\ w \in Write /\ ~Given(w) /\ Given(w)' /\ ~Holds(frames[c], 1, w)
        /\ UNCHANGED <<context, committed, promised, revoked>>
        /\ \A b \in Conns : b # c => frames'[b] = frames[b]
        /\ frames[c] \in Seq(Frame) /\ Len(frames[c]) >= 1 /\ Fits(frames[c], e)
        /\ FrameWritten(frames[c], g, w) /\ InnermostWritten(e, e2, w)
        /\ \A u \in Tasks : u # t => expected'[u] = expected[u]
    BY <1>1, StatementWrites
  <1>3. /\ g \in Seq(Frame) /\ Len(g) = Len(frames[c])
        /\ \A j \in 1..Len(frames[c]) : g[j].name = frames[c][j].name
        /\ \A j \in 1..Len(frames[c]) :
              g[j].writes = frames[c][j].writes \union (IF j = Len(frames[c]) THEN {w} ELSE {})
    BY <1>2 DEF FrameWritten
  <1>4. /\ Len(e2) = Len(e)
        /\ \A m \in 1..Len(e) : e2[m] = e[m] \union (IF m = Len(e) THEN {w} ELSE {})
    BY <1>2 DEF InnermostWritten
  <1>5. Fits(g, e2)
    <2>1. PICK f \in Seq(Frame) : f = frames[c]
      BY <1>2
    <2>2. /\ Len(f) >= 1 /\ Len(g) = Len(f) /\ g \in Seq(Frame)
          /\ \A j \in 1..Len(f) : g[j].name = f[j].name
      BY <1>2, <1>3, <2>1
    <2>3. \A j \in 1..Len(f) : g[j].writes = f[j].writes \union (IF j = Len(f) THEN {w} ELSE {})
      BY <1>3, <2>1
    <2>4. ~Holds(f, 1, w) /\ Fits(f, e)
      BY <1>2, <2>1
    <2>5. Len(e) \in Nat
      BY <1>2
    <2>6. QED
      BY <1>4, <2>2, <2>3, <2>4, <2>5, FitsWritten
  <1>6. /\ \A u \in Tasks : u # t => context'[u] = context[u] /\ expected'[u] = expected[u]
        /\ context'[t] = c /\ expected'[t] = e2
    BY <1>1, <1>2, <1>4
  <1>7. Fitting'
    BY <1>0, <1>1, <1>2, <1>5, <1>6, FittingKept DEF Sound
  <1>8. Accounted'
    <2>1. (\A v : Holds(g, 1, v) => Holds(frames[c], 1, v) \/ v = w) /\ Single(g)
      <3>1. Single(frames[c])
        BY <1>2 DEF Sound, Accounted, InOneFrame
      <3>2. QED
        BY <1>2, <1>3, <3>1, WrittenHolds
    <2>2. PICK N \in SUBSET Write : N = {w}
      BY <1>2
    <2>3. /\ \A v \in Write : Holds(frames'[c], 1, v) => Open(v, c) \/ v \in N
          /\ Single(frames'[c])
      BY <1>1, <2>1, <2>2 DEF Open
    <2>4. committed \subseteq Write /\ Accounted
      BY <1>0 DEF ServerInv, ServerTypeOK, Sound
    <2>5. \A v \in N : ~Given(v) /\ Given(v)'
      BY <1>2, <2>2
    <2>6. QED
      BY <1>0, <1>2, <2>3, <2>4, <2>5, NothingDecided
  <1>9. QED
    BY <1>7, <1>8 DEF Sound

-----------------------------------------------------------------------------
(* BEGIN and SAVEPOINT *)

\* A frame may be added to the connection: no write moves.
LEMMA AddedSound ==
  ASSUME TransactionsInv, Sound, \A w \in Write : Given(w) => Given(w)', NEW c \in Conns,
         NEW d \in Nat,
         frames'[c] = Append(frames[c], NewFrame(d)) \/ frames'[c] = frames[c],
         \A b \in Conns : b # c => frames'[b] = frames[b],
         UNCHANGED <<committed, promised, revoked>>
  PROVE  Accounted'
  <1>1. /\ ReportTypeOK /\ ServerInv /\ committed \subseteq Write
        /\ Accounted /\ Single(frames[c]) /\ frames[c] \in Seq(Frame)
    BY FrameTypes DEF TransactionsInv, ServerInv, ServerTypeOK, Sound, Accounted, InOneFrame
  <1>2. PICK g : g = frames'[c]
    OBVIOUS
  <1>3. Single(g) /\ \A w : Holds(g, 1, w) => Holds(frames[c], 1, w)
    <2>1. CASE g = Append(frames[c], NewFrame(d))
      <3>1. /\ \A i, w : i \in 1..Len(frames[c]) + 1 => (Holds(g, i, w) <=> Holds(frames[c], i, w))
            /\ Single(g)
        BY <1>1, <2>1, FrameAdded
      <3>2. 1 \in 1..Len(frames[c]) + 1
        BY <1>1, FrameSeq
      <3>3. QED
        BY <3>1, <3>2
    <2>2. CASE g = frames[c]
      BY <1>1, <2>2
    <2>3. QED
      BY <1>2, <2>1, <2>2
  <1>4. PICK N \in SUBSET Write : N = {}
    OBVIOUS
  <1>5. /\ \A w \in Write : Holds(frames'[c], 1, w) => Open(w, c) \/ w \in N
        /\ Single(frames'[c])
    BY <1>2, <1>3 DEF Open
  <1>6. \A w \in N : ~Given(w) /\ Given(w)'
    BY <1>4
  <1>7. QED
    BY <1>1, <1>5, <1>6, NothingDecided

LEMMA BeginOnConnection ==
  ASSUME TransactionsInv, NothingShared, NEW t \in Tasks, AtBegin(pc[t])
  PROVE  /\ context[t] \in Conns /\ lease[t] = context[t] /\ t \notin Children
         /\ Level(t) = Len(expected[t]) /\ Len(expected[t]) \in Nat
         /\ expected[t] \in Seq(SUBSET Write)
         /\ Level(t) = 0 => expected[t] = <<>> /\ frames[context[t]] = <<>>
         /\ depth[t] = Level(t) + 1
  <1>0. Inv
    BY DEF TransactionsInv
  <1>1. ~Absent(pc[t]) /\ ~AtEnd(pc[t])
    BY Places
  <1>2. /\ t \notin Children /\ context[t] \in Conns /\ lease[t] = context[t]
        /\ depth[t] = Levels(t) + 1
    BY <1>0, <1>1, Unshared
  <1>3. /\ Levels(t) = Len(expected[t]) /\ Levels(t) \in Nat /\ expected[t] \in Seq(SUBSET Write)
        /\ expected[t] = <<>> <=> Levels(t) = 0
    BY <1>0, TaskTypes DEF Levels
  <1>4. Level(t) = Levels(t)
    BY <1>2, <1>3 DEF Level
  <1>5. Levels(t) = 0 => frames[context[t]] = <<>>
    BY <1>0, <1>1, <1>2, NotYetOpen
  <1>6. QED
    BY <1>2, <1>3, <1>4, <1>5

LEMMA BeganSound ==
  ASSUME TransactionsInv, NothingShared, Sound, \A w \in Write : Given(w) => Given(w)',
         NEW t \in Tasks, Began(t)
  PROVE  Sound'
  <1>0. Inv /\ ServerInv
    BY DEF TransactionsInv
  <1>1. /\ AtBegin(pc[t]) /\ Begins(context[t], Level(t))
        /\ expected' = [expected EXCEPT ![t] = Append(@, {})]
        /\ UNCHANGED <<context, promised, revoked>>
    BY DEF Began, AtBegin, reportVars
  <1>2. PICK c \in Conns : c = context[t]
    BY <1>1, BeginOnConnection
  <1>3. PICK e \in Seq(SUBSET Write) : e = expected[t]
    BY <1>1, BeginOnConnection
  <1>4. /\ lease[t] = c /\ Level(t) = Len(e) /\ Len(e) \in Nat
        /\ Len(e) = 0 => frames[c] = <<>>
    BY <1>1, <1>2, <1>3, BeginOnConnection
  <1>5. /\ \A b \in Conns : b # c => frames'[b] = frames[b]
        /\ committed' = committed
        /\ frames'[c] = Append(frames[c], NewFrame(Len(e)))
    BY <1>0, <1>1, <1>2, <1>4, BeginsAdds
  <1>6. Accounted'
    BY <1>1, <1>4, <1>5, AddedSound
  <1>7. Fits(frames[c], e) /\ frames[c] \in Seq(Frame)
    <2>1. CASE Len(e) = 0
      BY <1>0, <2>1, FrameTypes DEF Fits
    <2>2. CASE Len(e) # 0
      <3>1. e # <<>>
        BY <2>2
      <3>2. QED
        BY <1>0, <1>2, <1>3, <3>1, FrameTypes DEF Sound, Fitting
    <2>3. QED
      BY <2>1, <2>2
  <1>8. PICK e2 : e2 = Append(e, {})
    OBVIOUS
  <1>9. Len(e2) = Len(e) + 1 /\ e2[Len(e) + 1] = {} /\ \A m \in 1..Len(e) : e2[m] = e[m]
    BY <1>8, AppendProperties
  <1>10. Fits(frames'[c], e2)
    <2>1. PICK f \in Seq(Frame) : f = frames[c]
      BY <1>7
    <2>2. PICK g : g = frames'[c]
      OBVIOUS
    <2>3. g = Append(f, NewFrame(Len(e))) /\ Fits(f, e) /\ Len(e) \in Nat
      BY <1>4, <1>5, <1>7, <2>1, <2>2
    <2>4. Fits(g, e2)
      BY <1>9, <2>3, FitsBegun
    <2>5. QED
      BY <2>2, <2>4
  <1>11. /\ \A u \in Tasks : u # t => context'[u] = context[u] /\ expected'[u] = expected[u]
         /\ context'[t] = c /\ expected'[t] = e2 /\ c # None
    BY <1>0, <1>1, <1>2, <1>3, <1>8, TaskTypes, ConnNumbers DEF TasksTypeOK
  <1>12. Fitting'
    BY <1>0, <1>4, <1>5, <1>10, <1>11, FittingKept DEF Sound
  <1>13. QED
    BY <1>6, <1>12 DEF Sound

LEMMA BeginCancelledSound ==
  ASSUME TransactionsInv, NothingShared, Sound, \A w \in Write : Given(w) => Given(w)',
         NEW t \in Tasks, BeginCancelled(t)
  PROVE  Sound'
  <1>0. Inv /\ ServerInv
    BY DEF TransactionsInv
  <1>1. /\ AtBegin(pc[t])
        /\ Begins(context[t], Level(t)) \/ UNCHANGED serverVars
        /\ UNCHANGED <<context, expected, promised, revoked>>
    BY DEF BeginCancelled, AtBegin, reportVars
  <1>2. PICK c \in Conns : c = context[t]
    BY <1>1, BeginOnConnection
  <1>3. PICK e \in Seq(SUBSET Write) : e = expected[t]
    BY <1>1, BeginOnConnection
  <1>4. lease[t] = c /\ Level(t) = Len(e) /\ Len(e) \in Nat
    BY <1>1, <1>2, <1>3, BeginOnConnection
  <1>5. /\ \A b \in Conns : b # c => frames'[b] = frames[b]
        /\ committed' = committed
        /\ frames'[c] = Append(frames[c], NewFrame(Len(e))) \/ frames'[c] = frames[c]
    <2>1. CASE UNCHANGED serverVars
      BY <2>1 DEF serverVars
    <2>2. CASE Begins(context[t], Level(t))
      BY <1>0, <1>2, <1>4, <2>2, BeginsAdds
    <2>3. QED
      BY <1>1, <2>1, <2>2
  <1>6. Accounted'
    BY <1>1, <1>4, <1>5, AddedSound
  <1>7. e # <<>> => Fits(frames'[c], e)
    <2> SUFFICES ASSUME e # <<>> PROVE Fits(frames'[c], e)
      OBVIOUS
    <2>1. Fits(frames[c], e) /\ frames[c] \in Seq(Frame)
      BY <1>0, <1>2, <1>3, FrameTypes DEF Sound, Fitting
    <2>2. QED
      BY <1>4, <1>5, <2>1, FitsBegun
  <1>8. /\ \A u \in Tasks : u # t => context'[u] = context[u] /\ expected'[u] = expected[u]
        /\ context'[t] = c /\ expected'[t] = e /\ c # None
    BY <1>1, <1>2, <1>3, ConnNumbers
  <1>9. Fitting'
    BY <1>0, <1>4, <1>5, <1>7, <1>8, FittingKept DEF Sound
  <1>10. QED
    BY <1>6, <1>9 DEF Sound

-----------------------------------------------------------------------------
(* COMMIT and RELEASE, ROLLBACK and ROLLBACK TO *)

LEMMA ExitOnConnection ==
  ASSUME TransactionsInv, NothingShared, Sound, NEW t \in Tasks, AtExit(pc[t])
  PROVE  /\ context[t] \in Conns /\ context[t] # None /\ lease[t] = context[t]
         /\ t \notin Children
         /\ Level(t) \in Nat /\ depth[t] = Level(t) + 1
         /\ Len(expected[t]) = Level(t) + 1 /\ expected[t] \in Seq(SUBSET Write)
         /\ Fits(frames[context[t]], expected[t])
         /\ Inner(t) = expected[t][Level(t) + 1] /\ Inner(t) \subseteq Write
         /\ Len(Outer(t)) = Level(t) /\ Outer(t) \in Seq(SUBSET Write)
         /\ \A m \in 1..Level(t) : Outer(t)[m] = expected[t][m]
  <1>0. Inv
    BY DEF TransactionsInv
  <1>1. /\ Len(expected[t]) >= 1 /\ Len(expected[t]) \in Nat /\ Level(t) \in Nat
        /\ Outer(t) \in Seq(SUBSET Write) /\ Len(Outer(t)) = Len(expected[t]) - 1
        /\ Inner(t) \in SUBSET Write
        /\ \A m \in 1..Len(Outer(t)) : Outer(t)[m] = expected[t][m]
    BY <1>0, OuterLevels
  <1>2. ~Absent(pc[t])
    BY Places
  <1>3. /\ t \notin Children /\ depth[t] = Levels(t) /\ (context[t] = None <=> Levels(t) = 0)
        /\ context[t] # None => context[t] \in Conns /\ lease[t] = context[t]
    BY <1>0, <1>2, Unshared
  <1>4. /\ context[t] \in Conns /\ context[t] # None /\ lease[t] = context[t]
        /\ depth[t] = Len(expected[t])
    BY <1>1, <1>3 DEF Levels
  <1>5. Len(expected[t]) = Level(t) + 1
    BY <1>1, <1>4 DEF Level
  <1>6. Inner(t) = expected[t][Level(t) + 1]
    BY <1>5 DEF Inner, Top
  <1>7. expected[t] # <<>> /\ expected[t] \in Seq(SUBSET Write)
    BY <1>0, <1>1, TaskTypes
  <1>8. Fits(frames[context[t]], expected[t])
    BY <1>7 DEF Sound, Fitting
  <1>9. depth[t] = Level(t) + 1 /\ Len(Outer(t)) = Level(t)
    BY <1>1, <1>4, <1>5
  <1>10. QED
    BY <1>1, <1>3, <1>4, <1>5, <1>6, <1>7, <1>8, <1>9

\* The task has left its innermost level: with the others on the same connection,
\* or with none.
LEMMA LeftFitting ==
  ASSUME TransactionsInv, NothingShared, Sound, NEW t \in Tasks, AtExit(pc[t]), Leaves(t),
         \A b \in Conns : b # context[t] => frames'[b] = frames[b],
         NEW e, expected' = [expected EXCEPT ![t] = e],
         Level(t) = 0 => e = <<>>,
         Level(t) # 0 => Fits(frames'[context[t]], e)
  PROVE  Fitting'
  <1>0. Inv
    BY DEF TransactionsInv
  <1>1. /\ context[t] \in Conns /\ context[t] # None /\ lease[t] = context[t]
        /\ Level(t) \in Nat /\ depth[t] = Level(t) + 1
    BY ExitOnConnection
  <1>2. /\ \A u \in Tasks : u # t => context'[u] = context[u]
        /\ depth[t] # 1 => context'[t] = context[t]
    BY <1>0, LeavesMoves
  <1>3. expected'[t] = e /\ \A u \in Tasks : u # t => expected'[u] = expected[u]
    BY <1>0, TaskTypes DEF TasksTypeOK
  <1>4. e # <<>> => context'[t] = context[t] /\ Fits(frames'[context[t]], e)
    BY <1>1, <1>2
  <1>5. expected'[t] # <<>> => context'[t] # None /\ Fits(frames'[context'[t]], expected'[t])
    BY <1>1, <1>3, <1>4
  <1>6. QED
    BY <1>0, <1>1, <1>2, <1>3, <1>5, FittingKept DEF Sound

\* Levels e are those around the innermost one of task t, with what was written in it
\* or without.
Absorbs(t, e) ==
    /\ Len(e) = Level(t)
    /\ \A m \in 1..Level(t) : \A w \in e[m] :
          w \in expected[t][m] \/ (m = Level(t) /\ w \in Inner(t))

LEMMA ReleaseSound ==
  ASSUME TransactionsInv, NothingShared, Sound, \A w \in Write : Given(w) => Given(w)',
         NEW t \in Tasks, AtExit(pc[t]), Level(t) # 0, Commits(context[t], Level(t)),
         UNCHANGED <<promised, revoked>>
  PROVE  /\ \A b \in Conns : b # context[t] => frames'[b] = frames[b]
         /\ Accounted'
         /\ \A e : Absorbs(t, e) => Fits(frames'[context[t]], e)
  <1>1. PICK c \in Conns : c = context[t]
    BY ExitOnConnection
  <1>2. PICK n \in Nat : n = Level(t)
    BY ExitOnConnection
  <1>3. PICK f \in Seq(Frame) : f = frames[c]
    BY FrameTypes DEF TransactionsInv
  <1>4. PICK i : i = Max(Savepoints(c, n))
    OBVIOUS
  <1>5. /\ \A b \in Conns : b # c => frames'[b] = frames[b]
        /\ frames'[c] = Merged(f, i) /\ i \in 2..Len(f) /\ committed' = committed
    BY <1>1, <1>2, <1>3, <1>4, CommitsMerges DEF TransactionsInv
  <1>6. /\ Len(expected[t]) = n + 1 /\ Fits(f, expected[t]) /\ Inner(t) = expected[t][n + 1]
    BY <1>1, <1>2, <1>3, ExitOnConnection
  <1>7. Mark(f, i, n + 1)
    BY <1>1, <1>3, <1>4, <1>6, InnermostMark DEF TransactionsInv
  <1>8. /\ \A h \in 1..i - 1 : \A w : Holds(frames'[c], h, w) <=> Holds(f, h, w)
        /\ Single(f) => Single(frames'[c])
    BY <1>5, MergedHolds
  <1>9. PICK N \in SUBSET Write : N = {}
    OBVIOUS
  <1>10. Single(frames'[c]) /\ \A w \in Write : Holds(frames'[c], 1, w) => Open(w, c) \/ w \in N
    <2>1. 1 \in 1..i - 1
      BY <1>5
    <2>2. QED
      BY <1>3, <1>8, <2>1 DEF Sound, Accounted, InOneFrame, Open
  <1>11. Accounted'
    <2>1. Accounted /\ ReportTypeOK /\ committed \subseteq Write
      BY DEF TransactionsInv, ServerInv, ServerTypeOK, Sound
    <2>2. \A w \in N : ~Given(w) /\ Given(w)'
      BY <1>9
    <2>3. QED
      BY <1>5, <1>10, <2>1, <2>2, NothingDecided
  <1>12. ASSUME NEW e, Absorbs(t, e) PROVE Fits(frames'[context[t]], e)
    <2>1. PICK x : x = expected[t]
      OBVIOUS
    <2>2. /\ Len(x) = n + 1 /\ Fits(f, x) /\ Len(e) = n
          /\ \A m \in 1..n : \A w \in e[m] : w \in x[m] \/ (m = n /\ w \in x[n + 1])
      BY <1>2, <1>6, <1>12, <2>1 DEF Absorbs
    <2>3. Fits(Merged(f, i), e)
      BY <1>5, <1>7, <2>2, FitsMerged
    <2>4. QED
      BY <1>1, <1>5, <2>3
  <1>13. QED
    BY <1>1, <1>5, <1>11, <1>12

LEMMA RollbackToSound ==
  ASSUME TransactionsInv, NothingShared, Sound, \A w \in Write : Given(w) => Given(w)',
         NEW t \in Tasks, AtExit(pc[t]), Level(t) # 0, RollsBack(context[t], Level(t)),
         promised' = promised, NEW R, R \subseteq Inner(t), revoked' = revoked \union R
  PROVE  /\ \A b \in Conns : b # context[t] => frames'[b] = frames[b]
         /\ Accounted'
         /\ Fits(frames'[context[t]], Outer(t))
  <1>1. PICK c \in Conns : c = context[t]
    BY ExitOnConnection
  <1>2. PICK n \in Nat : n = Level(t)
    BY ExitOnConnection
  <1>3. PICK f \in Seq(Frame) : f = frames[c]
    BY FrameTypes DEF TransactionsInv
  <1>4. PICK i : i = Max(Savepoints(c, n))
    OBVIOUS
  <1>5. /\ \A b \in Conns : b # c => frames'[b] = frames[b]
        /\ frames'[c] = Emptied(f, i, n) /\ i \in 2..Len(f) /\ committed' = committed
    BY <1>1, <1>2, <1>3, <1>4, RollsBackEmpties DEF TransactionsInv
  <1>6. /\ Len(expected[t]) = n + 1 /\ Fits(f, expected[t]) /\ Inner(t) = expected[t][n + 1]
        /\ Inner(t) \subseteq Write
    BY <1>1, <1>2, <1>3, ExitOnConnection
  <1>7. Mark(f, i, n + 1) /\ \A w \in Inner(t) : Holds(f, i, w)
    BY <1>1, <1>3, <1>4, <1>6, InnermostMark DEF TransactionsInv
  <1>8. /\ \A w : Holds(frames'[c], 1, w) => Holds(f, 1, w)
        /\ Single(f) => \A w \in Write : Holds(f, i, w) => ~Holds(frames'[c], 1, w)
        /\ Single(f) => Single(frames'[c])
    BY <1>5, EmptiedHolds
  <1>9. PICK N \in SUBSET Write : N = {}
    OBVIOUS
  <1>10. Single(f)
    BY <1>3 DEF Sound, Accounted, InOneFrame
  <1>11. Single(frames'[c]) /\ \A w \in Write : Holds(frames'[c], 1, w) => Open(w, c) \/ w \in N
    BY <1>3, <1>8, <1>10 DEF Open
  <1>12. Accounted'
    <2>1. Accounted /\ ReportTypeOK /\ committed \subseteq Write
      BY DEF TransactionsInv, ServerInv, ServerTypeOK, Sound
    <2>2. /\ \A w \in N : ~Given(w) /\ Given(w)'
          /\ \A w \in N : (Open(w, c) \/ w \in N) /\ ~Holds(frames'[c], 1, w)
          /\ committed' = committed \union N /\ promised' \subseteq promised \union N
      BY <1>5, <1>9
    <2>3. R \in SUBSET Write
      BY <1>6
    <2>4. \A w \in R : Open(w, c) /\ ~Holds(frames'[c], 1, w) /\ w \notin N
      <3>1. ASSUME NEW w \in R PROVE Holds(f, 1, w)
        <4>1. Holds(f, i, w)
          BY <1>7
        <4>2. QED
          BY <1>5, <4>1, FrameSeq DEF Holds
      <3>2. ASSUME NEW w \in R PROVE ~Holds(frames'[c], 1, w)
        BY <1>6, <1>7, <1>8, <1>10
      <3>3. QED
        BY <1>3, <1>9, <3>1, <3>2 DEF Open
    <2>5. QED
      BY <1>5, <1>11, <2>1, <2>2, <2>3, <2>4, AccountsKept
  <1>13. Fits(frames'[c], Outer(t))
    <2>1. PICK x : x = expected[t]
      OBVIOUS
    <2>2. PICK e : e = Outer(t)
      OBVIOUS
    <2>3. Len(x) = n + 1 /\ Fits(f, x) /\ Len(e) = n /\ \A m \in 1..n : e[m] = x[m]
      BY <1>2, <1>6, <2>1, <2>2, ExitOnConnection
    <2>4. Fits(Emptied(f, i, n), e)
      BY <1>5, <1>7, <2>3, FitsEmptied
    <2>5. QED
      BY <1>5, <2>2, <2>4
  <1>14. QED
    BY <1>1, <1>5, <1>12, <1>13

\* The outermost COMMIT or ROLLBACK ends the connection's transaction: its writes
\* C become durable, or those of R are gone.
LEMMA EndedSound ==
  ASSUME TransactionsInv, Sound, \A w \in Write : Given(w) => Given(w)', NEW c \in Conns,
         frames'[c] = <<>>, \A b \in Conns : b # c => frames'[b] = frames[b],
         NEW C \in SUBSET Write, NEW R \in SUBSET Write, C = {} \/ R = {},
         \A w \in C \union R : Open(w, c),
         committed' = committed \union C, revoked' = revoked \union R,
         promised' \subseteq promised \union C
  PROVE  Accounted'
  <1>1. Accounted /\ ReportTypeOK /\ committed \subseteq Write
    BY DEF TransactionsInv, ServerInv, ServerTypeOK, Sound
  <1>2. Single(frames'[c]) /\ \A w : ~Holds(frames'[c], 1, w)
    BY NothingHeld
  <1>3. PICK N \in SUBSET Write : N = {}
    OBVIOUS
  <1>4. /\ \A w \in Write : Holds(frames'[c], 1, w) => Open(w, c) \/ w \in N
        /\ \A w \in N : ~Given(w) /\ Given(w)'
        /\ \A w \in C : (Open(w, c) \/ w \in N) /\ ~Holds(frames'[c], 1, w)
        /\ \A w \in R : Open(w, c) /\ ~Holds(frames'[c], 1, w) /\ w \notin C
    BY <1>2, <1>3
  <1>5. QED
    BY <1>1, <1>2, <1>4, AccountsKept

\* What was written in the innermost level is on the connection.
LEMMA InnerIsOpen ==
  ASSUME TransactionsInv, NothingShared, Sound, NEW t \in Tasks, AtExit(pc[t]), NEW w \in Inner(t)
  PROVE  Open(w, context[t])
  <1>1. PICK x : x = expected[t]
    OBVIOUS
  <1>2. PICK n \in Nat : n = Level(t)
    BY ExitOnConnection
  <1>3. /\ Len(x) = n + 1 /\ Fits(frames[context[t]], x) /\ w \in x[n + 1]
        /\ frames[context[t]] \in Seq(Frame)
    BY <1>1, <1>2, ExitOnConnection, FrameTypes DEF TransactionsInv
  <1>4. Len(x) \in Nat /\ n + 1 \in 1..Len(x)
    BY <1>3
  <1>5. QED
    BY <1>3, <1>4, FitsHolds DEF Open

LEMMA CommitSound ==
  ASSUME TransactionsInv, NothingShared, Sound, \A w \in Write : Given(w) => Given(w)',
         NEW t \in Tasks, Commit(t)
  PROVE  Sound'
  <1>1. /\ AtExit(pc[t]) /\ Leaves(t) /\ Commits(context[t], Level(t)) /\ revoked' = revoked
        /\ Level(t) = 0 => promised' = promised \union Inner(t)
        /\ Level(t) # 0 => promised' = promised
    BY DEF Commit, AtExit
  <1>2. /\ context[t] \in Conns /\ Level(t) \in Nat /\ Len(Outer(t)) = Level(t)
        /\ Outer(t) \in Seq(SUBSET Write) /\ ServerInv
    BY <1>1, ExitOnConnection DEF TransactionsInv
  <1>3. CASE Level(t) = 0
    <2>1. /\ \A b \in Conns : b # context[t] => frames'[b] = frames[b]
          /\ frames'[context[t]] = <<>>
      BY <1>1, <1>2, <1>3, CommitsMerges
    <2>2. committed' = committed \union Pending(context[t])
      BY <1>1, <1>2, <1>3, CommitsMerges
    <2>3. PICK C \in SUBSET Write : C = Pending(context[t])
      <3>1. Pending(context[t]) \subseteq Write
        BY <1>2, FrameTypes DEF Pending
      <3>2. QED
        BY <3>1
    <2>4. PICK R \in SUBSET Write : R = {}
      OBVIOUS
    <2>5. \A w \in C \union R : Open(w, context[t])
      BY <1>2, <2>3, <2>4, PendingHolds DEF Open
    <2>6. \A w \in Inner(t) : w \in C
      BY <1>1, <1>2, <2>3, InnerIsOpen, PendingHolds DEF Open
    <2>7. /\ committed' = committed \union C /\ revoked' = revoked \union R
          /\ promised' \subseteq promised \union C
      BY <1>1, <1>3, <2>2, <2>3, <2>4, <2>6
    <2>8. Accounted'
      BY <1>2, <2>1, <2>4, <2>5, <2>7, EndedSound
    <2>9. expected' = [expected EXCEPT ![t] = <<>>]
      <3>1. Outer(t) = <<>>
        BY <1>2, <1>3, Lengths
      <3>2. QED
        BY <3>1 DEF Commit
    <2>10. Fitting'
      <3>1. PICK e : e = <<>>
        OBVIOUS
      <3>2. expected' = [expected EXCEPT ![t] = e]
        BY <2>9, <3>1
      <3>3. QED
        BY <1>1, <1>3, <2>1, <3>1, <3>2, LeftFitting
    <2>11. QED
      BY <2>8, <2>10 DEF Sound
  <1>4. CASE Level(t) # 0
    <2>1. UNCHANGED <<promised, revoked>>
      BY <1>1, <1>4
    <2>2. /\ \A b \in Conns : b # context[t] => frames'[b] = frames[b]
          /\ Accounted'
      BY <1>1, <1>4, <2>1, ReleaseSound
    <2>3. PICK o \in Seq(SUBSET Write) : o = Outer(t)
      BY <1>2
    <2>4. PICK e : e = [o EXCEPT ![Len(o)] = @ \union Inner(t)]
      OBVIOUS
    <2>5. Len(o) = Level(t) /\ Len(o) \in 1..Len(o) /\ DOMAIN o = 1..Len(o) /\ o # <<>>
      BY <1>2, <1>4, <2>3, LenProperties, Lengths
    <2>6. Len(e) = Len(o)
      <3>1. PICK v \in SUBSET Write : v = o[Len(o)] \union Inner(t)
        <4>1. o[Len(o)] \in SUBSET Write /\ Inner(t) \subseteq Write
          BY <1>1, <2>5, ExitOnConnection, ElementOfSeq
        <4>2. QED
          BY <4>1
      <3>2. e = [o EXCEPT ![Len(o)] = v]
        BY <2>4, <3>1
      <3>3. QED
        BY <2>5, <3>2, LevelWritten
    <2>7. \A m \in 1..Len(o) : e[m] = IF m = Len(o) THEN o[m] \union Inner(t) ELSE o[m]
      BY <2>4, <2>5
    <2>8. \A m \in 1..Level(t) : o[m] = expected[t][m]
      BY <1>1, <2>3, ExitOnConnection
    <2>9. Absorbs(t, e)
      BY <2>5, <2>6, <2>7, <2>8 DEF Absorbs
    <2>10. Fits(frames'[context[t]], e)
      BY <1>1, <1>4, <2>1, <2>9, ReleaseSound
    <2>11. expected' = [expected EXCEPT ![t] = e]
      BY <2>3, <2>4, <2>5 DEF Commit
    <2>12. Fitting'
      BY <1>1, <1>4, <2>2, <2>10, <2>11, LeftFitting
    <2>13. QED
      BY <2>2, <2>12 DEF Sound
  <1>5. QED
    BY <1>3, <1>4

LEMMA RollbackSound ==
  ASSUME TransactionsInv, NothingShared, Sound, \A w \in Write : Given(w) => Given(w)',
         NEW t \in Tasks, Rollback(t)
  PROVE  Sound'
  <1>1. /\ AtExit(pc[t]) /\ Leaves(t) /\ RollsBack(context[t], Level(t)) /\ promised' = promised
        /\ revoked' = revoked \union Inner(t) /\ expected' = [expected EXCEPT ![t] = Outer(t)]
    BY DEF Rollback, AtExit
  <1>2. /\ context[t] \in Conns /\ Level(t) \in Nat /\ Len(Outer(t)) = Level(t)
        /\ Outer(t) \in Seq(SUBSET Write) /\ ServerInv
    BY <1>1, ExitOnConnection DEF TransactionsInv
  <1>3. PICK R \in SUBSET Write : R = Inner(t)
    BY <1>1, ExitOnConnection
  <1>4. CASE Level(t) = 0
    <2>1. /\ \A b \in Conns : b # context[t] => frames'[b] = frames[b]
          /\ frames'[context[t]] = <<>> /\ committed' = committed
      BY <1>1, <1>2, <1>4, RollsBackEmpties
    <2>2. PICK C \in SUBSET Write : C = {}
      OBVIOUS
    <2>3. \A w \in C \union R : Open(w, context[t])
      BY <1>1, <1>3, <2>2, InnerIsOpen
    <2>4. /\ committed' = committed \union C /\ revoked' = revoked \union R
          /\ promised' \subseteq promised \union C
      BY <1>1, <1>3, <2>1, <2>2
    <2>5. Accounted'
      BY <1>2, <2>1, <2>2, <2>3, <2>4, EndedSound
    <2>6. Outer(t) = <<>>
      BY <1>2, <1>4, Lengths
    <2>7. Fitting'
      BY <1>1, <1>4, <2>1, <2>6, LeftFitting
    <2>8. QED
      BY <2>5, <2>7 DEF Sound
  <1>5. CASE Level(t) # 0
    <2>1. /\ \A b \in Conns : b # context[t] => frames'[b] = frames[b]
          /\ Accounted' /\ Fits(frames'[context[t]], Outer(t))
      BY <1>1, <1>3, <1>5, RollbackToSound
    <2>2. Fitting'
      BY <1>1, <1>5, <2>1, LeftFitting
    <2>3. QED
      BY <2>1, <2>2 DEF Sound
  <1>6. QED
    BY <1>4, <1>5

\* An inner block whose RELEASE or ROLLBACK TO failed: its writes are in the level
\* around it if they are anywhere, and nothing is reported of them.
LEMMA ExitFailsSound ==
  ASSUME TransactionsInv, NothingShared, Sound, \A w \in Write : Given(w) => Given(w)',
         NEW t \in Tasks, ExitFails(t), NothingShared'
  PROVE  Sound'
  <1>1. /\ AtExit(pc[t]) /\ Leaves(t) /\ UNCHANGED <<promised, revoked>>
        /\ expected' = [expected EXCEPT ![t] = Outer(t)]
        /\ Level(t) = 0 => context[t] \in dirty'
    BY DEF ExitFails, AtExit
  <1>2. Level(t) # 0
    BY <1>1 DEF NothingShared
  <1>3. /\ Level(t) \in Nat /\ Len(Outer(t)) = Level(t)
        /\ \A m \in 1..Level(t) : Outer(t)[m] = expected[t][m]
    BY <1>1, ExitOnConnection
  <1>4. /\ \A b \in Conns : b # context[t] => frames'[b] = frames[b]
        /\ Accounted' /\ Fits(frames'[context[t]], Outer(t))
    <2>1. CASE UNCHANGED serverVars
      <3>1. frames' = frames /\ committed' = committed
        BY <2>1 DEF serverVars
      <3>2. Accounted'
        <4>1. InOneFrame' /\ OnOneConnection' /\ OpenIsUndecided' /\ Settled'
          BY <1>1, <3>1
          DEF Sound, Accounted, InOneFrame, OnOneConnection, OpenIsUndecided, Settled, Open
        <4>2. AllGiven'
          BY <1>1, <3>1 DEF Sound, Accounted, AllGiven, Open
        <4>3. QED
          BY <4>1, <4>2 DEF Accounted
      <3>3. Fits(frames[context[t]], Outer(t))
        <4>1. PICK f \in Seq(Frame) : f = frames[context[t]]
          BY <1>1, ExitOnConnection, FrameTypes DEF TransactionsInv
        <4>2. PICK x : x = expected[t]
          OBVIOUS
        <4>3. PICK o : o = Outer(t)
          OBVIOUS
        <4>4. Len(x) = Level(t) + 1 /\ Fits(f, x)
          BY <1>1, <4>1, <4>2, ExitOnConnection
        <4>5. /\ Len(x) \in Nat /\ Len(o) \in Nat /\ Len(o) <= Len(x)
              /\ \A m \in 1..Len(o) : o[m] \subseteq x[m]
          BY <1>3, <4>2, <4>3, <4>4
        <4>6. Fits(f, o)
          BY <4>4, <4>5, FitsDropped
        <4>7. QED
          BY <4>1, <4>3, <4>6
      <3>4. QED
        BY <3>1, <3>2, <3>3
    <2>2. CASE Commits(context[t], Level(t))
      <3>1. Absorbs(t, Outer(t))
        BY <1>3 DEF Absorbs
      <3>2. QED
        BY <1>1, <1>2, <2>2, <3>1, ReleaseSound
    <2>3. CASE RollsBack(context[t], Level(t))
      <3>1. PICK R : R = {}
        OBVIOUS
      <3>2. R \subseteq Inner(t) /\ revoked' = revoked \union R /\ promised' = promised
        BY <1>1, <3>1
      <3>3. QED
        BY <1>1, <1>2, <2>3, <3>2, RollbackToSound
    <2>4. QED
      BY <2>1, <2>2, <2>3 DEF ExitFails
  <1>5. Fitting'
    BY <1>1, <1>2, <1>4, LeftFitting
  <1>6. QED
    BY <1>4, <1>5 DEF Sound

-----------------------------------------------------------------------------
(* All or nothing *)

\* No step takes back that a task was created or that a COMMIT or ROLLBACK failed.
Onward ==
    /\ dirty \subseteq dirty'
    /\ pc' = pc \/ \E t \in Tasks, p \in Place : ~Absent(p) /\ Becomes(t, p)

LEMMA StepsGoOnward ==
  ASSUME [Next]_vars
  PROVE  Onward
  <1>0. /\ {"body", "calling", "beginning", "finished", "committing", "rolling back",
            "queued for a call", "queued for a transaction"} \subseteq Place
        /\ ~Absent("body") /\ ~Absent("calling") /\ ~Absent("beginning") /\ ~Absent("finished")
        /\ ~Absent("committing") /\ ~Absent("rolling back")
        /\ ~Absent("queued for a call") /\ ~Absent("queued for a transaction")
    BY DEF Place, Absent
  <1>1. ASSUME NEW t \in Tasks, NEW goal \in Goals, Acquire(t, goal) \/ Acquired(t, goal)
        PROVE  Onward
    BY <1>0, <1>1 DEF Acquire, Acquired, Proceeds, QueuedFor, Onward, reportVars
  <1>2. ASSUME NEW t \in Tasks, NotAcquired(t) \/ Statement(t) \/ Nest(t) \/ WaitForLock(t)
        PROVE  Onward
    BY <1>0, <1>2 DEF NotAcquired, Statement, Nest, WaitForLock, taskVars, Onward, reportVars
  <1>3. ASSUME NEW t \in Tasks, Calling(t) PROVE Onward
    BY <1>0, <1>3 DEF Calling, CallReturns, CallFails, Onward, reportVars
  <1>4. ASSUME NEW t \in Tasks, Beginning(t) PROVE Onward
    BY <1>0, <1>4 DEF Beginning, Began, BeginRaises, BeginCancelled, Onward, reportVars
  <1>5. ASSUME NEW t \in Tasks, Exiting(t) \/ Exits(t) PROVE Onward
    BY <1>0, <1>5 DEF Exiting, Exits, Exit, Commit, Rollback, ExitFails, Onward, reportVars
  <1>6. ASSUME NEW child \in Children, Spawn(child) PROVE Onward
    BY <1>0, <1>6, TransactionAssumption DEF Spawn, Onward, reportVars
  <1>7. CASE PoolStep \/ ClosePool \/ UNCHANGED vars
    BY <1>7 DEF PoolStep, ClosePool, vars, taskVars, Onward, reportVars
  <1>8. QED
    BY <1>1, <1>2, <1>3, <1>4, <1>5, <1>6, <1>7 DEF Next, Progress, Acquiring

LEMMA NothingWasShared ==
  ASSUME TransactionsInv, [Next]_vars, NothingShared'
  PROVE  NothingShared
  <1>1. dirty = {}
    BY StepsGoOnward DEF Onward, NothingShared
  <1>2. ASSUME NEW child \in Children PROVE Absent(pc[child])
    <2>1. child \in Tasks /\ Absent(pc'[child]) /\ TasksTypeOK
      BY TransactionAssumption DEF NothingShared, Absent, TransactionsInv, Inv, TasksInv
    <2>2. CASE pc' = pc
      BY <2>1, <2>2
    <2>3. ASSUME NEW t \in Tasks, NEW p \in Place, ~Absent(p), Becomes(t, p)
          PROVE  Absent(pc[child])
      BY <2>1, <2>3, Moves
    <2>4. QED
      BY <2>2, <2>3, StepsGoOnward DEF Onward
  <1>3. QED
    BY <1>1, <1>2 DEF NothingShared, Absent

\* Steps that send no command and report nothing.
OtherStep ==
    \/ PoolStep \/ ClosePool \/ UNCHANGED vars
    \/ \E t \in Tasks :
          \/ \E goal \in Goals : Acquire(t, goal)
          \/ NotAcquired(t) \/ Nest(t) \/ Acquiring(t) \/ Exits(t) \/ BeginRaises(t)

LEMMA OthersWriteNothing ==
  ASSUME TransactionsInv, NothingShared, Sound, OtherStep
  PROVE  /\ UNCHANGED <<frames, committed, promised, revoked, expected, writes>>
         /\ \A t \in Tasks : expected[t] # <<>> => context'[t] = context[t]
  <1>1. UNCHANGED <<frames, committed, promised, revoked, expected, writes>>
    BY DEF OtherStep, PoolStep, ClosePool, vars, Acquire, NotAcquired, Nest, Acquiring, WaitForLock,
           Acquired, Exits, Exit, BeginRaises, taskVars, serverVars, reportVars
  <1>2. \A t \in Tasks : expected[t] # <<>> => context'[t] = context[t]
    <2>0. Inv /\ context \in [Tasks -> Conns \union {None}]
      BY DEF TransactionsInv, Inv, TasksInv, TasksTypeOK
    <2>1. ASSUME NEW u \in Tasks, NEW goal \in Goals, context[u] = None, Proceeds(u, goal),
                 NEW t \in Tasks, expected[t] # <<>>
          PROVE  context'[t] = context[t]
      <3>1. t # u
        BY <2>1 DEF Sound, Fitting
      <3>2. context' = context \/ context' = [context EXCEPT ![u] = lease'[u]]
        BY <2>1 DEF Proceeds
      <3>3. QED
        BY <2>0, <3>1, <3>2
    <2>2. ASSUME NEW u \in Tasks, NEW goal \in Goals, Acquire(u, goal),
                 NEW t \in Tasks, expected[t] # <<>>
          PROVE  context'[t] = context[t]
      BY <2>1, <2>2 DEF Acquire
    <2>3. ASSUME NEW u \in Tasks, NEW goal \in Goals, Acquired(u, goal),
                 NEW t \in Tasks, expected[t] # <<>>
          PROVE  context'[t] = context[t]
      <3>1. AtLock(pc[u])
        BY <2>3 DEF Acquired, QueuedFor, AtLock
      <3>2. context[u] = None
        BY <2>0, <3>1, TaskTypes DEF HandOK
      <3>3. QED
        BY <2>1, <2>3, <3>2 DEF Acquired
    <2>4. ASSUME NEW u \in Tasks, BeginRaises(u), NEW t \in Tasks, expected[t] # <<>>
          PROVE  context'[t] = context[t]
      <3>1. AtBegin(pc[u]) /\ Leaves(u)
        BY <2>4 DEF BeginRaises, AtBegin
      <3>2. /\ \A x \in Tasks : x # u => context'[x] = context[x]
            /\ depth[u] # 1 => context'[u] = context[u]
        BY <2>0, <3>1, LeavesMoves
      <3>3. depth[u] = 1 => expected[u] = <<>>
        <4>1. Level(u) \in Nat /\ depth[u] = Level(u) + 1 /\ (Level(u) = 0 => expected[u] = <<>>)
          BY <3>1, BeginOnConnection
        <4>2. QED
          BY <4>1
      <3>4. QED
        BY <2>4, <3>2, <3>3
    <2>5. ASSUME \/ PoolStep \/ ClosePool \/ UNCHANGED vars
                 \/ \E t \in Tasks : NotAcquired(t) \/ Nest(t) \/ WaitForLock(t) \/ Exits(t)
          PROVE  context' = context
      BY <2>5 DEF PoolStep, ClosePool, vars, NotAcquired, Nest, WaitForLock, Exits, Exit, taskVars
    <2>6. QED
      BY <2>2, <2>3, <2>4, <2>5 DEF OtherStep, Acquiring
  <1>3. QED
    BY <1>1, <1>2

LEMMA OtherSound ==
  ASSUME TransactionsInv, NothingShared, Sound, \A w \in Write : Given(w) => Given(w)', OtherStep
  PROVE  Sound'
  BY OthersWriteNothing, QuietStep

LEMMA SpawnShares ==
  ASSUME TransactionsInv, NEW child \in Children, Spawn(child)
  PROVE  ~NothingShared'
  <1>1. child \in Tasks /\ TasksTypeOK
    BY TransactionAssumption DEF TransactionsInv, Inv, TasksInv
  <1>2. pc'[child] = "body"
    BY <1>1 DEF Spawn, Becomes, TasksTypeOK
  <1>3. QED
    BY <1>2 DEF NothingShared

LEMMA SoundNext ==
  ASSUME TransactionsInv, [Next]_vars, NothingShared', NothingShared => Sound
  PROVE  Sound'
  <1>1. NothingShared /\ Sound
    BY NothingWasShared
  <1>2. \A w \in Write : Given(w) => Given(w)'
    BY GivenStays DEF TransactionsInv
  <1>3. ASSUME NEW t \in Tasks, Calling(t) \/ Statement(t) PROVE Sound'
    BY <1>1, <1>2, <1>3, CallSound, StatementSound
  <1>4. ASSUME NEW t \in Tasks, Began(t) \/ BeginCancelled(t) PROVE Sound'
    BY <1>1, <1>2, <1>4, BeganSound, BeginCancelledSound
  <1>5. ASSUME NEW t \in Tasks, Exiting(t) PROVE Sound'
    BY <1>1, <1>2, <1>5, CommitSound, RollbackSound, ExitFailsSound DEF Exiting
  <1>6. ASSUME NEW child \in Children, Spawn(child) PROVE FALSE
    BY <1>6, SpawnShares
  <1>7. ASSUME OtherStep PROVE Sound'
    BY <1>1, <1>2, <1>7, OtherSound
  <1>8. QED
    BY <1>3, <1>4, <1>5, <1>6, <1>7 DEF Next, Progress, Beginning, OtherStep

LEMMA SoundInit ==
  ASSUME Init
  PROVE  Sound
  <1>1. /\ frames = [c \in Conns |-> <<>>] /\ expected = [t \in Tasks |-> <<>>]
        /\ committed = {} /\ promised = {} /\ revoked = {}
    BY DEF Init
  <1>2. \A c \in Conns : Single(frames[c]) /\ \A w : ~Open(w, c)
    BY <1>1, NothingHeld DEF Open
  <1>3. Accounted
    BY <1>1, <1>2 DEF Accounted, InOneFrame, OnOneConnection, OpenIsUndecided, AllGiven, Settled
  <1>4. Fitting
    BY <1>1 DEF Fitting
  <1>5. QED
    BY <1>3, <1>4 DEF Sound

\* What a block that committed wrote is durable, what one that was rolled back wrote
\* never is, through any nesting of savepoints, failures and cancellations, as long
\* as no task was created in a transaction and no COMMIT or ROLLBACK failed.
THEOREM TransactionsAreAllOrNothing == Spec => []AllOrNothing
  <1> DEFINE Durable == NothingShared => Sound
  <1>1. Init => TransactionsInv /\ Durable
    BY TransactionsInvInit, SoundInit
  <1>2. TransactionsInv /\ Durable /\ [Next]_vars => TransactionsInv' /\ Durable'
    BY TransactionsInvNext, SoundNext
  <1>3. Durable => AllOrNothing
    BY DEF Sound, Accounted, Settled, AllOrNothing
  <1> HIDE DEF Durable
  <1>4. QED
    BY <1>1, <1>2, <1>3, PTL DEF Spec

-----------------------------------------------------------------------------
(* The service of blocks *)

InFrames(f) == UNION {f[i].writes : i \in DOMAIN f}
InLevels(e) == UNION {e[i] : i \in DOMAIN e}

\* The writes in doubt of a task with levels e on a connection with frames f.
Doubt(f, e) == IF e = <<>> THEN {} ELSE InFrames(f) \ InLevels(e)

LEMMA DoubtOf ==
  ASSUME NEW t \in Tasks
  PROVE  /\ InDoubt[t] = Doubt(frames[context[t]], expected[t])
         /\ InDoubt'[t] = Doubt(frames'[context'[t]], expected'[t])
  BY DEF InDoubt, Doubt, InFrames, InLevels, Pending

LEMMA FramesHold ==
  ASSUME NEW f \in Seq(Frame), NEW w
  PROVE  w \in InFrames(f) <=> Holds(f, 1, w)
  <1>1. DOMAIN f = 1..Len(f) /\ \A i \in 1..Len(f) : i >= 1
    BY FrameSeq, LenProperties
  <1>2. QED
    BY <1>1 DEF InFrames, Holds

LEMMA LevelsHold ==
  ASSUME NEW e \in Seq(SUBSET Write), NEW w
  PROVE  w \in InLevels(e) <=> \E i \in 1..Len(e) : w \in e[i]
  <1>1. DOMAIN e = 1..Len(e)
    BY LenProperties
  <1>2. QED
    BY <1>1 DEF InLevels

\* A step of one task on the connection it has changes what is in doubt for that task only.
LEMMA DoubtMoves ==
  ASSUME Inv, NothingShared, Fitting, NEW t \in Tasks, lease[t] \in Conns,
         \A b \in Conns : b # lease[t] => frames'[b] = frames[b],
         \A u \in Tasks : u # t => context'[u] = context[u] /\ expected'[u] = expected[u],
         NEW D, Doubt(frames'[context'[t]], expected'[t]) = D
  PROVE  /\ InDoubt' = [InDoubt EXCEPT ![t] = D]
         /\ D = InDoubt[t] => InDoubt' = InDoubt
  <1>1. InDoubt'[t] = D
    BY DoubtOf
  <1>2. ASSUME NEW u \in Tasks, u # t PROVE InDoubt'[u] = InDoubt[u]
    <2>1. context'[u] = context[u] /\ expected'[u] = expected[u]
      BY <1>2
    <2>2. CASE expected[u] = <<>>
      BY <2>1, <2>2, DoubtOf DEF Doubt
    <2>3. CASE expected[u] # <<>>
      <3>1. context[u] # None
        BY <2>3 DEF Fitting
      <3>2. context[u] \in Conns /\ context[u] # lease[t]
        BY <1>2, <2>3, <3>1, OtherConnection
      <3>3. frames'[context'[u]] = frames[context[u]]
        BY <2>1, <3>2
      <3>4. QED
        BY <2>1, <3>3, DoubtOf
    <2>4. QED
      BY <2>2, <2>3
  <1>3. /\ InDoubt = [u \in Tasks |-> InDoubt[u]]
        /\ InDoubt' = [u \in Tasks |-> InDoubt'[u]]
    BY DEF InDoubt
  <1>4. QED
    BY <1>1, <1>2, <1>3

LEMMA CallServes ==
  ASSUME TransactionsInv, NothingShared, NEW t \in Tasks, Calling(t)
  PROVE  Service!Next
  <1>1. PICK w : w = NextWrite(t)
    OBVIOUS
  <1>2. /\ frames' = frames /\ expected[t] = <<>> /\ CountsWrite(t)
        /\ UNCHANGED <<context, expected, revoked>>
        /\ \/ committed' = committed \union {w} /\ promised' \in {promised, promised \union {w}}
           \/ committed' = committed /\ promised' = promised
    BY <1>1, CallWrites
  <1>3. InDoubt' = InDoubt
    BY <1>2 DEF InDoubt, Pending
  <1>4. w = Service!NewWrite(t) /\ Service!Counts(t)
    BY <1>1, <1>2 DEF NextWrite, CountsWrite, Service!NewWrite, Service!Counts
  <1>5. Service!Call(t) \/ Service!CallFails(t)
    BY <1>2, <1>3, <1>4 DEF Service!Call, Service!CallFails
  <1>6. QED
    BY <1>5 DEF Service!Next

LEMMA StatementServes ==
  ASSUME TransactionsInv, NothingShared, Sound, NEW t \in Tasks, Statement(t)
  PROVE  Service!Next
  <1>0. Inv /\ Fitting
    BY DEF TransactionsInv, Sound
  <1>1. PICK c, e, w, g, e2 :
           c = context[t] /\ e = expected[t] /\ w = NextWrite(t) /\ g = frames'[c] /\ e2 = expected'[t]
    OBVIOUS
  <1>2. /\ c \in Conns /\ lease[t] = c /\ c # None
        /\ e \in Seq(SUBSET Write) /\ Len(e) \in Nat /\ Len(e) >= 1
        /\ w \in Write /\ ~Given(w) /\ Given(w)' /\ ~Holds(frames[c], 1, w)
        /\ UNCHANGED <<context, committed, promised, revoked>>
        /\ \A b \in Conns : b # c => frames'[b] = frames[b]
        /\ frames[c] \in Seq(Frame) /\ Len(frames[c]) >= 1 /\ Fits(frames[c], e)
        /\ FrameWritten(frames[c], g, w) /\ InnermostWritten(e, e2, w)
        /\ \A u \in Tasks : u # t => expected'[u] = expected[u]
    BY <1>1, StatementWrites
  <1>3. PICK f \in Seq(Frame) : f = frames[c]
    BY <1>2
  <1>4. g \in Seq(Frame) /\ Len(g) = Len(f) /\ Len(f) \in 1..Len(f)
    BY <1>2, <1>3, FrameSeq DEF FrameWritten
  <1>5. \A v : v \in InFrames(g) <=> v \in InFrames(f) \/ v \in {w}
    <2>1. \A j \in 1..Len(f) : g[j].writes = f[j].writes \union (IF j = Len(f) THEN {w} ELSE {})
      BY <1>2, <1>3 DEF FrameWritten
    <2>2. DOMAIN f = 1..Len(f) /\ DOMAIN g = 1..Len(f)
      BY <1>4, LenProperties
    <2>3. \A v : /\ v \in InFrames(f) <=> \E j \in 1..Len(f) : v \in f[j].writes
                 /\ v \in InFrames(g) <=> \E j \in 1..Len(f) : v \in g[j].writes
      BY <2>2 DEF InFrames
    <2>4. QED
      BY <1>4, <2>1, <2>3
  <1>6. e2 = [e EXCEPT ![Len(e)] = @ \union {w}] /\ e # <<>> /\ e2 # <<>>
        /\ expected' = [expected EXCEPT ![t][Len(expected[t])] = @ \union {w}]
    <2>1. e # <<>> /\ t \in DOMAIN expected
      BY <1>0, <1>2, Lengths DEF Inv, TasksInv, TasksTypeOK
    <2>2. expected' = [expected EXCEPT ![t][Len(expected[t])] = @ \union {w}]
      BY <1>1, <2>1 DEF Statement
    <2>3. e2 = [e EXCEPT ![Len(e)] = @ \union {w}]
      BY <1>1, <2>1, <2>2
    <2>4. DOMAIN e2 = DOMAIN e
      BY <2>3
    <2>5. Len(e) \in DOMAIN e
      BY <1>2, LenProperties
    <2>6. e2 # <<>>
      BY <2>4, <2>5
    <2>7. QED
      BY <2>1, <2>2, <2>3, <2>6
  <1>7. \A v : v \in InLevels(e2) <=> v \in InLevels(e) \/ v \in {w}
    <2>1. DOMAIN e = 1..Len(e) /\ DOMAIN e2 = 1..Len(e) /\ Len(e) \in 1..Len(e)
      BY <1>2, <1>6, LenProperties
    <2>2. \A m \in 1..Len(e) : e2[m] = e[m] \union (IF m = Len(e) THEN {w} ELSE {})
      BY <1>2 DEF InnermostWritten
    <2>3. \A v : /\ v \in InLevels(e) <=> \E m \in 1..Len(e) : v \in e[m]
                 /\ v \in InLevels(e2) <=> \E m \in 1..Len(e) : v \in e2[m]
      BY <2>1 DEF InLevels
    <2>4. QED
      BY <2>1, <2>2, <2>3
  <1>8. \A v \in {w} : v \notin InFrames(f)
    BY <1>2, <1>3, FramesHold
  <1>9. Doubt(g, e2) = Doubt(f, e)
    <2>1. PICK N : N = {w}
      OBVIOUS
    <2>2. /\ \A v \in N : v \notin InFrames(f)
          /\ \A v : v \in InFrames(g) <=> v \in InFrames(f) \/ v \in N
          /\ \A v : v \in InLevels(e2) <=> v \in InLevels(e) \/ v \in N
      BY <1>5, <1>7, <1>8, <2>1
    <2>3. e # <<>> /\ e2 # <<>>
      BY <1>6
    <2>4. QED
      BY <2>2, <2>3 DEF Doubt
  <1>10. InDoubt' = InDoubt
    <2>1. InDoubt[t] = Doubt(f, e)
      BY <1>1, <1>3, DoubtOf
    <2>2. PICK D : D = Doubt(f, e)
      OBVIOUS
    <2>3. Doubt(frames'[context'[t]], expected'[t]) = D
      BY <1>1, <1>2, <1>9, <2>2
    <2>4. QED
      BY <1>0, <1>2, <2>1, <2>2, <2>3, DoubtMoves
  <1>11. w = Service!NewWrite(t) /\ Service!Counts(t)
    BY <1>1 DEF Statement, NextWrite, CountsWrite, Service!NewWrite, Service!Counts
  <1>12. Service!Put(t)
    BY <1>1, <1>2, <1>6, <1>10, <1>11 DEF Service!Put
  <1>13. QED
    BY <1>12 DEF Service!Next

\* BEGIN and SAVEPOINT leave what the frames hold as it is.
LEMMA AddedInFrames ==
  ASSUME NEW f \in Seq(Frame), NEW d \in Nat, NEW g, g = Append(f, NewFrame(d))
  PROVE  InFrames(g) = InFrames(f)
  <1>1. g \in Seq(Frame) /\ \A i, w : i \in 1..Len(f) + 1 => (Holds(g, i, w) <=> Holds(f, i, w))
    BY FrameAdded
  <1>2. 1 \in 1..Len(f) + 1
    BY FrameSeq
  <1>3. \A w : w \in InFrames(g) <=> w \in InFrames(f)
    BY <1>1, <1>2, FramesHold
  <1>4. QED
    BY <1>3

LEMMA BeganServes ==
  ASSUME TransactionsInv, NothingShared, Sound, NEW t \in Tasks, Began(t)
  PROVE  Service!Next
  <1>0. Inv /\ ServerInv /\ Fitting
    BY DEF TransactionsInv, Sound
  <1>1. /\ AtBegin(pc[t]) /\ Begins(context[t], Level(t))
        /\ expected' = [expected EXCEPT ![t] = Append(@, {})]
        /\ UNCHANGED <<context, writes, promised, revoked>>
    BY DEF Began, AtBegin, reportVars
  <1>2. PICK c \in Conns : c = context[t]
    BY <1>1, BeginOnConnection
  <1>3. PICK e \in Seq(SUBSET Write) : e = expected[t]
    BY <1>1, BeginOnConnection
  <1>4. /\ lease[t] = c /\ Level(t) = Len(e) /\ Len(e) \in Nat
        /\ Len(e) = 0 => frames[c] = <<>>
    BY <1>1, <1>2, <1>3, BeginOnConnection
  <1>5. /\ \A b \in Conns : b # c => frames'[b] = frames[b]
        /\ committed' = committed
        /\ frames'[c] = Append(frames[c], NewFrame(Len(e)))
    BY <1>0, <1>1, <1>2, <1>4, BeginsAdds
  <1>6. PICK f \in Seq(Frame) : f = frames[c]
    BY <1>0, FrameTypes
  <1>7. PICK e2 : e2 = Append(e, {})
    OBVIOUS
  <1>8. InFrames(frames'[c]) = InFrames(f)
    <2>1. PICK d \in Nat : d = Len(e)
      BY <1>4
    <2>2. PICK g : g = frames'[c]
      OBVIOUS
    <2>3. g = Append(f, NewFrame(d))
      BY <1>5, <1>6, <2>1, <2>2
    <2>4. InFrames(g) = InFrames(f)
      BY <2>3, AddedInFrames
    <2>5. QED
      BY <2>2, <2>4
  <1>9. InLevels(e2) = InLevels(e) /\ e2 # <<>>
    <2>1. /\ e2 \in Seq(SUBSET Write) /\ Len(e2) = Len(e) + 1 /\ e2[Len(e) + 1] = {}
          /\ \A m \in 1..Len(e) : e2[m] = e[m]
      BY <1>7, AppendProperties
    <2>2. \A i \in 1..Len(e) + 1 : i \in 1..Len(e) \/ i = Len(e) + 1
      BY <1>4
    <2>3. \A i \in 1..Len(e) : i \in 1..Len(e) + 1
      BY <1>4
    <2>4. \A w : w \in InLevels(e2) <=> w \in InLevels(e)
      BY <2>1, <2>2, <2>3, LevelsHold
    <2>5. e2 # <<>>
      BY <1>4, <2>1, Lengths
    <2>6. QED
      BY <2>4, <2>5
  <1>10. Doubt(frames'[c], e2) = InDoubt[t]
    <2>1. InDoubt[t] = Doubt(f, e)
      BY <1>2, <1>3, <1>6, DoubtOf
    <2>2. CASE e = <<>>
      <3>1. InFrames(f) = {}
        <4>1. Len(e) = 0 /\ f = <<>>
          BY <1>4, <1>6, <2>2
        <4>2. \A w : ~Holds(f, 1, w)
          BY <4>1, NothingHeld
        <4>3. QED
          BY <4>2, FramesHold
      <3>2. QED
        BY <1>8, <1>9, <2>1, <2>2, <3>1 DEF Doubt
    <2>3. CASE e # <<>>
      BY <1>8, <1>9, <2>1, <2>3 DEF Doubt
    <2>4. QED
      BY <2>2, <2>3
  <1>11. /\ \A u \in Tasks : u # t => context'[u] = context[u] /\ expected'[u] = expected[u]
         /\ context'[t] = c /\ expected'[t] = e2
    BY <1>0, <1>1, <1>2, <1>3, <1>7, TaskTypes DEF TasksTypeOK
  <1>12. InDoubt' = InDoubt
    <2>1. PICK D : D = InDoubt[t]
      OBVIOUS
    <2>2. Doubt(frames'[context'[t]], expected'[t]) = D
      BY <1>10, <1>11, <2>1
    <2>3. QED
      BY <1>0, <1>4, <1>5, <1>11, <2>1, <2>2, DoubtMoves
  <1>13. Service!Open(t)
    BY <1>1, <1>5, <1>12 DEF Service!Open
  <1>14. QED
    BY <1>13 DEF Service!Next

\* A cancelled BEGIN or SAVEPOINT does not show.
LEMMA BeginCancelledServes ==
  ASSUME TransactionsInv, NothingShared, Sound, NEW t \in Tasks, BeginCancelled(t)
  PROVE  UNCHANGED Service!serviceVars
  <1>0. Inv /\ ServerInv /\ Fitting
    BY DEF TransactionsInv, Sound
  <1>1. /\ AtBegin(pc[t])
        /\ Begins(context[t], Level(t)) \/ UNCHANGED serverVars
        /\ UNCHANGED <<context, expected, writes, promised, revoked>>
    BY DEF BeginCancelled, AtBegin, reportVars
  <1>2. PICK c \in Conns : c = context[t]
    BY <1>1, BeginOnConnection
  <1>3. lease[t] = c /\ Level(t) \in Nat
    BY <1>1, <1>2, BeginOnConnection
  <1>4. PICK f \in Seq(Frame) : f = frames[c]
    BY <1>0, FrameTypes
  <1>5. /\ \A b \in Conns : b # c => frames'[b] = frames[b]
        /\ committed' = committed
        /\ frames'[c] = Append(f, NewFrame(Level(t))) \/ frames'[c] = f
    <2>1. CASE UNCHANGED serverVars
      BY <1>4, <2>1 DEF serverVars
    <2>2. CASE Begins(context[t], Level(t))
      BY <1>0, <1>2, <1>3, <1>4, <2>2, BeginsAdds
    <2>3. QED
      BY <1>1, <2>1, <2>2
  <1>6. InFrames(frames'[c]) = InFrames(f)
    BY <1>3, <1>5, AddedInFrames
  <1>7. InDoubt' = InDoubt
    <2>1. PICK D : D = InDoubt[t]
      OBVIOUS
    <2>2. Doubt(frames'[context'[t]], expected'[t]) = D
      BY <1>1, <1>2, <1>4, <1>6, <2>1, DoubtOf DEF Doubt
    <2>3. QED
      BY <1>0, <1>1, <1>3, <1>5, <2>1, <2>2, DoubtMoves
  <1>8. QED
    BY <1>1, <1>5, <1>7 DEF Service!serviceVars

\* What leaving the innermost level does to the service: D is in doubt afterwards.
LEMMA LeavesDoubt ==
  ASSUME TransactionsInv, NothingShared, Sound, NEW t \in Tasks, AtExit(pc[t]), Leaves(t),
         \A b \in Conns : b # context[t] => frames'[b] = frames[b],
         NEW e, expected' = [expected EXCEPT ![t] = e],
         Level(t) = 0 <=> e = <<>>,
         NEW D, Doubt(frames'[context[t]], e) = D
  PROVE  /\ InDoubt' = [InDoubt EXCEPT ![t] = D]
         /\ D = InDoubt[t] => InDoubt' = InDoubt
  <1>0. Inv /\ Fitting
    BY DEF TransactionsInv, Sound
  <1>1. /\ context[t] \in Conns /\ lease[t] = context[t]
        /\ Level(t) \in Nat /\ depth[t] = Level(t) + 1
    BY ExitOnConnection
  <1>2. /\ \A u \in Tasks : u # t => context'[u] = context[u]
        /\ depth[t] # 1 => context'[t] = context[t]
    BY <1>0, LeavesMoves
  <1>3. expected'[t] = e /\ \A u \in Tasks : u # t => expected'[u] = expected[u]
    BY <1>0, TaskTypes DEF TasksTypeOK
  <1>4. Doubt(frames'[context'[t]], expected'[t]) = D
    <2>1. CASE Level(t) = 0
      BY <1>3, <2>1 DEF Doubt
    <2>2. CASE Level(t) # 0
      BY <1>1, <1>2, <1>3, <2>2
    <2>3. QED
      BY <2>1, <2>2
  <1>5. QED
    BY <1>0, <1>1, <1>2, <1>3, <1>4, DoubtMoves

\* The service's blocks are the task's levels.
LEMMA ExitBlocks ==
  ASSUME TransactionsInv, NothingShared, Sound, NEW t \in Tasks, AtExit(pc[t])
  PROVE  /\ Service!Innermost(t) = Inner(t) /\ Service!Around(t) = Outer(t)
         /\ expected[t] # <<>>
         /\ Len(expected[t]) = 1 <=> Level(t) = 0
         /\ Len(expected[t]) > 1 <=> Level(t) # 0
         /\ Outer(t) = <<>> <=> Level(t) = 0
         /\ \A w : w \in InLevels(expected[t]) <=> w \in InLevels(Outer(t)) \/ w \in Inner(t)
         /\ InLevels(expected[t]) \subseteq InFrames(frames[context[t]])
         /\ InDoubt[t] = InFrames(frames[context[t]]) \ InLevels(expected[t])
  <1>1. PICK e \in Seq(SUBSET Write), o \in Seq(SUBSET Write), n \in Nat :
           e = expected[t] /\ o = Outer(t) /\ n = Level(t)
    BY ExitOnConnection
  <1>2. /\ Len(e) = n + 1 /\ Inner(t) = e[n + 1] /\ Len(o) = n /\ \A m \in 1..n : o[m] = e[m]
    BY <1>1, ExitOnConnection
  <1>3. Service!Innermost(t) = Inner(t) /\ Service!Around(t) = Outer(t)
    BY DEF Service!Innermost, Service!Around, Inner, Outer, Top
  <1>4. e # <<>> /\ (o = <<>> <=> n = 0)
    BY <1>2, Lengths
  <1>5. \A w : w \in InLevels(e) <=> w \in InLevels(o) \/ w \in e[n + 1]
    <2>1. /\ \A i \in 1..n + 1 : i \in 1..n \/ i = n + 1
          /\ n + 1 \in 1..n + 1 /\ \A i \in 1..n : i \in 1..n + 1
      OBVIOUS
    <2>2. \A w : /\ w \in InLevels(e) <=> \E i \in 1..n + 1 : w \in e[i]
                 /\ w \in InLevels(o) <=> \E i \in 1..n : w \in o[i]
      BY <1>2, LevelsHold
    <2>3. QED
      BY <1>2, <2>1, <2>2
  <1>6. InLevels(e) \subseteq InFrames(frames[context[t]])
    <2>1. PICK f \in Seq(Frame) : f = frames[context[t]]
      BY ExitOnConnection, FrameTypes DEF TransactionsInv
    <2>2. Fits(f, e) /\ Len(e) \in Nat
      BY <1>1, <1>2, <2>1, ExitOnConnection
    <2>3. ASSUME NEW w \in InLevels(e) PROVE w \in InFrames(f)
      <3>1. PICK i \in 1..Len(e) : w \in e[i]
        BY LevelsHold
      <3>2. Holds(f, 1, w)
        BY <2>2, <3>1, FitsHolds
      <3>3. QED
        BY <3>2, FramesHold
    <2>4. QED
      BY <2>1, <2>3
  <1>7. InDoubt[t] = InFrames(frames[context[t]]) \ InLevels(e)
    BY <1>1, <1>4, DoubtOf DEF Doubt
  <1>8. /\ Len(e) = 1 <=> n = 0
        /\ Len(e) > 1 <=> n # 0
    BY <1>2
  <1>9. QED
    BY <1>1, <1>2, <1>3, <1>4, <1>5, <1>6, <1>7, <1>8

LEMMA ReleaseKeepsFrames ==
  ASSUME TransactionsInv, NothingShared, Sound, NEW t \in Tasks, AtExit(pc[t]), Level(t) # 0,
         Commits(context[t], Level(t))
  PROVE  /\ \A b \in Conns : b # context[t] => frames'[b] = frames[b]
         /\ committed' = committed
         /\ InFrames(frames'[context[t]]) = InFrames(frames[context[t]])
  <1>1. PICK c \in Conns, n \in Nat, f \in Seq(Frame) :
           c = context[t] /\ n = Level(t) /\ f = frames[c]
    BY ExitOnConnection, FrameTypes DEF TransactionsInv
  <1>2. ServerInv /\ Commits(c, n) /\ n # 0
    BY <1>1 DEF TransactionsInv
  <1>3. PICK i, g : i = Max(Savepoints(c, n)) /\ g = frames'[c]
    OBVIOUS
  <1>4. /\ \A b \in Conns : b # c => frames'[b] = frames[b]
        /\ committed' = committed /\ i \in 2..Len(f) /\ g = Merged(f, i)
    BY <1>1, <1>2, <1>3, CommitsMerges
  <1>5. \A h \in 1..i - 1 : \A w : Holds(g, h, w) <=> Holds(f, h, w)
    BY <1>4, MergedHolds
  <1>6. g \in Seq(Frame) /\ 1 \in 1..i - 1
    BY <1>4, MergedFrames
  <1>7. \A w : w \in InFrames(g) <=> w \in InFrames(f)
    BY <1>5, <1>6, FramesHold
  <1>8. QED
    BY <1>1, <1>3, <1>4, <1>7

LEMMA CommitServes ==
  ASSUME TransactionsInv, NothingShared, Sound, NEW t \in Tasks, Commit(t)
  PROVE  Service!Next
  <1>1. /\ AtExit(pc[t]) /\ Leaves(t) /\ Commits(context[t], Level(t))
        /\ UNCHANGED <<writes, revoked>>
        /\ promised' = IF Level(t) = 0 THEN promised \union Inner(t) ELSE promised
    BY DEF Commit, AtExit
  <1>2. PICK c \in Conns, n \in Nat, f \in Seq(Frame) :
           c = context[t] /\ n = Level(t) /\ f = frames[c]
    BY <1>1, ExitOnConnection, FrameTypes DEF TransactionsInv
  <1>3. PICK e \in Seq(SUBSET Write), o \in Seq(SUBSET Write) : e = expected[t] /\ o = Outer(t)
    BY <1>1, ExitOnConnection
  <1>4. /\ Service!Innermost(t) = Inner(t) /\ Service!Around(t) = o
        /\ Len(e) = 1 <=> n = 0
        /\ Len(e) > 1 <=> n # 0
        /\ o = <<>> <=> n = 0
        /\ \A w : w \in InLevels(e) <=> w \in InLevels(o) \/ w \in Inner(t)
        /\ InLevels(e) \subseteq InFrames(f)
        /\ InDoubt[t] = InFrames(f) \ InLevels(e)
    BY <1>1, <1>2, <1>3, ExitBlocks
  <1>5. /\ \A b \in Conns : b # c => frames'[b] = frames[b]
        /\ n = 0 => committed' = committed \union InFrames(f)
        /\ n # 0 => /\ frames'[c] = Merged(f, Max(Savepoints(c, n)))
                    /\ Max(Savepoints(c, n)) \in 2..Len(f)
                    /\ committed' = committed
    <2>1. ServerInv /\ Commits(c, n)
      BY <1>1, <1>2 DEF TransactionsInv
    <2>2. QED
      BY <1>2, <2>1, CommitsMerges DEF Pending, InFrames
  <1>6. CASE n = 0
    <2>1. InFrames(f) = Inner(t) \union InDoubt[t]
      <3>1. InLevels(o) = {}
        <4>1. Len(o) = 0 /\ 1..0 = {}
          BY <1>4, <1>6
        <4>2. \A w : w \notin InLevels(o)
          BY <4>1, LevelsHold
        <4>3. QED
          BY <4>2
      <3>2. QED
        BY <1>4, <3>1
    <2>2. committed' = (committed \union Inner(t)) \union InDoubt[t]
      BY <1>5, <1>6, <2>1
    <2>3. expected' = [expected EXCEPT ![t] = o]
      BY <1>3, <1>4, <1>6 DEF Commit
    <2>4. InDoubt' = [InDoubt EXCEPT ![t] = {}]
      <3>1. Doubt(frames'[context[t]], o) = {}
        BY <1>4, <1>6 DEF Doubt
      <3>2. QED
        BY <1>1, <1>2, <1>4, <1>5, <1>6, <2>3, <3>1, LeavesDoubt
    <2>5. Service!Closes(t, {})
      BY <1>4, <2>3, <2>4 DEF Service!Closes
    <2>6. Service!CommitAll(t)
      BY <1>1, <1>2, <1>3, <1>4, <1>6, <2>2, <2>5 DEF Service!CommitAll
    <2>7. QED
      BY <2>6 DEF Service!Next
  <1>7. CASE n # 0
    <2>1. PICK e2 : e2 = [o EXCEPT ![Len(o)] = @ \union Inner(t)]
      OBVIOUS
    <2>2. expected' = [expected EXCEPT ![t] = e2]
      BY <1>3, <1>4, <1>7, <2>1 DEF Commit
    <2>3. DOMAIN o = 1..Len(o) /\ Len(o) \in 1..Len(o) /\ DOMAIN e2 = 1..Len(o) /\ e2 # <<>>
      <3>1. DOMAIN o = 1..Len(o) /\ Len(o) = n
        BY <1>1, <1>2, <1>3, ExitOnConnection, LenProperties
      <3>2. Len(o) \in 1..Len(o)
        BY <1>7, <3>1
      <3>3. DOMAIN e2 = DOMAIN o
        BY <2>1
      <3>4. QED
        BY <3>1, <3>2, <3>3
    <2>4. \A w : w \in InLevels(e2) <=> w \in InLevels(e)
      <3>1. \A m \in 1..Len(o) : e2[m] = IF m = Len(o) THEN o[m] \union Inner(t) ELSE o[m]
        BY <2>1, <2>3
      <3>2. \A w : /\ w \in InLevels(o) <=> \E m \in 1..Len(o) : w \in o[m]
                   /\ w \in InLevels(e2) <=> \E m \in 1..Len(o) : w \in e2[m]
        BY <2>3 DEF InLevels
      <3>3. \A w : w \in InLevels(e2) <=> w \in InLevels(o) \/ w \in Inner(t)
        BY <2>3, <3>1, <3>2
      <3>4. QED
        BY <1>4, <3>3
    <2>5. InFrames(frames'[c]) = InFrames(f)
      BY <1>1, <1>2, <1>7, ReleaseKeepsFrames
    <2>6. InDoubt' = InDoubt
      <3>1. PICK D : D = InDoubt[t]
        OBVIOUS
      <3>2. Doubt(frames'[context[t]], e2) = D
        BY <1>2, <1>4, <2>3, <2>4, <2>5, <3>1 DEF Doubt
      <3>3. Level(t) = 0 <=> e2 = <<>>
        BY <1>2, <1>7, <2>3
      <3>4. QED
        BY <1>1, <1>2, <1>5, <2>2, <3>1, <3>2, <3>3, LeavesDoubt
    <2>7. Service!CommitInner(t)
      BY <1>1, <1>2, <1>3, <1>4, <1>5, <1>7, <2>1, <2>2, <2>6 DEF Service!CommitInner
    <2>8. QED
      BY <2>7 DEF Service!Next
  <1>8. QED
    BY <1>6, <1>7

\* A block that was left without a COMMIT or RELEASE leaves no more on its connection
\* than there was.
LEMMA RollsBackDrops ==
  ASSUME TransactionsInv, NothingShared, Sound, NEW t \in Tasks, AtExit(pc[t]),
         RollsBack(context[t], Level(t))
  PROVE  /\ \A b \in Conns : b # context[t] => frames'[b] = frames[b]
         /\ committed' = committed
         /\ Level(t) # 0 =>
               /\ InFrames(frames'[context[t]]) \subseteq InFrames(frames[context[t]])
               /\ \A w \in Inner(t) : w \notin InFrames(frames'[context[t]])
  <1>1. PICK c \in Conns, n \in Nat, f \in Seq(Frame) :
           c = context[t] /\ n = Level(t) /\ f = frames[c]
    BY ExitOnConnection, FrameTypes DEF TransactionsInv
  <1>2. ServerInv /\ RollsBack(c, n)
    BY <1>1 DEF TransactionsInv
  <1>3. PICK i, g : i = Max(Savepoints(c, n)) /\ g = frames'[c]
    OBVIOUS
  <1>4. /\ \A b \in Conns : b # c => frames'[b] = frames[b]
        /\ committed' = committed
        /\ n # 0 => g = Emptied(f, i, n) /\ i \in 2..Len(f)
    BY <1>1, <1>2, <1>3, RollsBackEmpties
  <1>5. ASSUME n # 0
        PROVE  InFrames(g) \subseteq InFrames(f) /\ \A w \in Inner(t) : w \notin InFrames(g)
    <2>1. g = Emptied(f, i, n) /\ i \in 2..Len(f)
      BY <1>4, <1>5
    <2>2. Single(f)
      BY <1>1 DEF Sound, Accounted, InOneFrame
    <2>3. /\ g \in Seq(Frame) /\ 1 \in Nat
          /\ \A h \in Nat : \A w : Holds(g, h, w) => Holds(f, h, w)
          /\ \A w \in Write : Holds(f, i, w) => ~Holds(g, 1, w)
      BY <2>1, <2>2, EmptiedHolds
    <2>4. Inner(t) \subseteq Write /\ \A w \in Inner(t) : Holds(f, i, w)
      <3>1. PICK x : x = expected[t]
        OBVIOUS
      <3>2. Len(x) = n + 1 /\ Fits(f, x) /\ Inner(t) = x[n + 1] /\ Inner(t) \subseteq Write
        BY <1>1, <3>1, ExitOnConnection
      <3>3. \A w \in x[n + 1] : Holds(f, i, w)
        BY <1>1, <1>2, <1>3, <3>2, InnermostMark
      <3>4. QED
        BY <3>2, <3>3
    <2>5. QED
      BY <2>3, <2>4, FramesHold
  <1>6. QED
    BY <1>1, <1>3, <1>4, <1>5

LEMMA RollbackServes ==
  ASSUME TransactionsInv, NothingShared, Sound, NEW t \in Tasks, Rollback(t)
  PROVE  Service!Next
  <1>1. /\ AtExit(pc[t]) /\ Leaves(t) /\ RollsBack(context[t], Level(t))
        /\ UNCHANGED <<writes, promised>> /\ revoked' = revoked \union Inner(t)
        /\ expected' = [expected EXCEPT ![t] = Outer(t)]
    BY DEF Rollback, AtExit
  <1>2. PICK o, g : o = Outer(t) /\ g = frames'[context[t]]
    OBVIOUS
  <1>3. /\ Service!Innermost(t) = Inner(t) /\ Service!Around(t) = o
        /\ expected[t] # <<>>
        /\ Len(expected[t]) = 1 <=> Level(t) = 0
        /\ o = <<>> <=> Level(t) = 0
        /\ \A w : w \in InLevels(expected[t]) <=> w \in InLevels(o) \/ w \in Inner(t)
        /\ InDoubt[t] = InFrames(frames[context[t]]) \ InLevels(expected[t])
    BY <1>1, <1>2, ExitBlocks
  <1>4. /\ \A b \in Conns : b # context[t] => frames'[b] = frames[b]
        /\ committed' = committed
        /\ Level(t) # 0 => /\ InFrames(g) \subseteq InFrames(frames[context[t]])
                           /\ \A w \in Inner(t) : w \notin InFrames(g)
    BY <1>1, <1>2, RollsBackDrops
  <1>5. PICK D : D = Doubt(g, o)
    OBVIOUS
  <1>6. D \subseteq InDoubt[t] /\ (Level(t) = 0 => D = {})
    <2>1. CASE Level(t) = 0
      BY <1>3, <1>5, <2>1 DEF Doubt
    <2>2. CASE Level(t) # 0
      <3>1. D = InFrames(g) \ InLevels(o)
        BY <1>3, <1>5, <2>2 DEF Doubt
      <3>2. QED
        BY <1>3, <1>4, <2>2, <3>1
    <2>3. QED
      BY <2>1, <2>2
  <1>7. InDoubt' = [InDoubt EXCEPT ![t] = D]
    <2>1. Doubt(frames'[context[t]], o) = D
      BY <1>2, <1>5
    <2>2. expected' = [expected EXCEPT ![t] = o] /\ (Level(t) = 0 <=> o = <<>>)
      BY <1>1, <1>2, <1>3, <1>4
    <2>3. QED
      BY <1>1, <1>4, <2>1, <2>2, LeavesDoubt
  <1>8. Service!Closes(t, D)
    BY <1>1, <1>2, <1>3, <1>7 DEF Service!Closes
  <1>9. Service!RollBack(t)
    BY <1>1, <1>3, <1>4, <1>6, <1>8 DEF Service!RollBack
  <1>10. QED
    BY <1>9 DEF Service!Next

LEMMA ExitFailsServes ==
  ASSUME TransactionsInv, NothingShared, Sound, NEW t \in Tasks, ExitFails(t), NothingShared'
  PROVE  Service!Next
  <1>1. /\ AtExit(pc[t]) /\ Leaves(t) /\ UNCHANGED <<writes, promised, revoked>>
        /\ expected' = [expected EXCEPT ![t] = Outer(t)]
        /\ Level(t) = 0 => context[t] \in dirty'
    BY DEF ExitFails, AtExit
  <1>2. Level(t) # 0
    BY <1>1 DEF NothingShared
  <1>3. PICK o, g : o = Outer(t) /\ g = frames'[context[t]]
    OBVIOUS
  <1>4. /\ Service!Innermost(t) = Inner(t) /\ Service!Around(t) = o
        /\ Len(expected[t]) > 1
        /\ o # <<>>
        /\ \A w : w \in InLevels(expected[t]) <=> w \in InLevels(o) \/ w \in Inner(t)
        /\ InDoubt[t] = InFrames(frames[context[t]]) \ InLevels(expected[t])
    BY <1>1, <1>2, <1>3, ExitBlocks
  <1>5. /\ \A b \in Conns : b # context[t] => frames'[b] = frames[b]
        /\ committed' = committed
        /\ InFrames(g) \subseteq InFrames(frames[context[t]])
    <2>1. CASE UNCHANGED serverVars
      BY <1>3, <2>1 DEF serverVars
    <2>2. CASE Commits(context[t], Level(t))
      BY <1>1, <1>2, <1>3, <2>2, ReleaseKeepsFrames
    <2>3. CASE RollsBack(context[t], Level(t))
      BY <1>1, <1>2, <1>3, <2>3, RollsBackDrops
    <2>4. QED
      BY <2>1, <2>2, <2>3 DEF ExitFails
  <1>6. PICK D : D = Doubt(g, o)
    OBVIOUS
  <1>7. D \subseteq InDoubt[t] \union Inner(t)
    <2>1. D = InFrames(g) \ InLevels(o)
      BY <1>4, <1>6 DEF Doubt
    <2>2. QED
      BY <1>4, <1>5, <2>1
  <1>8. InDoubt' = [InDoubt EXCEPT ![t] = D]
    <2>1. Doubt(frames'[context[t]], o) = D
      BY <1>3, <1>6
    <2>2. expected' = [expected EXCEPT ![t] = o] /\ (Level(t) = 0 <=> o = <<>>)
      BY <1>1, <1>2, <1>3, <1>4
    <2>3. QED
      BY <1>1, <1>5, <2>1, <2>2, LeavesDoubt
  <1>9. Service!Closes(t, D)
    BY <1>1, <1>3, <1>4, <1>8 DEF Service!Closes
  <1>10. Service!Abandon(t)
    BY <1>1, <1>4, <1>5, <1>7, <1>9 DEF Service!Abandon
  <1>11. QED
    BY <1>10 DEF Service!Next

LEMMA OthersServe ==
  ASSUME TransactionsInv, NothingShared, Sound, OtherStep
  PROVE  UNCHANGED Service!serviceVars
  <1>1. /\ UNCHANGED <<frames, committed, promised, revoked, expected, writes>>
        /\ \A t \in Tasks : expected[t] # <<>> => context'[t] = context[t]
    BY OthersWriteNothing
  <1>2. ASSUME NEW t \in Tasks PROVE InDoubt'[t] = InDoubt[t]
    BY <1>1, DoubtOf DEF Doubt
  <1>3. /\ InDoubt = [t \in Tasks |-> InDoubt[t]]
        /\ InDoubt' = [t \in Tasks |-> InDoubt'[t]]
    BY DEF InDoubt
  <1>4. InDoubt' = InDoubt
    BY <1>2, <1>3
  <1>5. QED
    BY <1>1, <1>4 DEF Service!serviceVars

LEMMA StepsServe ==
  ASSUME TransactionsInv, NothingShared => Sound, [Next]_vars
  PROVE  [Service!Next \/ ~NothingShared']_(Service!serviceVars)
  <1> SUFFICES ASSUME NothingShared' PROVE Service!Next \/ UNCHANGED Service!serviceVars
    OBVIOUS
  <1>1. NothingShared /\ Sound
    BY NothingWasShared
  <1>2. ASSUME NEW t \in Tasks, Calling(t) \/ Statement(t) \/ Began(t) PROVE Service!Next
    BY <1>1, <1>2, CallServes, StatementServes, BeganServes
  <1>3. ASSUME NEW t \in Tasks, Exiting(t) PROVE Service!Next
    BY <1>1, <1>3, CommitServes, RollbackServes, ExitFailsServes DEF Exiting
  <1>4. ASSUME NEW t \in Tasks, BeginCancelled(t) PROVE UNCHANGED Service!serviceVars
    BY <1>1, <1>4, BeginCancelledServes
  <1>5. ASSUME NEW child \in Children, Spawn(child) PROVE FALSE
    BY <1>5, SpawnShares
  <1>6. ASSUME OtherStep PROVE UNCHANGED Service!serviceVars
    BY <1>1, <1>6, OthersServe
  <1>7. QED
    BY <1>2, <1>3, <1>4, <1>5, <1>6 DEF Next, Progress, Beginning, OtherStep

\* The manager implements the service of blocks: through its connections, savepoints,
\* faults and cancellations, every step that shows is one of that service, until a task
\* is created in a transaction or a COMMIT or ROLLBACK fails; and its reports stay true.
THEOREM ImplementsBlocks == Spec => BlocksAreAtomic
  <1> DEFINE Durable == NothingShared => Sound
             Serves == [Service!Next \/ ~NothingShared']_(Service!serviceVars)
  <1>1. Init => TransactionsInv /\ Durable /\ Service!Init
    <2>1. Init => TransactionsInv /\ Durable
      BY TransactionsInvInit, SoundInit
    <2>2. Init => Service!Init
      <3>1. Init => InDoubt = [t \in Tasks |-> {}]
        BY DEF Init, InDoubt
      <3>2. QED
        BY <3>1 DEF Init, Service!Init
    <2>3. QED
      BY <2>1, <2>2
  <1>2. TransactionsInv /\ Durable /\ [Next]_vars => TransactionsInv' /\ Durable'
    BY TransactionsInvNext, SoundNext
  <1>3. TransactionsInv /\ Durable /\ [Next]_vars => Serves
    BY StepsServe
  <1> HIDE DEF Durable
  <1>4. QED
    BY <1>1, <1>2, <1>3, TransactionsAreAllOrNothing, PTL DEF Spec, BlocksAreAtomic, Serves
=============================================================================
