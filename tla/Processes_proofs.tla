---------------------------- MODULE Processes_proofs ----------------------------
(***************************************************************************)
(* What processes that share a document, a lock, a policy or a database    *)
(* can rely on, however many there are: that mutate() of the document      *)
(* stores loses nothing, that the publishers of the CMS take turns, that   *)
(* a published policy is loaded, that the table of migrations is true, and *)
(* that an upload that is finished is the file.                            *)
(***************************************************************************)
EXTENDS AdminStores, PublisherLock, PolicySync, Migrations, Uploads, FiniteSetTheorems,
        WellFoundedInduction, TLAPS

-----------------------------------------------------------------------------
(* mutate() of the document stores *)

\* Whether the store serializes its mutations: PostgreSQL has a row to lock.
Serializes == backend = "PostgreSQL" => existed

\* A row that was there stays.
RowStays == existed => row.there

\* A call that is under way has its number.
CallsAreNumbered == \A c \in Clients : mutating[c].at # "away" => mutating[c].number \in Mutations

\* Whoever has read the document holds the lock on it ...
ReaderHoldsLock ==
    Serializes => \A c \in Clients : mutating[c].at \in {"read", "written"} => locked = c

\* ... and what it has read is the document still, or has its own change besides.
ReadIsCurrent ==
    Serializes => \A c \in Clients :
        /\ mutating[c].at = "read" => mutating[c].value = row.value
        /\ mutating[c].at = "written" => mutating[c].value = row.value \union {mutating[c].number}

StoreInv ==
    /\ StoreTypeOK /\ RowStays /\ CallsAreNumbered /\ ReaderHoldsLock /\ ReadIsCurrent /\ MutationsKept

\* The invariant's parts, without the type.
LEMMA StoreInvInit == StoreInit => StoreInv
  <1> SUFFICES ASSUME StoreInit PROVE StoreInv
    OBVIOUS
  <1>1. StoreTypeOK
    BY StoreAssumption DEF StoreInit, StoreTypeOK, NoRow, NoCall, Mutations
  <1>2. QED
    BY <1>1 DEF StoreInit, StoreInv, RowStays, CallsAreNumbered, ReaderHoldsLock, ReadIsCurrent,
                MutationsKept, NoRow, NoCall

\* The call of one client, and a step of that client only.
Call == [at : {"away", "begun", "ensured", "read", "written"},
         number : 0..MaxMutations, value : SUBSET Mutations]

OnlyCall(c, at, number, value) ==
    /\ mutating' \in [Clients -> Call]
    /\ mutating'[c].at = at /\ mutating'[c].number = number /\ mutating'[c].value = value
    /\ \A d \in Clients : d # c => mutating'[d] = mutating[d]

LEMMA CallTypes ==
  ASSUME StoreTypeOK, NEW c \in Clients
  PROVE  /\ mutating \in [Clients -> Call] /\ mutating[c] \in Call
         /\ mutating[c].number \in 0..MaxMutations /\ mutating[c].value \subseteq Mutations
         /\ row.value \subseteq Mutations /\ row.there \in BOOLEAN
         /\ mutations \in 0..MaxMutations
  BY DEF StoreTypeOK, Call

\* A step that replaces a client's call by another one.
LEMMA CallReplaced ==
  ASSUME StoreTypeOK, NEW c \in Clients,
         NEW at \in {"away", "begun", "ensured", "read", "written"},
         NEW number \in 0..MaxMutations, NEW value \in SUBSET Mutations,
         mutating' = [mutating EXCEPT ![c] = [at |-> at, number |-> number, value |-> value]]
  PROVE  OnlyCall(c, at, number, value)
  <1>1. mutating \in [Clients -> Call]
    BY CallTypes
  <1>2. [at |-> at, number |-> number, value |-> value] \in Call
    BY DEF Call
  <1>3. QED
    BY <1>1, <1>2 DEF OnlyCall

LEMMA BeginMutateKeeps ==
  ASSUME StoreInv, NEW c \in Clients, BeginMutate(c)
  PROVE  StoreInv'
  <1>1. OnlyCall(c, "begun", mutations + 1, {})
    <2> DEFINE begun == [at |-> "begun", number |-> mutations + 1, value |-> {}]
    <2>1. mutations + 1 \in 0..MaxMutations
      BY CallTypes, StoreAssumption DEF StoreInv, BeginMutate
    <2>2. begun \in Call
      BY <2>1 DEF Call
    <2>3. mutating' = [mutating EXCEPT ![c] = begun]
      BY DEF BeginMutate
    <2> HIDE DEF begun
    <2>4. /\ mutating' \in [Clients -> Call] /\ mutating'[c] = begun
          /\ \A d \in Clients : d # c => mutating'[d] = mutating[d]
      BY <2>2, <2>3, CallTypes DEF StoreInv
    <2>5. QED
      BY <2>4 DEF OnlyCall, begun
  <1>2. StoreTypeOK'
    BY <1>1, CallTypes, StoreAssumption DEF StoreInv, StoreTypeOK, Call, OnlyCall, Mutations, BeginMutate, storeFixed
  <1>3. RowStays'
    BY <1>1 DEF StoreInv, RowStays, BeginMutate, storeFixed
  <1>4. CallsAreNumbered'
    BY <1>1, StoreAssumption DEF StoreInv, StoreTypeOK, CallsAreNumbered, OnlyCall, Mutations, BeginMutate
  <1>5. ReaderHoldsLock'
    BY <1>1, StoreAssumption DEF StoreInv, ReaderHoldsLock, RowStays, Serializes, OnlyCall, FreeFor, Nobody, BeginMutate, storeFixed, EndsTransaction
  <1>6. ReadIsCurrent'
    BY <1>1, StoreAssumption DEF StoreInv, ReadIsCurrent, ReaderHoldsLock, Serializes, OnlyCall, FreeFor, Nobody, BeginMutate, storeFixed
  <1>7. MutationsKept'
    BY <1>1 DEF StoreInv, MutationsKept, ReadIsCurrent, Serializes, BeginMutate, storeFixed
  <1>8. QED
    BY <1>2, <1>3, <1>4, <1>5, <1>6, <1>7 DEF StoreInv

LEMMA ReadUnderWriteLockKeeps ==
  ASSUME StoreInv, NEW c \in Clients, ReadUnderWriteLock(c)
  PROVE  StoreInv'
  <1>1. OnlyCall(c, "read", mutating[c].number, row.value)
    BY CallTypes, StoreAssumption DEF StoreInv, CallsAreNumbered, Mutations, ReadUnderWriteLock, ReadsRow, Call, OnlyCall
  <1>2. StoreTypeOK'
    BY <1>1, CallTypes, StoreAssumption DEF StoreInv, StoreTypeOK, Call, OnlyCall, Mutations, ReadUnderWriteLock, storeFixed
  <1>3. RowStays'
    BY <1>1 DEF StoreInv, RowStays, ReadUnderWriteLock, storeFixed
  <1>4. CallsAreNumbered'
    BY <1>1, StoreAssumption DEF StoreInv, StoreTypeOK, CallsAreNumbered, OnlyCall, Mutations, ReadUnderWriteLock
  <1>5. ReaderHoldsLock'
    BY <1>1, StoreAssumption DEF StoreInv, ReaderHoldsLock, RowStays, Serializes, OnlyCall, FreeFor, Nobody, ReadUnderWriteLock, storeFixed, EndsTransaction
  <1>6. ReadIsCurrent'
    BY <1>1, StoreAssumption DEF StoreInv, ReadIsCurrent, ReaderHoldsLock, Serializes, OnlyCall, FreeFor, Nobody, ReadUnderWriteLock, storeFixed
  <1>7. MutationsKept'
    BY <1>1 DEF StoreInv, MutationsKept, ReadIsCurrent, Serializes, ReadUnderWriteLock, storeFixed
  <1>8. QED
    BY <1>2, <1>3, <1>4, <1>5, <1>6, <1>7 DEF StoreInv

LEMMA ReadForUpdateKeeps ==
  ASSUME StoreInv, NEW c \in Clients, ReadForUpdate(c)
  PROVE  StoreInv'
  <1>1. OnlyCall(c, "read", mutating[c].number, row.value)
    BY CallTypes, StoreAssumption DEF StoreInv, CallsAreNumbered, Mutations, ReadForUpdate, ReadsRow, Call, OnlyCall
  <1>2. StoreTypeOK'
    BY <1>1, CallTypes, StoreAssumption DEF StoreInv, StoreTypeOK, Call, OnlyCall, Mutations, ReadForUpdate, storeFixed
  <1>3. RowStays'
    BY <1>1 DEF StoreInv, RowStays, ReadForUpdate, storeFixed
  <1>4. CallsAreNumbered'
    BY <1>1, StoreAssumption DEF StoreInv, StoreTypeOK, CallsAreNumbered, OnlyCall, Mutations, ReadForUpdate
  <1>5. ReaderHoldsLock'
    BY <1>1, StoreAssumption DEF StoreInv, ReaderHoldsLock, RowStays, Serializes, OnlyCall, FreeFor, Nobody, ReadForUpdate, storeFixed, EndsTransaction
  <1>6. ReadIsCurrent'
    BY <1>1, StoreAssumption DEF StoreInv, ReadIsCurrent, ReaderHoldsLock, Serializes, OnlyCall, FreeFor, Nobody, ReadForUpdate, storeFixed
  <1>7. MutationsKept'
    BY <1>1 DEF StoreInv, MutationsKept, ReadIsCurrent, Serializes, ReadForUpdate, storeFixed
  <1>8. QED
    BY <1>2, <1>3, <1>4, <1>5, <1>6, <1>7 DEF StoreInv

LEMMA EnsureRowKeeps ==
  ASSUME StoreInv, NEW c \in Clients, EnsureRow(c)
  PROVE  StoreInv'
  <1>1. OnlyCall(c, "ensured", mutating[c].number, mutating[c].value)
    BY CallTypes, StoreAssumption DEF StoreInv, CallsAreNumbered, Mutations, EnsureRow, Reaches, Call, OnlyCall
  <1>2. StoreTypeOK'
    BY <1>1, CallTypes, StoreAssumption DEF StoreInv, StoreTypeOK, Call, OnlyCall, Mutations, EnsureRow, storeFixed
  <1>3. RowStays'
    BY <1>1 DEF StoreInv, RowStays, EnsureRow, storeFixed
  <1>4. CallsAreNumbered'
    BY <1>1, StoreAssumption DEF StoreInv, StoreTypeOK, CallsAreNumbered, OnlyCall, Mutations, EnsureRow
  <1>5. ReaderHoldsLock'
    BY <1>1, StoreAssumption DEF StoreInv, ReaderHoldsLock, RowStays, Serializes, OnlyCall, FreeFor, Nobody, EnsureRow, storeFixed, EndsTransaction
  <1>6. ReadIsCurrent'
    BY <1>1, StoreAssumption DEF StoreInv, ReadIsCurrent, ReaderHoldsLock, Serializes, OnlyCall, FreeFor, Nobody, EnsureRow, storeFixed
  <1>7. MutationsKept'
    BY <1>1 DEF StoreInv, MutationsKept, ReadIsCurrent, Serializes, EnsureRow, storeFixed
  <1>8. QED
    BY <1>2, <1>3, <1>4, <1>5, <1>6, <1>7 DEF StoreInv

LEMMA LockRowKeeps ==
  ASSUME StoreInv, NEW c \in Clients, LockRow(c)
  PROVE  StoreInv'
  <1>1. OnlyCall(c, "read", mutating[c].number, row.value)
    BY CallTypes, StoreAssumption DEF StoreInv, CallsAreNumbered, Mutations, LockRow, ReadsRow, Call, OnlyCall
  <1>2. StoreTypeOK'
    BY <1>1, CallTypes, StoreAssumption DEF StoreInv, StoreTypeOK, Call, OnlyCall, Mutations, LockRow, storeFixed
  <1>3. RowStays'
    BY <1>1 DEF StoreInv, RowStays, LockRow, storeFixed
  <1>4. CallsAreNumbered'
    BY <1>1, StoreAssumption DEF StoreInv, StoreTypeOK, CallsAreNumbered, OnlyCall, Mutations, LockRow
  <1>5. ReaderHoldsLock'
    BY <1>1, StoreAssumption DEF StoreInv, ReaderHoldsLock, RowStays, Serializes, OnlyCall, FreeFor, Nobody, LockRow, storeFixed, EndsTransaction
  <1>6. ReadIsCurrent'
    BY <1>1, StoreAssumption DEF StoreInv, ReadIsCurrent, ReaderHoldsLock, Serializes, OnlyCall, FreeFor, Nobody, LockRow, storeFixed
  <1>7. MutationsKept'
    BY <1>1 DEF StoreInv, MutationsKept, ReadIsCurrent, Serializes, LockRow, storeFixed
  <1>8. QED
    BY <1>2, <1>3, <1>4, <1>5, <1>6, <1>7 DEF StoreInv

LEMMA WritesRowKeeps ==
  ASSUME StoreInv, NEW c \in Clients, WritesRow(c)
  PROVE  StoreInv'
  <1>1. OnlyCall(c, "written", mutating[c].number, mutating[c].value \union {mutating[c].number})
    BY CallTypes, StoreAssumption DEF StoreInv, CallsAreNumbered, Mutations, WritesRow, Call, OnlyCall
  <1>2. StoreTypeOK'
    BY <1>1, CallTypes, StoreAssumption DEF StoreInv, StoreTypeOK, Call, OnlyCall, Mutations, WritesRow, storeFixed
  <1>3. RowStays'
    BY <1>1 DEF StoreInv, RowStays, WritesRow, storeFixed
  <1>4. CallsAreNumbered'
    BY <1>1, StoreAssumption DEF StoreInv, StoreTypeOK, CallsAreNumbered, OnlyCall, Mutations, WritesRow
  <1>5. ReaderHoldsLock'
    BY <1>1, StoreAssumption DEF StoreInv, ReaderHoldsLock, RowStays, Serializes, OnlyCall, FreeFor, Nobody, WritesRow, storeFixed, EndsTransaction
  <1>6. ReadIsCurrent'
    BY <1>1, StoreAssumption DEF StoreInv, ReadIsCurrent, ReaderHoldsLock, Serializes, OnlyCall, FreeFor, Nobody, WritesRow, storeFixed
  <1>7. MutationsKept'
    BY <1>1 DEF StoreInv, MutationsKept, ReadIsCurrent, Serializes, WritesRow, storeFixed
  <1>8. QED
    BY <1>2, <1>3, <1>4, <1>5, <1>6, <1>7 DEF StoreInv

LEMMA CommitMutateKeeps ==
  ASSUME StoreInv, NEW c \in Clients, CommitMutate(c)
  PROVE  StoreInv'
  <1>1. OnlyCall(c, "away", 0, {})
    BY CallTypes, StoreAssumption DEF StoreInv, CallsAreNumbered, Mutations, CommitMutate, EndsTransaction, NoCall, Call, OnlyCall
  <1>2. StoreTypeOK'
    <2>1. mutating[c].number \in Mutations
      BY DEF StoreInv, CallsAreNumbered, CommitMutate
    <2>2. row' \in [there : BOOLEAN, value : SUBSET Mutations] /\ returned' \subseteq Mutations
      BY <2>1, CallTypes DEF StoreInv, StoreTypeOK, CommitMutate
    <2>3. locked' \in Clients \union {Nobody}
      BY DEF StoreInv, StoreTypeOK, CommitMutate, EndsTransaction
    <2>4. QED
      BY <1>1, <2>2, <2>3 DEF StoreInv, StoreTypeOK, Call, OnlyCall, CommitMutate, storeFixed, Mutations
  <1>3. RowStays'
    BY <1>1 DEF StoreInv, RowStays, CommitMutate, storeFixed
  <1>4. CallsAreNumbered'
    BY <1>1, StoreAssumption DEF StoreInv, StoreTypeOK, CallsAreNumbered, OnlyCall, Mutations, CommitMutate
  <1>5. ReaderHoldsLock'
    BY <1>1, StoreAssumption DEF StoreInv, ReaderHoldsLock, RowStays, Serializes, OnlyCall, FreeFor, Nobody, CommitMutate, storeFixed, EndsTransaction
  <1>6. ReadIsCurrent'
    BY <1>1, StoreAssumption DEF StoreInv, ReadIsCurrent, ReaderHoldsLock, Serializes, OnlyCall, FreeFor, Nobody, CommitMutate, storeFixed
  <1>7. MutationsKept'
    BY <1>1 DEF StoreInv, MutationsKept, ReadIsCurrent, Serializes, CommitMutate, storeFixed
  <1>8. QED
    BY <1>2, <1>3, <1>4, <1>5, <1>6, <1>7 DEF StoreInv

LEMMA RollbackMutateKeeps ==
  ASSUME StoreInv, NEW c \in Clients, RollbackMutate(c)
  PROVE  StoreInv'
  <1>1. OnlyCall(c, "away", 0, {})
    BY CallTypes, StoreAssumption DEF StoreInv, CallsAreNumbered, Mutations, RollbackMutate, EndsTransaction, NoCall, Call, OnlyCall
  <1>2. StoreTypeOK'
    BY <1>1, CallTypes, StoreAssumption DEF StoreInv, StoreTypeOK, CallsAreNumbered, Call, OnlyCall, Mutations, RollbackMutate, EndsTransaction, storeFixed
  <1>3. RowStays'
    BY <1>1 DEF StoreInv, RowStays, RollbackMutate, storeFixed
  <1>4. CallsAreNumbered'
    BY <1>1, StoreAssumption DEF StoreInv, StoreTypeOK, CallsAreNumbered, OnlyCall, Mutations, RollbackMutate
  <1>5. ReaderHoldsLock'
    BY <1>1, StoreAssumption DEF StoreInv, ReaderHoldsLock, RowStays, Serializes, OnlyCall, FreeFor, Nobody, RollbackMutate, storeFixed, EndsTransaction
  <1>6. ReadIsCurrent'
    BY <1>1, StoreAssumption DEF StoreInv, ReadIsCurrent, ReaderHoldsLock, Serializes, OnlyCall, FreeFor, Nobody, RollbackMutate, storeFixed
  <1>7. MutationsKept'
    BY <1>1 DEF StoreInv, MutationsKept, ReadIsCurrent, Serializes, RollbackMutate, storeFixed
  <1>8. QED
    BY <1>2, <1>3, <1>4, <1>5, <1>6, <1>7 DEF StoreInv

\* Every step of the specification, and every stutter.
LEMMA StoreInvNext == StoreInv /\ [StoreNext]_storeVars => StoreInv'
  <1> SUFFICES ASSUME StoreInv, [StoreNext]_storeVars PROVE StoreInv'
    OBVIOUS
  <1>1. ASSUME NEW c \in Clients,
               \/ BeginMutate(c) \/ ReadUnderWriteLock(c) \/ ReadForUpdate(c) \/ EnsureRow(c)
               \/ LockRow(c) \/ WritesRow(c) \/ CommitMutate(c) \/ RollbackMutate(c)
        PROVE  StoreInv'
    BY <1>1, BeginMutateKeeps, ReadUnderWriteLockKeeps, ReadForUpdateKeeps, EnsureRowKeeps,
       LockRowKeeps, WritesRowKeeps, CommitMutateKeeps, RollbackMutateKeeps
  <1>2. CASE UNCHANGED storeVars
    BY <1>2 DEF StoreInv, StoreTypeOK, RowStays, CallsAreNumbered, ReaderHoldsLock, ReadIsCurrent,
                MutationsKept, Serializes, storeVars
  <1>3. QED
    BY <1>1, <1>2 DEF StoreNext

LEMMA StoreInvHolds == StoreSpec => []StoreInv
  BY StoreInvInit, StoreInvNext, PTL DEF StoreSpec

\* The document, its lock and every call keep their types.
THEOREM StoreTypeCorrect == StoreSpec => []StoreTypeOK
  <1>1. StoreInv => StoreTypeOK
    BY DEF StoreInv
  <1>2. QED
    BY <1>1, StoreInvHolds, PTL

\* No mutation that has returned is lost: mutate() of the SQLite and the ORM
\* store, and of the PostgreSQL store once the document is there, may be taken
\* for one step, whatever number of processes call it.
THEOREM MutateLosesNothing == StoreSpec => []MutationsKept
  <1>1. StoreInv => MutationsKept
    BY DEF StoreInv
  <1>2. QED
    BY <1>1, StoreInvHolds, PTL

\* Where reading takes the lock (in the SQLite and the ORM store, and in the PostgreSQL
\* store once the document is there) the document changes only by one mutation at a time,
\* on top of all that is in it: what the callback has read is what is there when its
\* result is committed.
MutateIsOneStep ==
    [][Serializes /\ row'.value # row.value =>
          \E c \in Clients : row'.value = row.value \union {mutating[c].number}]_storeVars

THEOREM MutationsAreSerial == StoreSpec => MutateIsOneStep
  <1> DEFINE Step == Serializes /\ row'.value # row.value =>
                        \E c \in Clients : row'.value = row.value \union {mutating[c].number}
  <1>1. ASSUME StoreInv, StoreNext PROVE Step
    <2>1. PICK c \in Clients :
              \/ BeginMutate(c) \/ ReadUnderWriteLock(c) \/ ReadForUpdate(c) \/ EnsureRow(c)
              \/ LockRow(c) \/ WritesRow(c) \/ CommitMutate(c) \/ RollbackMutate(c)
      BY <1>1 DEF StoreNext
    <2>2. CASE CommitMutate(c)
      BY <1>1, <2>2 DEF StoreInv, ReadIsCurrent, CommitMutate
    <2>3. CASE ~CommitMutate(c)
      <3>1. row' = row
        BY <2>1, <2>3 DEF BeginMutate, ReadUnderWriteLock, ReadForUpdate, EnsureRow, LockRow,
                          WritesRow, RollbackMutate
      <3>2. QED
        BY <3>1
    <2>4. QED
      BY <2>2, <2>3
  <1>2. StoreInv /\ [StoreNext]_storeVars => [Step]_storeVars
    BY <1>1
  <1>3. QED
    BY <1>2, StoreInvHolds, PTL DEF StoreSpec, MutateIsOneStep

-----------------------------------------------------------------------------
(* The publishers' lock *)

\* Whoever was granted the lock has it until it expires.
GrantedHoldsKey ==
    \A p \in Publishers : round[p] \in {"granted", "publishing"} /\ lease[p] > 0 => lockKey = p

PublisherInv == PublisherTypeOK /\ GrantedHoldsKey

LEMMA LockTtlType == LockTtl \in Nat /\ LockTtl > 0
  BY PublisherAssumption

LEMMA PublisherInvInit == PublisherInit => PublisherInv
  <1> SUFFICES ASSUME PublisherInit PROVE PublisherInv
    OBVIOUS
  <1>1. lease \in [Publishers -> 0..LockTtl]
    BY LockTtlType DEF PublisherInit
  <1>2. round \in [Publishers -> Rounds] /\ \A p \in Publishers : round[p] = "off"
    BY DEF PublisherInit, Rounds
  <1>3. QED
    BY <1>1, <1>2 DEF PublisherInit, PublisherInv, PublisherTypeOK, GrantedHoldsKey

LEMMA PublisherInvNext == PublisherInv /\ [PublisherNext]_publisherVars => PublisherInv'
  <1> SUFFICES ASSUME PublisherInv, [PublisherNext]_publisherVars PROVE PublisherInv'
    OBVIOUS
  <1> USE PublisherAssumption, LockTtlType DEF PublisherInv, PublisherTypeOK, GrantedHoldsKey, Rounds, Turns
  <1>1. ASSUME NEW p \in Publishers, StartLoop(p) PROVE PublisherInv'
    BY <1>1 DEF StartLoop
  <1>2. ASSUME NEW p \in Publishers, AsksForLock(p) PROVE PublisherInv'
    BY <1>2 DEF AsksForLock
  <1>3. ASSUME NEW p \in Publishers, SetsKey(p) PROVE PublisherInv'
    <2>1. CASE lockKey = NoToken
      <3>1. /\ round' = [round EXCEPT ![p] = "granted"] /\ lease' = [lease EXCEPT ![p] = LockTtl]
            /\ lockKey' = p /\ stopping' = stopping
        BY <1>3, <2>1 DEF SetsKey
      <3>2. PublisherTypeOK'
        BY <3>1
      <3>3. GrantedHoldsKey'
        BY <2>1, <3>1
      <3>4. QED
        BY <3>2, <3>3
    <2>2. CASE lockKey # NoToken
      BY <1>3, <2>2 DEF SetsKey
    <2>3. QED
      BY <2>1, <2>2
  <1>4. ASSUME NEW p \in Publishers, AnswerComes(p) PROVE PublisherInv'
    BY <1>4 DEF AnswerComes
  <1>5. ASSUME NEW p \in Publishers, EndsRound(p) PROVE PublisherInv'
    BY <1>5 DEF EndsRound
  <1>6. ASSUME NEW p \in Publishers, Releases(p) PROVE PublisherInv'
    BY <1>6 DEF Releases, GivenBack
  <1>7. ASSUME NEW p \in Publishers, RedisFails(p) PROVE PublisherInv'
    BY <1>7 DEF RedisFails, GivenBack
  <1>8. ASSUME NEW p \in Publishers, StopLoop(p) PROVE PublisherInv'
    BY <1>8 DEF StopLoop, GivenBack
  <1>9. ASSUME NEW p \in Publishers, PublisherDies(p) PROVE PublisherInv'
    BY <1>9 DEF PublisherDies
  <1>10. ASSUME LockTick PROVE PublisherInv'
    <2>1. PublisherTypeOK'
      BY <1>10 DEF LockTick
    <2>2. \A p \in Publishers : lease'[p] > 0 => lease[p] > 0
      BY <1>10 DEF LockTick
    <2>3. GrantedHoldsKey'
      BY <1>10, <2>2 DEF LockTick
    <2>4. QED
      BY <2>1, <2>3
  <1>11. ASSUME UNCHANGED publisherVars PROVE PublisherInv'
    BY <1>11 DEF publisherVars
  <1>12. QED
    BY <1>1, <1>2, <1>3, <1>4, <1>5, <1>6, <1>7, <1>8, <1>9, <1>10, <1>11 DEF PublisherNext

\* Types of the publishers of the CMS and of the lock's key.
THEOREM PublisherTypeCorrect == PublisherSpec => []PublisherTypeOK
  <1>1. PublisherInv => PublisherTypeOK
    BY DEF PublisherInv
  <1>2. QED
    BY <1>1, PublisherInvInit, PublisherInvNext, PTL DEF PublisherSpec

\* However many processes publish, and wherever they are stopped, die or lose
\* their Redis: two of them publish at once only if a lock expired under one.
THEOREM PublishersTakeTurns == PublisherSpec => []OnePublisher
  <1>1. PublisherInv => OnePublisher
    BY DEF PublisherInv, PublisherTypeOK, GrantedHoldsKey, OnePublisher
  <1>2. QED
    BY <1>1, PublisherInvInit, PublisherInvNext, PTL DEF PublisherSpec

-----------------------------------------------------------------------------
(* Authorization policies *)

\* Only what was stored is published, hence heard of.
HeardWasStored == (\A v \in announced : v <= policy) /\ \A w \in Enforcers : heard[w] <= policy

\* A policy is being loaded only during a reload, and who is away has heard of nothing.
LoadingInReload ==
    \A w \in Enforcers :
        /\ loading[w] # NotRead => doing[w] = "reloading"
        /\ doing[w] = "away" => heard[w] = 0 /\ inbox[w] = 0

\* A worker without a message is going by what it heard of, or will.
NewsIsComing ==
    \A w \in Enforcers : inbox[w] = 0 =>
        /\ doing[w] = "waiting" => loaded[w] >= heard[w]
        /\ doing[w] = "reloading" => loading[w] >= heard[w]

\* A message is a publication, and no version is published twice.
MessagesArePublications ==
    0 \in announced /\ \A w \in Enforcers : inbox[w] < Cardinality(announced)

PolicyInv ==
    /\ PolicyTypeOK /\ HeardWasStored /\ LoadingInReload /\ NewsIsComing /\ MessagesArePublications

LEMMA PolicyInvInit == PolicyInit => PolicyInv
  <1>1. Cardinality({0}) = 1
    BY FS_Singleton
  <1>2. QED
    BY <1>1, PolicyAssumption
       DEF PolicyInit, PolicyInv, PolicyTypeOK, HeardWasStored, LoadingInReload, NewsIsComing,
           MessagesArePublications, NotRead, Policies

\* There are finitely many publications, and a new one is one more.
LEMMA PublicationsCounted ==
  ASSUME PolicyTypeOK
  PROVE  /\ Cardinality(announced) \in 0..MaxPolicies + 1
         /\ \A v \in Policies \ announced : Cardinality(announced \union {v}) = Cardinality(announced) + 1
  <1>1. IsFiniteSet(Policies) /\ Cardinality(Policies) = MaxPolicies + 1
    BY PolicyAssumption, FS_Interval DEF Policies
  <1>2. announced \in SUBSET Policies
    BY DEF PolicyTypeOK
  <1>3. IsFiniteSet(announced) /\ Cardinality(announced) <= MaxPolicies + 1
    BY <1>1, <1>2, FS_Subset
  <1>4. QED
    BY <1>3, FS_AddElement, FS_CardinalityType, PolicyAssumption

LEMMA PolicyInvNext == PolicyInv /\ [PolicyNext]_policyVars => PolicyInv'
  <1> SUFFICES ASSUME PolicyInv, [PolicyNext]_policyVars PROVE PolicyInv'
    OBVIOUS
  <1> USE PolicyAssumption DEF PolicyInv, PolicyTypeOK, HeardWasStored, LoadingInReload, NewsIsComing,
          MessagesArePublications, NotRead, Policies
  <1>1. ASSUME SavePolicy PROVE PolicyInv'
    BY <1>1 DEF SavePolicy
  <1>2. ASSUME NEW version \in Policies, PublishPolicy(version) PROVE PolicyInv'
    <2> DEFINE more == announced \union {version}
    <2>1. Cardinality(more) = Cardinality(announced) + 1 /\ Cardinality(announced) \in Nat
      BY <1>2, PublicationsCounted DEF PublishPolicy
    <2>2. Cardinality(more) <= MaxPolicies + 1
      <3>1. IsFiniteSet(Policies) /\ Cardinality(Policies) = MaxPolicies + 1
        BY FS_Interval
      <3>2. more \in SUBSET Policies
        OBVIOUS
      <3>3. QED
        BY <3>1, <3>2, FS_Subset
    <2>3. announced' = more
      BY <1>2 DEF PublishPolicy
    <2> HIDE DEF more
    <2>4. \A w \in Enforcers : inbox'[w] < Cardinality(more) /\ inbox'[w] \in 0..MaxPolicies
      BY <1>2, <2>1, <2>2 DEF PublishPolicy
    <2>5. /\ inbox' \in [Enforcers -> 0..MaxPolicies] /\ heard' \in [Enforcers -> 0..MaxPolicies]
          /\ \A w \in Enforcers : heard'[w] <= policy
      BY <1>2, <2>4 DEF PublishPolicy
    <2>6. LoadingInReload' /\ NewsIsComing'
      BY <1>2, <2>4, <2>5 DEF PublishPolicy, Subscribed
    <2>7. announced' \subseteq 0..MaxPolicies /\ 0 \in announced' /\ \A v \in announced' : v <= policy
      BY <1>2 DEF PublishPolicy
    <2>8. QED
      BY <1>2, <2>3, <2>4, <2>5, <2>6, <2>7 DEF PublishPolicy
  <1>3. ASSUME NEW w \in Enforcers, SubscribePolicy(w) PROVE PolicyInv'
    BY <1>3 DEF SubscribePolicy
  <1>4. ASSUME NEW w \in Enforcers, TakePolicyMessage(w) PROVE PolicyInv'
    BY <1>4, PublicationsCounted DEF TakePolicyMessage
  <1>5. ASSUME NEW w \in Enforcers, ReadPolicy(w) PROVE PolicyInv'
    BY <1>5 DEF ReadPolicy
  <1>6. ASSUME NEW w \in Enforcers, Reloaded(w) PROVE PolicyInv'
    BY <1>6 DEF Reloaded
  <1>7. ASSUME NEW w \in Enforcers, ReloadRaises(w) PROVE PolicyInv'
    BY <1>7 DEF ReloadRaises
  <1>8. ASSUME NEW w \in Enforcers, ClosePolicies(w) PROVE PolicyInv'
    BY <1>8, PublicationsCounted DEF ClosePolicies
  <1>9. ASSUME UNCHANGED policyVars PROVE PolicyInv'
    BY <1>9 DEF policyVars
  <1>10. QED
    BY <1>1, <1>2, <1>3, <1>4, <1>5, <1>6, <1>7, <1>8, <1>9 DEF PolicyNext

\* Types of the policies, the messages about them and the workers.
THEOREM PolicyTypeCorrect == PolicySpec => []PolicyTypeOK
  <1>1. PolicyInv => PolicyTypeOK
    BY DEF PolicyInv
  <1>2. QED
    BY <1>1, PolicyInvInit, PolicyInvNext, PTL DEF PolicySpec

\* A worker with no message left and no reload under way goes by the last policy
\* that was published to it, or a later one, for any number of workers and policies.
THEOREM PoliciesAreLoaded == PolicySpec => []PolicyArrives
  <1>1. PolicyInv => PolicyArrives
    BY DEF PolicyInv, NewsIsComing, PolicyArrives
  <1>2. QED
    BY <1>1, PolicyInvInit, PolicyInvNext, PTL DEF PolicySpec

-----------------------------------------------------------------------------
(* Migration runners *)

Doing == {"idle", "between", "script", "recorded"}

\* Two runners in a transaction change different versions.
RunnersApart ==
    \A q, r \in Runners : InTransaction(q) /\ InTransaction(r) /\ Version(q) = Version(r) => q = r

\* What a transaction has done on its copy of the schema: its statements so far.
WorkSoFar(r) ==
    /\ runners[r].next \in 1..Statements + 1
    /\ runners[r].at = "recorded" => runners[r].next = Statements + 1
    /\ Version(r) \in Versions =>
          runners[r].work = IF runners[r].way = "up"
                            THEN schema[Version(r)] \union 1..runners[r].next - 1
                            ELSE schema[Version(r)] \ (1..runners[r].next - 1)

WorkIsProgress == \A r \in Runners : InTransaction(r) => WorkSoFar(r)

\* A runner is a record, whatever the plan in it, and whatever its copy of the
\* objects of a version that is not in the directory.
Run(plans, copies) ==
    [at : Doing, way : {"up", "down"}, todo : plans, work : copies, next : Nat]

RunnersTyped == \E plans, copies : runners \in [Runners -> Run(plans, copies)]

\* A step of runner r, after which it is as given; the others are as before.
Becomes(r, at, way, todo, work, next) ==
    /\ runners'[r].at = at /\ runners'[r].way = way /\ runners'[r].todo = todo
    /\ runners'[r].work = work /\ runners'[r].next = next
    /\ \A q \in Runners : q # r => runners'[q] = runners[q]
    /\ RunnersTyped'

MigrationInv ==
    /\ schema \in [Versions -> SUBSET (1..Statements)]
    /\ RunnersTyped /\ RunnersApart /\ WorkIsProgress /\ SchemaMatchesRecords

LEMMA StatementsType == Statements \in Nat /\ Statements > 0
  BY MigrationAssumption

LEMMA MigrationInvInit == MigrationsInit => MigrationInv
  <1> SUFFICES ASSUME MigrationsInit PROVE MigrationInv
    OBVIOUS
  <1>1. schema \in [Versions -> SUBSET (1..Statements)]
    BY DEF MigrationsInit
  <1>2. RunnersTyped /\ \A r \in Runners : runners[r].at = "idle"
    <2>1. runners \in [Runners -> Run({<<>>}, {{}})] /\ \A r \in Runners : runners[r].at = "idle"
      BY DEF MigrationsInit, Run, NotRunning, Outside, Doing
    <2>2. QED
      BY <2>1 DEF RunnersTyped
  <1>3. QED
    BY <1>1, <1>2 DEF MigrationsInit, MigrationInv, RunnersApart, WorkIsProgress, InTransaction,
                      SchemaMatchesRecords

\* A runner that is replaced by a record, and one whose record changes.
LEMMA RunnerReplaced ==
  ASSUME RunnersTyped, NEW r \in Runners, NEW at \in Doing, NEW way \in {"up", "down"},
         NEW todo, NEW work, NEW next \in Nat,
         runners' = [runners EXCEPT ![r] =
                        [at |-> at, way |-> way, todo |-> todo, work |-> work, next |-> next]]
  PROVE  Becomes(r, at, way, todo, work, next)
  <1>1. PICK plans, copies : runners \in [Runners -> Run(plans, copies)]
    BY DEF RunnersTyped
  <1> DEFINE run == [at |-> at, way |-> way, todo |-> todo, work |-> work, next |-> next]
             all == Run(plans \union {todo}, copies \union {work})
  <1>2. run \in all
    BY DEF Run
  <1>3. \A q \in Runners : runners[q] \in all
    BY <1>1 DEF Run
  <1> HIDE DEF all
  <1>4. runners' \in [Runners -> all]
    BY <1>1, <1>2, <1>3
  <1>5. RunnersTyped'
    BY <1>4 DEF RunnersTyped, all
  <1>6. QED
    BY <1>1, <1>5 DEF Becomes

\* What a runner's transaction has done does not depend on another runner's step.
LEMMA OthersProgress ==
  ASSUME MigrationInv, NEW r \in Runners, NEW at, NEW way, NEW todo, NEW work, NEW next,
         Becomes(r, at, way, todo, work, next), schema' = schema,
         at \in {"script", "recorded"} => WorkSoFar(r)'
  PROVE  WorkIsProgress'
  <1> SUFFICES ASSUME NEW q \in Runners, InTransaction(q)' PROVE WorkSoFar(q)'
    BY DEF WorkIsProgress
  <1>1. CASE q = r
    BY <1>1 DEF InTransaction, Becomes
  <1>2. CASE q # r
    <2>1. runners'[q] = runners[q]
      BY <1>2 DEF Becomes
    <2>2. WorkSoFar(q)
      BY <2>1 DEF MigrationInv, WorkIsProgress, InTransaction
    <2>3. QED
      BY <2>1, <2>2 DEF WorkSoFar, Version
  <1>3. QED
    BY <1>1, <1>2

\* Steps that neither begin nor advance a transaction.
LEMMA OutsideTransactions ==
  ASSUME MigrationInv, NEW r \in Runners, NEW at \in {"idle", "between"}, NEW way \in {"up", "down"},
         NEW todo, NEW work, NEW next, Becomes(r, at, way, todo, work, next),
         UNCHANGED <<schema, recorded>>
  PROVE  MigrationInv'
  <1>1. RunnersTyped'
    BY DEF Becomes
  <1>2. ~InTransaction(r)' /\ \A q \in Runners : q # r => InTransaction(q)' = InTransaction(q) /\ Version(q)' = Version(q)
    BY DEF Becomes, InTransaction, Version
  <1>3. RunnersApart'
    BY <1>2 DEF MigrationInv, RunnersApart
  <1>4. WorkIsProgress'
    BY OthersProgress
  <1>5. QED
    BY <1>1, <1>3, <1>4 DEF MigrationInv, SchemaMatchesRecords

LEMMA PlansKeeps ==
  ASSUME MigrationInv, NEW r \in Runners, NEW way \in {"up", "down"}, NEW plan, Plans(r, way, plan)
  PROVE  MigrationInv'
  <1>1. Becomes(r, "between", way, plan, {}, 1)
    BY RunnerReplaced DEF MigrationInv, Plans, NotRunning, Outside, Doing
  <1>2. QED
    BY <1>1, OutsideTransactions DEF Plans

LEMMA FailMigrationKeeps ==
  ASSUME MigrationInv, NEW r \in Runners, FailMigration(r)
  PROVE  MigrationInv'
  <1>1. Becomes(r, "idle", "up", <<>>, {}, 1)
    BY RunnerReplaced DEF MigrationInv, FailMigration, NotRunning, Outside, Doing
  <1>2. QED
    BY <1>1, OutsideTransactions DEF FailMigration

LEMMA BeginMigrationKeeps ==
  ASSUME MigrationInv, NEW r \in Runners, BeginMigration(r)
  PROVE  MigrationInv'
  <1>1. Becomes(r, "script", runners[r].way, runners[r].todo, schema[Version(r)], 1)
    <2>1. PICK plans, copies : runners \in [Runners -> Run(plans, copies)]
      BY DEF MigrationInv, RunnersTyped
    <2> DEFINE more == copies \union {schema[Version(r)]}
    <2>2. runners' \in [Runners -> Run(plans, more)]
      <3>1. \A q \in Runners : q # r => runners'[q] = runners[q]
        BY <2>1 DEF BeginMigration
      <3>2. \A q \in Runners : runners[q] \in Run(plans, more)
        BY <2>1 DEF Run
      <3>3. runners'[r] = [runners[r] EXCEPT !.at = "script", !.work = schema[Version(r)], !.next = 1]
        BY <2>1 DEF BeginMigration
      <3>4. runners'[r] \in Run(plans, more)
        <4>1. [runners[r] EXCEPT !.at = "script"] \in Run(plans, more)
          BY <3>2 DEF Run, Doing
        <4>2. schema[Version(r)] \in more /\ 1 \in Nat
          OBVIOUS
        <4> HIDE DEF more
        <4>3. ASSUME NEW run \in Run(plans, more), NEW work \in more
              PROVE  [run EXCEPT !.work = work, !.next = 1] \in Run(plans, more)
          BY DEF Run
        <4>4. QED
          BY <3>3, <4>1, <4>2, <4>3
      <3>5. QED
        BY <2>1, <3>1, <3>2, <3>4 DEF BeginMigration
    <2>3. RunnersTyped'
      BY <2>2 DEF RunnersTyped
    <2>4. QED
      BY <2>1, <2>3 DEF BeginMigration, Run, Becomes
  <1>2. RunnersTyped'
    BY <1>1 DEF Becomes
  <1>3. \A q \in Runners : Version(q)' = Version(q) /\ (q # r => InTransaction(q)' = InTransaction(q))
    BY <1>1 DEF Becomes, InTransaction, Version
  <1>4. RunnersApart'
    BY <1>3 DEF MigrationInv, RunnersApart, BeginMigration
  <1>5. WorkSoFar(r)'
    <2>1. 1..1 - 1 = {} /\ 1 \in 1..Statements + 1
      BY StatementsType
    <2>2. /\ runners'[r].at = "script" /\ runners'[r].next = 1 /\ Version(r)' = Version(r)
          /\ runners'[r].work = schema'[Version(r)]
      BY <1>1, <1>3 DEF Becomes, BeginMigration
    <2>3. QED
      BY <2>1, <2>2 DEF WorkSoFar
  <1>6. WorkIsProgress'
    BY <1>1, <1>5, OthersProgress DEF BeginMigration
  <1>7. QED
    BY <1>2, <1>4, <1>6 DEF MigrationInv, SchemaMatchesRecords, BeginMigration

LEMMA ExecuteKeeps ==
  ASSUME MigrationInv, NEW r \in Runners, Execute(r)
  PROVE  MigrationInv'
  <1>1. Becomes(r, "script", runners[r].way, runners[r].todo, After(r), runners[r].next + 1)
    <2>1. PICK plans, copies : runners \in [Runners -> Run(plans, copies)]
      BY DEF MigrationInv, RunnersTyped
    <2> DEFINE more == copies \union {After(r)}
    <2>2. runners' \in [Runners -> Run(plans, more)]
      BY <2>1 DEF Execute, Run, Doing
    <2>3. RunnersTyped'
      BY <2>2 DEF RunnersTyped
    <2>4. QED
      BY <2>1, <2>3 DEF Execute, Run, Becomes
  <1>2. RunnersTyped'
    BY <1>1 DEF Becomes
  <1>3. \A q \in Runners : Version(q)' = Version(q) /\ InTransaction(q)' = InTransaction(q)
    BY <1>1 DEF Becomes, InTransaction, Version, Execute
  <1>4. RunnersApart'
    BY <1>3 DEF MigrationInv, RunnersApart
  <1>5. WorkSoFar(r) /\ InTransaction(r)
    BY DEF MigrationInv, WorkIsProgress, InTransaction, Execute
  <1>6. WorkSoFar(r)'
    <2>1. runners[r].next \in 1..Statements + 1 /\ runners[r].next <= Statements
      BY <1>5 DEF WorkSoFar, Execute
    <2>2. 1..(runners[r].next + 1) - 1 = (1..runners[r].next - 1) \union {runners[r].next}
      BY <2>1, StatementsType
    <2>3. /\ runners'[r].at = "script" /\ runners'[r].next = runners[r].next + 1
          /\ runners'[r].way = runners[r].way /\ runners'[r].work = After(r)
          /\ Version(r)' = Version(r) /\ schema' = schema
      BY <1>1, <1>3 DEF Becomes, Execute
    <2>4. runners'[r].next \in 1..Statements + 1
      BY <2>1, <2>3, StatementsType
    <2>5. Version(r) \in Versions =>
             After(r) = IF runners[r].way = "up"
                        THEN schema[Version(r)] \union 1..(runners[r].next + 1) - 1
                        ELSE schema[Version(r)] \ (1..(runners[r].next + 1) - 1)
      BY <1>5, <2>2 DEF WorkSoFar, After
    <2>6. QED
      BY <2>3, <2>4, <2>5 DEF WorkSoFar
  <1>7. WorkIsProgress'
    BY <1>1, <1>6, OthersProgress DEF Execute
  <1>8. QED
    BY <1>2, <1>4, <1>7 DEF MigrationInv, SchemaMatchesRecords, Execute

LEMMA RecordKeeps ==
  ASSUME MigrationInv, NEW r \in Runners, Record(r)
  PROVE  MigrationInv'
  <1>1. Becomes(r, "recorded", runners[r].way, runners[r].todo, runners[r].work, runners[r].next)
    <2>1. PICK plans, copies : runners \in [Runners -> Run(plans, copies)]
      BY DEF MigrationInv, RunnersTyped
    <2> DEFINE more == copies \union {runners[r].work}
    <2>2. runners' \in [Runners -> Run(plans, more)]
      BY <2>1 DEF Record, Run, Doing
    <2>3. RunnersTyped'
      BY <2>2 DEF RunnersTyped
    <2>4. QED
      BY <2>1, <2>3 DEF Record, Run, Becomes
  <1>2. RunnersTyped'
    BY <1>1 DEF Becomes
  <1>3. \A q \in Runners : Version(q)' = Version(q) /\ InTransaction(q)' = InTransaction(q)
    BY <1>1 DEF Becomes, InTransaction, Version, Record
  <1>4. RunnersApart'
    BY <1>3 DEF MigrationInv, RunnersApart
  <1>5. WorkSoFar(r)
    BY DEF MigrationInv, WorkIsProgress, InTransaction, Record
  <1>6. WorkSoFar(r)'
    <2>1. /\ runners'[r].next = runners[r].next /\ runners'[r].way = runners[r].way
          /\ runners'[r].work = runners[r].work /\ Version(r)' = Version(r) /\ schema' = schema
      BY <1>1, <1>3 DEF Becomes, Record
    <2>2. runners[r].next = Statements + 1
      BY <1>5, StatementsType DEF WorkSoFar, Record
    <2>3. QED
      BY <1>5, <2>1, <2>2 DEF WorkSoFar
  <1>7. WorkIsProgress'
    BY <1>1, <1>6, OthersProgress DEF Record
  <1>8. QED
    BY <1>2, <1>4, <1>7 DEF MigrationInv, SchemaMatchesRecords, Record

\* The commit of a whole script brings its version from one state to the other,
\* and no other transaction has read that version's objects.
LEMMA CommitMigrationKeeps ==
  ASSUME MigrationInv, NEW r \in Runners, CommitMigration(r)
  PROVE  MigrationInv'
  <1> DEFINE at == IF Len(runners[r].todo) = 1 THEN "idle" ELSE "between"
             v  == Version(r)
  <1>1. Becomes(r, at, runners[r].way, Tail(runners[r].todo), {}, 1)
    <2>1. at \in Doing /\ runners[r].way \in {"up", "down"}
      BY DEF MigrationInv, RunnersTyped, Run, Doing
    <2>2. QED
      BY <2>1, RunnerReplaced DEF MigrationInv, CommitMigration, Outside
  <1>2. RunnersTyped'
    BY <1>1 DEF Becomes
  <1>3. /\ ~InTransaction(r)'
        /\ \A q \in Runners : q # r => InTransaction(q)' = InTransaction(q) /\ Version(q)' = Version(q)
    BY <1>1 DEF Becomes, InTransaction, Version
  <1>4. RunnersApart'
    BY <1>3 DEF MigrationInv, RunnersApart
  <1>5. InTransaction(r) /\ WorkSoFar(r) /\ runners[r].next = Statements + 1
    BY DEF MigrationInv, WorkIsProgress, WorkSoFar, InTransaction, CommitMigration
  <1>6. v \in Versions => runners[r].work = IF runners[r].way = "up" THEN 1..Statements ELSE {}
    <2>1. 1..(Statements + 1) - 1 = 1..Statements
      BY StatementsType
    <2>2. v \in Versions => schema[v] \subseteq 1..Statements
      BY DEF MigrationInv
    <2>3. QED
      BY <1>5, <2>1, <2>2 DEF WorkSoFar
  <1>7. /\ \A u \in Versions : schema'[u] = IF u = v THEN runners[r].work ELSE schema[u]
        /\ schema' \in [Versions -> SUBSET (1..Statements)]
    BY <1>6 DEF CommitMigration, MigrationInv
  <1>8. WorkIsProgress'
    <2>1. \A q \in Runners : q # r /\ InTransaction(q) => Version(q) # v
      BY <1>5 DEF MigrationInv, RunnersApart
    <2>2. ASSUME NEW q \in Runners, q # r, InTransaction(q) PROVE WorkSoFar(q)'
      <3>1. WorkSoFar(q) /\ runners'[q] = runners[q] /\ Version(q)' = Version(q)
        BY <1>1, <1>3, <2>2 DEF MigrationInv, WorkIsProgress, Becomes
      <3>2. Version(q) \in Versions => schema'[Version(q)] = schema[Version(q)]
        BY <1>7, <2>1, <2>2
      <3>3. QED
        BY <3>1, <3>2 DEF WorkSoFar
    <2>3. QED
      BY <1>3, <2>2 DEF WorkIsProgress
  <1>9. SchemaMatchesRecords'
    BY <1>6, <1>7 DEF SchemaMatchesRecords, MigrationInv, RunnersTyped, CommitMigration
  <1>10. QED
    BY <1>2, <1>4, <1>7, <1>8, <1>9 DEF MigrationInv

LEMMA MigrationInvNext == MigrationInv /\ [MigrationsNext]_migrationVars => MigrationInv'
  <1> SUFFICES ASSUME MigrationInv, [MigrationsNext]_migrationVars PROVE MigrationInv'
    OBVIOUS
  <1>1. ASSUME NEW r \in Runners, Migrate(r) PROVE MigrationInv'
    BY <1>1, PlansKeeps DEF Migrate
  <1>2. ASSUME NEW r \in Runners, Rollback(r) PROVE MigrationInv'
    BY <1>2, PlansKeeps DEF Rollback
  <1>3. ASSUME UNCHANGED migrationVars PROVE MigrationInv'
    BY <1>3 DEF migrationVars, MigrationInv, RunnersTyped, RunnersApart, WorkIsProgress, WorkSoFar,
                InTransaction, Version, SchemaMatchesRecords
  <1>4. QED
    BY <1>1, <1>2, <1>3, BeginMigrationKeeps, ExecuteKeeps, RecordKeeps, CommitMigrationKeeps,
       FailMigrationKeeps DEF MigrationsNext

\* A version is recorded exactly if its whole script is in effect, whatever the
\* plans of however many runners, and wherever these fail.
THEOREM RecordsAreTrue == MigrationsSpec => []SchemaMatchesRecords
  <1>1. MigrationInv => SchemaMatchesRecords
    BY DEF MigrationInv
  <1>2. QED
    BY <1>1, MigrationInvInit, MigrationInvNext, PTL DEF MigrationsSpec

-----------------------------------------------------------------------------
(* Uploads *)

Chunks == [Offsets -> -1..MaxChunk]

\* The bytes that the chunk at an offset adds.
Added(chunks, o) == IF o \in Stored(chunks) THEN chunks[o] ELSE 0

\* A set of numbers that is not empty has a least one.
LEMMA LeastOf ==
  ASSUME NEW S \in SUBSET Nat, S # {}
  PROVE  \E n \in S : \A m \in S : n <= m
  <1>1. PICK n \in S : \A m \in S : ~(<<m, n>> \in OpToRel(<, Nat))
    BY NatLessThanWellFounded, WFMin
  <1>2. \A m \in S : ~(m < n)
    <2> TAKE m \in S
    <2>1. m \in Nat /\ n \in Nat
      OBVIOUS
    <2>2. QED
      BY <1>1, <2>1, Zenon DEF OpToRel
  <1>3. QED
    BY <1>2

LEMMA OffsetFacts ==
  /\ TotalSize \in Nat /\ TotalSize + 1 \in Nat
  /\ \A o : o \in Offsets <=> o \in Nat /\ o <= TotalSize
  /\ \A o : o \in 0..TotalSize + 1 <=> o \in Nat /\ o <= TotalSize + 1
  BY UploadAssumption DEF Offsets

LEMMA AddedIsNatural ==
  ASSUME NEW c \in Chunks, NEW o
  PROVE  Added(c, o) \in Nat
  BY UploadAssumption DEF Added, Stored, Chunks

\* There are the sums that Joined stands for, as long as one wants them.
LEMMA SumsExist ==
  ASSUME NEW c \in Chunks, NEW n \in Nat
  PROVE  \E f \in [0..n -> Nat] :
            f[0] = 0 /\ \A o \in 1..n : f[o] = f[o - 1] + Added(c, o - 1)
  <1> DEFINE Sums(m) == \E f \in [0..m -> Nat] :
                           f[0] = 0 /\ \A o \in 1..m : f[o] = f[o - 1] + Added(c, o - 1)
             Without == {m \in Nat : ~Sums(m)}
  <1>1. SUFFICES ASSUME Without # {} PROVE FALSE
    BY DEF Without
  <1>2. PICK m \in Without : \A k \in Without : m <= k
    BY <1>1, LeastOf
  <1>3. m # 0
    <2>1. Sums(0)
      <3>1. PICK f : f = [o \in 0..0 |-> 0]
        OBVIOUS
      <3>2. f \in [0..0 -> Nat] /\ f[0] = 0 /\ \A o \in 1..0 : FALSE
        BY <3>1
      <3>3. QED
        BY <3>2
    <2>2. QED
      BY <2>1
  <1>4. m - 1 \in Nat /\ ~(m <= m - 1) /\ m \in Nat
    BY <1>3
  <1>5. Sums(m - 1)
    BY <1>2, <1>4
  <1>6. PICK f \in [0..m - 1 -> Nat] :
           f[0] = 0 /\ \A o \in 1..m - 1 : f[o] = f[o - 1] + Added(c, o - 1)
    BY <1>5
  <1>7. PICK g : g = [o \in 0..m |-> IF o = m THEN f[m - 1] + Added(c, m - 1) ELSE f[o]]
    OBVIOUS
  <1>8. g \in [0..m -> Nat] /\ g[0] = 0 /\ \A o \in 1..m : g[o] = g[o - 1] + Added(c, o - 1)
    <2>1. Added(c, m - 1) \in Nat /\ f[m - 1] \in Nat
      BY <1>4, <1>6, AddedIsNatural
    <2>2. g \in [0..m -> Nat]
      BY <1>4, <1>6, <1>7, <2>1
    <2>3. g[0] = 0
      BY <1>3, <1>4, <1>6, <1>7
    <2>4. ASSUME NEW o \in 1..m PROVE g[o] = g[o - 1] + Added(c, o - 1)
      <3>1. o - 1 \in 0..m /\ o - 1 # m /\ g[o - 1] = f[o - 1] /\ o \in 0..m
        BY <1>4, <1>7
      <3>2. CASE o = m
        BY <1>7, <3>1, <3>2
      <3>3. CASE o # m
        <4>1. o \in 1..m - 1 /\ g[o] = f[o]
          BY <1>4, <1>7, <3>1, <3>3
        <4>2. QED
          BY <1>6, <3>1, <4>1
      <3>4. QED
        BY <3>2, <3>3
    <2>5. QED
      BY <2>2, <2>3, <2>4
  <1>9. QED
    BY <1>4, <1>8

\* Joined counts as the code does: chunk by chunk.
LEMMA JoinedCounts ==
  ASSUME NEW c \in Chunks
  PROVE  /\ \A o \in 0..TotalSize + 1 : Joined(c)[o] \in Nat
         /\ Joined(c)[0] = 0
         /\ \A o \in Offsets : Joined(c)[o + 1] = Joined(c)[o] + Added(c, o)
  <1> DEFINE Counts(f) == f = [o \in 0..TotalSize + 1 |->
                                  IF o = 0 THEN 0
                                  ELSE f[o - 1] + (IF o - 1 \in Stored(c) THEN c[o - 1] ELSE 0)]
  <1>1. PICK f \in [0..TotalSize + 1 -> Nat] :
           f[0] = 0 /\ \A o \in 1..TotalSize + 1 : f[o] = f[o - 1] + Added(c, o - 1)
    BY SumsExist, OffsetFacts
  <1>2. Counts(f)
    <2>1. \A o \in 0..TotalSize + 1 :
             f[o] = IF o = 0 THEN 0
                    ELSE f[o - 1] + (IF o - 1 \in Stored(c) THEN c[o - 1] ELSE 0)
      <3> TAKE o \in 0..TotalSize + 1
      <3>1. CASE o = 0
        BY <1>1, <3>1
      <3>2. CASE o # 0
        <4>1. o \in 1..TotalSize + 1
          BY <3>2, OffsetFacts
        <4>2. QED
          BY <1>1, <3>2, <4>1 DEF Added
      <3>3. QED
        BY <3>1, <3>2
    <2>2. QED
      BY <1>1, <2>1
  <1>3. Joined(c) = CHOOSE g : Counts(g)
    BY DEF Joined
  <1>4. PICK h : h = Joined(c)
    OBVIOUS
  <1>5. Counts(h)
    BY <1>2, <1>3, <1>4
  <1>6. h[0] = 0
    BY <1>5, OffsetFacts
  <1>7. \A o \in Offsets : h[o + 1] = h[o] + Added(c, o)
    <2> TAKE o \in Offsets
    <2>1. o + 1 \in 0..TotalSize + 1 /\ o + 1 # 0 /\ (o + 1) - 1 = o
      BY OffsetFacts
    <2>2. QED
      BY <1>5, <2>1 DEF Added
  <1>8. \A o \in 0..TotalSize + 1 : h[o] \in Nat
    <2> DEFINE Odd == {o \in Nat : o <= TotalSize + 1 /\ h[o] \notin Nat}
    <2>1. SUFFICES ASSUME Odd # {} PROVE FALSE
      BY OffsetFacts
    <2>2. PICK o \in Odd : \A k \in Odd : o <= k
      BY <2>1, LeastOf
    <2>3. o # 0 /\ o \in Nat /\ o <= TotalSize + 1
      BY <1>6, <2>2
    <2>4. o - 1 \in Offsets /\ o - 1 \in Nat /\ o - 1 <= TotalSize + 1 /\ ~(o <= o - 1) /\ (o - 1) + 1 = o
      BY <2>3, OffsetFacts
    <2>5. h[o - 1] \in Nat
      BY <2>2, <2>4
    <2>6. h[o] = h[o - 1] + Added(c, o - 1)
      BY <1>7, <2>4
    <2>7. QED
      BY <2>2, <2>5, <2>6, AddedIsNatural
  <1>9. QED
    BY <1>4, <1>6, <1>7, <1>8

\* What comes before an offset does not depend on the chunks from there on.
LEMMA SameBefore ==
  ASSUME NEW b \in Chunks, NEW c \in Chunks, NEW n \in Nat, n <= TotalSize + 1,
         \A o \in Offsets : o < n => Added(b, o) = Added(c, o)
  PROVE  Joined(b)[n] = Joined(c)[n]
  <1> DEFINE Odd == {m \in Nat : m <= n /\ Joined(b)[m] # Joined(c)[m]}
  <1>1. SUFFICES ASSUME Odd # {} PROVE FALSE
    OBVIOUS
  <1>2. PICK m \in Odd : \A k \in Odd : m <= k
    BY <1>1, LeastOf
  <1>3. m \in Nat /\ m <= n /\ Joined(b)[m] # Joined(c)[m] /\ m # 0
    BY <1>2, JoinedCounts
  <1>4. m - 1 \in Offsets /\ m - 1 \in Nat /\ m - 1 < n /\ m - 1 <= n /\ ~(m <= m - 1) /\ (m - 1) + 1 = m
    BY <1>3, OffsetFacts
  <1>5. Joined(b)[m - 1] = Joined(c)[m - 1]
    BY <1>2, <1>4
  <1>6. Added(b, m - 1) = Added(c, m - 1)
    BY <1>4
  <1>7. Joined(b)[m] = Joined(b)[m - 1] + Added(b, m - 1) /\ Joined(c)[m] = Joined(c)[m - 1] + Added(c, m - 1)
    BY <1>4, JoinedCounts
  <1>8. QED
    BY <1>3, <1>5, <1>6, <1>7

\* After the last chunk nothing is added.
LEMMA SameAfter ==
  ASSUME NEW c \in Chunks, NEW n \in Offsets, \A o \in Stored(c) : o <= n
  PROVE  Size(c) = Joined(c)[n] + Added(c, n)
  <1> DEFINE Odd == {m \in Nat : n < m /\ m <= TotalSize + 1 /\ Joined(c)[m] # Joined(c)[n + 1]}
  <1>1. Odd = {}
    <2>1. SUFFICES ASSUME Odd # {} PROVE FALSE
      OBVIOUS
    <2>2. PICK m \in Odd : \A k \in Odd : m <= k
      BY <2>1, LeastOf
    <2>3. m \in Nat /\ n \in Nat /\ n < m /\ m <= TotalSize + 1 /\ m # n + 1
      BY <2>2, OffsetFacts
    <2>4. /\ m - 1 \in Offsets /\ m - 1 \in Nat /\ n < m - 1 /\ m - 1 <= TotalSize + 1
          /\ ~(m <= m - 1) /\ (m - 1) + 1 = m /\ ~(m - 1 <= n)
      BY <2>3, OffsetFacts
    <2>5. Joined(c)[m - 1] = Joined(c)[n + 1]
      BY <2>2, <2>4
    <2>6. Joined(c)[m] = Joined(c)[m - 1] + Added(c, m - 1)
      BY <2>4, JoinedCounts
    <2>7. Added(c, m - 1) = 0
      BY <2>4 DEF Added
    <2>8. Joined(c)[m - 1] \in Nat
      BY <2>4, OffsetFacts, JoinedCounts
    <2>9. QED
      BY <2>2, <2>5, <2>6, <2>7, <2>8
  <1>2. TotalSize + 1 \in Nat /\ n < TotalSize + 1
    BY OffsetFacts
  <1>3. Joined(c)[TotalSize + 1] = Joined(c)[n + 1]
    BY <1>1, <1>2
  <1>4. QED
    BY <1>3, JoinedCounts DEF Size

-----------------------------------------------------------------------------
\* Each chunk begins where those before it end.
InOrder(chunks) == \A o \in Stored(chunks) : Joined(chunks)[o] = o

\* An upload so far: its chunks follow each other up to the next offset.
Growing(upload) ==
    /\ InOrder(upload.chunks) /\ Size(upload.chunks) = upload.nextOffset
    /\ \A o \in Stored(upload.chunks) : o <= upload.nextOffset

Finished(chunks) == chunks \in Chunks /\ InOrder(chunks) /\ Size(chunks) = TotalSize

\* A document of the store, as it is or as a process is about to set it.
GoodDocument(document) == document \in [Files -> Upload] /\ \A f \in Files : Growing(document[f])

GoodAnswer(answer) == \A chunks \in answer : Finished(chunks)

UploadInv ==
    /\ GoodDocument(uploads) /\ GoodAnswer(assembled)
    /\ created \subseteq Files /\ overdue \subseteq created
    /\ DOMAIN writing = Servers
    /\ \A s \in Servers : GoodDocument(writing[s].document) /\ GoodAnswer(writing[s].finalized)

LEMMA NoUploadGrows == NoUpload \in Upload /\ Growing(NoUpload)
  <1>1. NoChunks \in Chunks /\ Stored(NoChunks) = {}
    BY UploadAssumption DEF NoChunks, Chunks, Stored
  <1>2. 0 \in Offsets /\ Added(NoChunks, 0) = 0
    BY <1>1, OffsetFacts DEF Added
  <1>3. Size(NoChunks) = Joined(NoChunks)[0] + Added(NoChunks, 0)
    BY <1>1, <1>2, SameAfter
  <1>4. Size(NoChunks) = 0
    BY <1>1, <1>2, <1>3, JoinedCounts
  <1>5. QED
    BY <1>1, <1>2, <1>4 DEF NoUpload, Upload, Growing, InOrder, Chunks

\* A chunk at the next offset, in the place of an empty one if there was one.
LEMMA ChunkFits ==
  ASSUME NEW u \in Upload, Growing(u), NEW size \in 0..MaxChunk,
         u.nextOffset + size <= TotalSize,
         NEW v \in Upload, v.nextOffset = u.nextOffset + size,
         v.chunks = [u.chunks EXCEPT ![u.nextOffset] = size]
  PROVE  Growing(v)
  <1>1. PICK b, c, n : b = u.chunks /\ c = v.chunks /\ n = u.nextOffset
    OBVIOUS
  <1>2. b \in Chunks /\ c \in Chunks /\ n \in Offsets /\ n \in Nat /\ size \in Nat
    BY <1>1, OffsetFacts, UploadAssumption DEF Upload, Chunks
  <1>3. c = [b EXCEPT ![n] = size]
    BY <1>1
  <1>4. /\ n \in Stored(c) /\ Added(c, n) = size
        /\ \A o \in Offsets \ {n} : Added(c, o) = Added(b, o) /\ (o \in Stored(c) <=> o \in Stored(b))
    BY <1>2, <1>3 DEF Added, Stored, Chunks
  <1>5. \A o \in Stored(b) : o \in Offsets /\ o <= n /\ Joined(b)[o] = o
    BY <1>1 DEF Growing, InOrder, Stored
  <1>6. \A o \in Stored(c) : o \in Offsets /\ o <= n
    BY <1>2, <1>4, <1>5 DEF Stored
  <1>7. \A o \in Offsets : o <= n => Joined(c)[o] = Joined(b)[o]
    <2> SUFFICES ASSUME NEW o \in Offsets, o <= n PROVE Joined(c)[o] = Joined(b)[o]
      OBVIOUS
    <2>1. o \in Nat /\ o <= TotalSize + 1
      BY OffsetFacts
    <2>2. \A k \in Offsets : k < o => Added(c, k) = Added(b, k)
      BY <1>2, <1>4, <2>1, OffsetFacts
    <2>3. QED
      BY <1>2, <2>1, <2>2, SameBefore
  <1>8. Joined(b)[n] = n
    <2>1. CASE n \in Stored(b)
      BY <1>5, <2>1
    <2>2. CASE n \notin Stored(b)
      <3>1. Size(b) = Joined(b)[n] + Added(b, n)
        BY <1>2, <1>5, SameAfter
      <3>2. Added(b, n) = 0 /\ Size(b) = n
        BY <1>1, <2>2 DEF Added, Growing
      <3>3. Joined(b)[n] \in Nat
        BY <1>2, OffsetFacts, JoinedCounts
      <3>4. QED
        BY <3>1, <3>2, <3>3
    <2>3. QED
      BY <2>1, <2>2
  <1>9. Size(c) = n + size
    <2>1. Size(c) = Joined(c)[n] + Added(c, n)
      BY <1>2, <1>6, SameAfter
    <2>2. QED
      BY <1>2, <1>4, <1>7, <1>8, <2>1
  <1>10. InOrder(c)
    <2> SUFFICES ASSUME NEW o \in Stored(c) PROVE Joined(c)[o] = o
      BY DEF InOrder
    <2>1. Joined(c)[o] = Joined(b)[o]
      BY <1>6, <1>7
    <2>2. CASE o = n
      BY <1>8, <2>1, <2>2
    <2>3. CASE o # n
      BY <1>4, <1>5, <1>6, <2>1, <2>3
    <2>4. QED
      BY <2>2, <2>3
  <1>11. \A o \in Stored(c) : o <= n + size
    BY <1>2, <1>6, OffsetFacts
  <1>12. QED
    BY <1>1, <1>9, <1>10, <1>11 DEF Growing

\* A process reads the document and will set it changed.
LEMMA ReadsDocument ==
  ASSUME UploadInv, NEW s \in Servers, NEW document, NEW finalized,
         WillSet(s, document, finalized), GoodDocument(document), GoodAnswer(finalized),
         created' \subseteq Files, created \subseteq created'
  PROVE  UploadInv'
  <1>1. /\ UNCHANGED <<uploads, overdue, assembled>>
        /\ writing' = [writing EXCEPT ![s] = [busy |-> TRUE, document |-> document, finalized |-> finalized]]
    BY DEF WillSet
  <1>2. ASSUME NEW r \in Servers
        PROVE  GoodDocument(writing'[r].document) /\ GoodAnswer(writing'[r].finalized)
    <2>1. CASE r = s
      <3>1. writing'[r].document = document /\ writing'[r].finalized = finalized
        BY <1>1, <2>1 DEF UploadInv
      <3>2. QED
        BY <3>1
    <2>2. CASE r # s
      <3>1. writing'[r] = writing[r]
        BY <1>1, <2>2 DEF UploadInv
      <3>2. QED
        BY <3>1 DEF UploadInv
    <2>3. QED
      BY <2>1, <2>2
  <1>3. QED
    BY <1>1, <1>2 DEF UploadInv

LEMMA NothingIsGood == GoodDocument(Nothing.document) /\ GoodAnswer(Nothing.finalized) /\ GoodAnswer({})
  BY NoUploadGrows DEF Nothing, GoodDocument, GoodAnswer

\* A process has set the document or died.
LEMMA IsThrough ==
  ASSUME UploadInv, NEW s \in Servers, writing' = [writing EXCEPT ![s] = Nothing],
         UNCHANGED <<created, overdue>>, GoodDocument(uploads'), GoodAnswer(assembled')
  PROVE  UploadInv'
  <1>1. ASSUME NEW r \in Servers
        PROVE  GoodDocument(writing'[r].document) /\ GoodAnswer(writing'[r].finalized)
    <2>1. CASE r = s
      <3>1. writing'[r] = Nothing
        BY <2>1 DEF UploadInv
      <3>2. QED
        BY <3>1, NothingIsGood
    <2>2. CASE r # s
      <3>1. writing'[r] = writing[r]
        BY <2>2 DEF UploadInv
      <3>2. QED
        BY <3>1 DEF UploadInv
    <2>3. QED
      BY <2>1, <2>2
  <1>2. QED
    BY <1>1 DEF UploadInv

LEMMA UploadsNextKeeps ==
  ASSUME UploadInv, [UploadsNext]_uploadVars
  PROVE  UploadInv'
  <1>1. /\ uploads \in [Files -> Upload] /\ \A f \in Files : Growing(uploads[f])
        /\ created \subseteq Files /\ overdue \subseteq created
    BY DEF UploadInv, GoodDocument
  <1>2. \A f \in Files : uploads[f] \in Upload
    BY <1>1
  <1>3. ASSUME NEW f \in Files, NEW u \in Upload, Growing(u)
        PROVE  GoodDocument([uploads EXCEPT ![f] = u])
    <2>1. \A g \in Files : [uploads EXCEPT ![f] = u][g] = IF g = f THEN u ELSE uploads[g]
      BY <1>1
    <2>2. [uploads EXCEPT ![f] = u] \in [Files -> Upload]
      BY <1>1, <1>3
    <2>3. QED
      BY <1>1, <1>3, <2>1, <2>2 DEF GoodDocument
  <1>4. ASSUME NEW s \in Servers, CreateUpload(s) PROVE UploadInv'
    <2>1. PICK f \in Files \ created :
             /\ created' = created \union {f}
             /\ WillSet(s, [uploads EXCEPT ![f] = [NoUpload EXCEPT !.there = TRUE]], {})
      BY <1>4 DEF CreateUpload
    <2>2. PICK u : u = [NoUpload EXCEPT !.there = TRUE]
      OBVIOUS
    <2>3. u \in Upload /\ u.chunks = NoUpload.chunks /\ u.nextOffset = NoUpload.nextOffset
      BY <2>2, NoUploadGrows DEF Upload
    <2>4. Growing(u)
      BY <2>3, NoUploadGrows DEF Growing
    <2>5. GoodDocument([uploads EXCEPT ![f] = u])
      BY <1>3, <2>3, <2>4
    <2>6. QED
      BY <1>1, <2>1, <2>2, <2>5, NothingIsGood, ReadsDocument
  <1>5. ASSUME NEW s \in Servers, PutChunk(s) PROVE UploadInv'
    <2>1. PICK f \in Files, offset \in Offsets, size \in 0..MaxChunk :
             /\ Fits(uploads[f], offset, size) /\ UNCHANGED created
             /\ WillSet(s, [uploads EXCEPT ![f].chunks[offset] = size,
                                           ![f].nextOffset = @ + size], {})
      BY <1>5 DEF PutChunk
    <2>2. PICK u : u = uploads[f]
      OBVIOUS
    <2>3. PICK v : v = [u EXCEPT !.chunks[offset] = size, !.nextOffset = @ + size]
      OBVIOUS
    <2>4. /\ u \in Upload /\ Growing(u) /\ offset = u.nextOffset /\ offset + size <= TotalSize
          /\ offset \in Nat /\ size \in Nat
      BY <1>1, <2>1, <2>2, OffsetFacts, UploadAssumption DEF Fits
    <2>5. /\ v.nextOffset = u.nextOffset + size /\ v.chunks = [u.chunks EXCEPT ![u.nextOffset] = size]
          /\ v.there = u.there /\ v = [there |-> v.there, chunks |-> v.chunks, nextOffset |-> v.nextOffset]
      BY <2>3, <2>4 DEF Upload
    <2>6. u.there \in BOOLEAN /\ u.chunks \in [Offsets -> -1..MaxChunk]
      BY <2>4 DEF Upload
    <2>7. v.chunks \in [Offsets -> -1..MaxChunk] /\ v.nextOffset \in Offsets
      BY <2>4, <2>5, <2>6, OffsetFacts, UploadAssumption
    <2>8. v \in Upload
      BY <2>5, <2>6, <2>7 DEF Upload
    <2>9. Growing(v)
      BY <2>4, <2>5, <2>8, ChunkFits
    <2>10. [uploads EXCEPT ![f].chunks[offset] = size, ![f].nextOffset = @ + size]
              = [uploads EXCEPT ![f] = v]
      BY <1>1, <2>2, <2>3
    <2>11. GoodDocument([uploads EXCEPT ![f] = v])
      BY <1>3, <2>8, <2>9
    <2>12. QED
      BY <1>1, <2>1, <2>10, <2>11, NothingIsGood, ReadsDocument
  <1>6. ASSUME NEW s \in Servers, Finalize(s) PROVE UploadInv'
    <2>1. PICK f \in Files :
             /\ Size(uploads[f].chunks) = TotalSize /\ UNCHANGED created
             /\ WillSet(s, [uploads EXCEPT ![f] = NoUpload], {uploads[f].chunks})
      BY <1>6 DEF Finalize
    <2>2. Finished(uploads[f].chunks)
      BY <1>1, <1>2, <2>1 DEF Finished, Growing, Upload, Chunks
    <2>3. PICK answer : answer = {uploads[f].chunks}
      OBVIOUS
    <2>4. GoodAnswer(answer)
      BY <2>2, <2>3 DEF GoodAnswer
    <2>5. GoodDocument([uploads EXCEPT ![f] = NoUpload])
      BY <1>3, NoUploadGrows
    <2>6. QED
      BY <1>1, <2>1, <2>3, <2>4, <2>5, ReadsDocument
  <1>7. ASSUME NEW s \in Servers, Cleanup(s) PROVE UploadInv'
    <2>1. PICK document : document = [f \in Files |-> IF f \in overdue THEN NoUpload ELSE uploads[f]]
      OBVIOUS
    <2>2. GoodDocument(document)
      BY <1>1, <2>1, NoUploadGrows DEF GoodDocument
    <2>3. WillSet(s, document, {}) /\ UNCHANGED created
      BY <1>7, <2>1 DEF Cleanup
    <2>4. QED
      BY <1>1, <2>2, <2>3, NothingIsGood, ReadsDocument
  <1>8. ASSUME NEW s \in Servers, SetDocument(s) PROVE UploadInv'
    BY <1>8, IsThrough DEF SetDocument, UploadInv
  <1>9. ASSUME NEW s \in Servers, ServerDies(s) PROVE UploadInv'
    BY <1>9, IsThrough DEF ServerDies, UploadInv
  <1>10. CASE ComesOverdue
    BY <1>10 DEF ComesOverdue, UploadInv
  <1>11. CASE UNCHANGED uploadVars
    BY <1>11 DEF uploadVars, UploadInv
  <1>12. QED
    BY <1>4, <1>5, <1>6, <1>7, <1>8, <1>9, <1>10, <1>11 DEF UploadsNext

LEMMA AlwaysUploadInv == UploadsSpec => []UploadInv
  <1>1. UploadsInit => UploadInv
    BY NoUploadGrows, NothingIsGood DEF UploadsInit, UploadInv, GoodDocument
  <1>2. QED
    BY <1>1, UploadsNextKeeps, PTL DEF UploadsSpec

\* The sessions keep their types whoever sets the document.
THEOREM UploadsTypeCorrect == UploadsSpec => []UploadsTypeOK
  <1>1. UploadInv => UploadsTypeOK
    BY DEF UploadInv, GoodDocument, GoodAnswer, Finished, Chunks, UploadsTypeOK
  <1>2. QED
    BY <1>1, AlwaysUploadInv, PTL

\* With any number of processes that overwrite each other's document, what finalize()
\* joins is the file: each chunk begins where those before it end, up to the last byte.
THEOREM FilesAreWhole == UploadsSpec => []UploadIsWhole
  <1>1. UploadInv => UploadIsWhole
    BY DEF UploadInv, GoodAnswer, Finished, InOrder, UploadIsWhole
  <1>2. QED
    BY <1>1, AlwaysUploadInv, PTL
=================================================================================
