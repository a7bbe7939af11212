------------------------- MODULE AdminAccounts_proofs -------------------------
(***************************************************************************)
(* What is deleted, replaced or invalidated stays so: the proof that the   *)
(* admin's accounts, as one worker and the store hold them, admit no       *)
(* session of a record that has ended, for any number of accounts,         *)
(* sessions and requests under way.                                        *)
(***************************************************************************)
EXTENDS AdminAccounts, TLAPS

Record == Account \union {NoAccount}
SessionRead == [token : Tokens, session : Session]
RecordHeld == [user : Admins, record : Account]

\* What requests carry with them at their stages.
Visiting == [at : {"login"}, worker : Workers, on : Session]
Checking == [at : {"read", "touched", "in"}, worker : Workers, on : SessionRead]
Handling == [at : {"editing", "deleting", "saving"}, worker : Workers, on : RecordHeld]
AnyRequest == {Idle} \union Visiting \union Checking \union Handling

Visits(r) == request[r].at = "login"
Checks(r) == request[r].at \in {"read", "touched", "in"}
Handles(r) == request[r].at \in {"editing", "deleting", "saving"}
Deletes(r) == request[r].at = "deleting"

AccountsShape ==
    /\ accounts \in [Workers -> [Admins -> Record]] /\ stored \in [Admins -> Record]
    /\ sessions \in [Tokens -> Session \union {NoSession}]
    /\ request \in [Requests -> AnyRequest]
    /\ minted \in 0..MaxMinted /\ failures \in 0..MaxFailures
    /\ voided \subseteq Ids \X (0..MaxMinted) /\ torn \subseteq Workers \X Admins
    /\ misfiled \in BOOLEAN /\ admitted \in BOOLEAN

\* The ids and versions there have been.
Used == Admins \union 1..minted
Known(x) == x.id \in Used /\ x.version \in 0..minted

\* What is in memory is what is stored, but for accounts whose deletion is under way
\* and those that a handler has left torn.
MemoryIsStored ==
    \A w \in Workers, u \in Admins :
        \/ accounts[w][u] = stored[u] \/ <<w, u>> \in torn
        \/ \E r \in Requests : Deletes(r) /\ request[r].on.user = u

\* The records of an account: two of them where memory and store are torn.
Holds(u, x) == x # NoAccount /\ (x = stored[u] \/ \E w \in Workers : x = accounts[w][u])

\* No two accounts share an id, nor does one with another that is being deleted.
Apart == \A u, v \in Admins, x, y \in Account : u # v /\ Holds(u, x) /\ Holds(v, y) => x.id # y.id
DeletedApart ==
    \A r \in Requests : Deletes(r) =>
        /\ Known(request[r].on.record)
        /\ \A v \in Admins, y \in Account :
               v # request[r].on.user /\ Holds(v, y) => y.id # request[r].on.record.id
AllCurrent == \A u \in Admins, x \in Account : Holds(u, x) => Known(x) /\ Keys(x) \notin voided
VoidedIsKnown == voided \subseteq Used \X (0..minted)

Filed == MemoryIsStored /\ Apart /\ DeletedApart /\ AllCurrent /\ VoidedIsKnown

\* No deletion begins or ends with the step.
DeletionsStay ==
    /\ request' \in [Requests -> AnyRequest]
    /\ \A q \in Requests : (Deletes(q)' <=> Deletes(q)) /\ (Deletes(q) => request'[q] = request[q])

\* The step writes this record to a worker's memory, and nothing else there.
Writes(w, u, record) ==
    /\ accounts' \in [Workers -> [Admins -> Record]] /\ accounts'[w][u] = record
    /\ \A v \in Admins \ {u} : accounts'[w][v] = accounts[w][v]

\* It voids the record that was in memory, or nothing.
VoidsAtMost(w, u) ==
    \A k \in voided' : k \in voided \/ (accounts[w][u] # NoAccount /\ k = Keys(accounts[w][u]))

OneWorker == \A v, w \in Workers : v = w

AccountsInv ==
    /\ AccountsShape
    /\ OneWorker /\ misfiled = FALSE => Filed /\ admitted = FALSE

-----------------------------------------------------------------------------
(* Records and requests *)

LEMMA NothingIsNoAccount ==
  NoAccount \notin Account /\ NoAccount.id = 0 /\ ~NoAccount.active /\ 0 \notin Ids
  <1>1. 0 \notin Ids
    BY AccountsAssumption DEF Ids
  <1>2. NoAccount.id = 0 /\ ~NoAccount.active
    BY DEF NoAccount
  <1>3. \A x \in Account : x.id \in Ids
    BY DEF Account
  <1>4. QED
    BY <1>1, <1>2, <1>3

LEMMA RecordParts ==
  ASSUME NEW x \in Account
  PROVE  /\ x \in Record /\ x # NoAccount
         /\ x.id \in Ids /\ x.id # 0 /\ x.version \in 0..MaxMinted
         /\ Keys(x) = <<x.id, x.version>> /\ Keys(x) \in Ids \X (0..MaxMinted)
  <1>1. x.id \in Ids /\ x.version \in 0..MaxMinted
    BY DEF Account
  <1>2. QED
    BY <1>1, NothingIsNoAccount DEF Record, Keys

LEMMA IdsFit ==
  ASSUME AccountsShape
  PROVE  /\ minted \in Nat /\ MaxMinted \in Nat /\ minted <= MaxMinted
         /\ Used \subseteq Ids
         /\ minted < MaxMinted =>
              minted + 1 \in Ids /\ minted + 1 \in 0..MaxMinted /\ minted + 1 \notin Used
  <1>1. minted \in Nat /\ MaxMinted \in Nat /\ minted <= MaxMinted
    BY AccountsAssumption DEF AccountsShape
  <1>2. \A n \in 1..minted : n \in 1..MaxMinted
    BY <1>1
  <1>3. Used \subseteq Ids
    BY <1>2 DEF Used, Ids
  <1>4. ASSUME minted < MaxMinted PROVE minted + 1 \in 1..MaxMinted /\ minted + 1 \in 0..MaxMinted
    BY <1>1, <1>4
  <1>5. minted < MaxMinted => minted + 1 \notin Used
    <2>1. minted + 1 \notin 1..minted
      BY <1>1
    <2>2. QED
      BY <1>4, <2>1, AccountsAssumption DEF Used
  <1>6. QED
    BY <1>1, <1>3, <1>4, <1>5 DEF Ids

LEMMA RequestParts ==
  ASSUME AccountsShape, NEW r \in Requests
  PROVE  /\ request[r] \in AnyRequest
         /\ Visits(r) => request[r].worker \in Workers /\ request[r].on \in Session
         /\ Checks(r) =>
              /\ request[r].worker \in Workers
              /\ request[r].on.token \in Tokens /\ request[r].on.session \in Session
         /\ Handles(r) =>
              /\ request[r].worker \in Workers
              /\ request[r].on.user \in Admins /\ request[r].on.record \in Account
         /\ Deletes(r) => Handles(r)
  <1>1. request[r] \in AnyRequest
    BY DEF AccountsShape
  <1>2. CASE request[r] = Idle
    BY <1>1, <1>2 DEF Idle, Visits, Checks, Handles, Deletes
  <1>3. CASE request[r] \in Visiting
    BY <1>1, <1>3 DEF Visiting, Visits, Checks, Handles, Deletes
  <1>4. CASE request[r] \in Checking
    BY <1>1, <1>4 DEF Checking, SessionRead, Visits, Checks, Handles, Deletes
  <1>5. CASE request[r] \in Handling
    BY <1>1, <1>5 DEF Handling, RecordHeld, Visits, Checks, Handles, Deletes
  <1>6. QED
    BY <1>1, <1>2, <1>3, <1>4, <1>5 DEF AnyRequest

LEMMA RequestGoes ==
  ASSUME AccountsShape, NEW r \in Requests, NEW state \in AnyRequest, Goes(r, state)
  PROVE  /\ request' \in [Requests -> AnyRequest] /\ request'[r] = state
         /\ \A q \in Requests \ {r} : request'[q] = request[q] /\ (Deletes(q)' <=> Deletes(q))
  BY DEF AccountsShape, Goes, Deletes

\* Steps that change no record, end no deletion and void nothing file nothing.
LEMMA OnlyRequests ==
  ASSUME Filed, UNCHANGED <<accounts, stored, minted, voided>>, torn \subseteq torn',
         \A q \in Requests : (Deletes(q)' <=> Deletes(q)) /\ (Deletes(q) => request'[q] = request[q])
  PROVE  Filed'
  <1>1. MemoryIsStored'
    BY DEF Filed, MemoryIsStored
  <1>2. \A u, x : Holds(u, x)' <=> Holds(u, x)
    BY DEF Holds
  <1>3. DeletedApart'
    BY <1>2 DEF Filed, DeletedApart, Known, Used
  <1>4. Apart'
    BY <1>2 DEF Filed, Apart
  <1>5. AllCurrent' /\ VoidedIsKnown'
    BY <1>2 DEF Filed, AllCurrent, VoidedIsKnown, Known, Used, Keys
  <1>6. QED
    BY <1>1, <1>3, <1>4, <1>5 DEF Filed

\* The record of an account is written to memory, and to the store or not: the one
\* there was, with what it allows changed or with a new version, or one with a new id.
\* If it is stored the account has no other record, and only then it voids one.
LEMMA RecordIsWritten ==
  ASSUME AccountsShape, OneWorker, Filed,
         NEW w \in Workers, NEW u \in Admins, NEW record \in Account,
         accounts'[w][u] = record,
         \A v \in Admins \ {u} : accounts'[w][v] = accounts[w][v] /\ stored'[v] = stored[v],
         \/ stored'[u] = record
         \/ /\ stored'[u] = stored[u] /\ voided' = voided
            /\ record = stored[u] \/ <<w, u>> \in torn',
         \A v \in Admins \ {u} : <<w, v>> \in torn => <<w, v>> \in torn',
         \A q \in Requests : (Deletes(q)' <=> Deletes(q)) /\ (Deletes(q) => request'[q] = request[q]),
         minted' = minted \/ minted' = minted + 1,
         \A k \in voided' : k \in voided \/ (accounts[w][u] # NoAccount /\ k = Keys(accounts[w][u])),
         Known(record)', Keys(record) \notin voided',
         record.id = accounts[w][u].id \/ record.id \notin Used
  PROVE  Filed'
  <1>1. minted \in Nat /\ Used \subseteq Used' /\ \A n \in 0..minted : n \in 0..minted'
    <2>1. minted \in Nat
      BY IdsFit
    <2>2. \A n \in 1..minted : n \in 1..minted'
      BY <2>1
    <2>3. \A n \in 0..minted : n \in 0..minted'
      BY <2>1
    <2>4. QED
      BY <2>1, <2>2, <2>3 DEF Used
  <1>2. \A x : Known(x) => x.id \in Used' /\ x.version \in 0..minted'
    BY <1>1 DEF Known
  <1>3. record # NoAccount /\ record.id # 0
    BY RecordParts
  <1>4. /\ accounts[w][u] \in Record /\ stored[u] \in Record
        /\ accounts[w][u] # NoAccount => accounts[w][u] \in Account /\ Holds(u, accounts[w][u])
    BY DEF AccountsShape, Record, Holds
  <1>5. record.id = accounts[w][u].id => accounts[w][u] # NoAccount
    BY <1>3, NothingIsNoAccount
  <1>6. ASSUME NEW v \in Admins, NEW x, Holds(v, x)'
        PROVE  \/ v = u /\ x = record
               \/ v = u /\ Holds(u, x) /\ voided' = voided
               \/ v # u /\ Holds(v, x)
    <2>1. x # NoAccount /\ (x = stored'[v] \/ x = accounts'[w][v])
      BY <1>6 DEF Holds, OneWorker
    <2>2. CASE v = u
      BY <2>1, <2>2 DEF Holds
    <2>3. CASE v # u
      BY <2>1, <2>3 DEF Holds
    <2>4. QED
      BY <2>2, <2>3
  <1>7. ASSUME NEW v \in Admins, v # u, NEW y \in Account, Holds(v, y)
        PROVE  y.id # record.id
    <2>1. y.id \in Used
      BY <1>7 DEF Filed, AllCurrent, Known
    <2>2. CASE record.id = accounts[w][u].id
      BY <1>4, <1>5, <1>7, <2>2 DEF Filed, Apart
    <2>3. QED
      BY <2>1, <2>2
  <1>8. MemoryIsStored'
    <2> SUFFICES ASSUME NEW x \in Workers, NEW v \in Admins
                 PROVE  \/ accounts'[x][v] = stored'[v] \/ <<x, v>> \in torn'
                        \/ \E r \in Requests : Deletes(r)' /\ request'[r].on.user = v
      BY DEF MemoryIsStored
    <2>1. x = w
      BY DEF OneWorker
    <2>2. CASE v = u
      BY <2>1, <2>2
    <2>3. CASE v # u
      BY <2>1, <2>3 DEF Filed, MemoryIsStored
    <2>4. QED
      BY <2>2, <2>3
  <1>9. Apart'
    <2> SUFFICES ASSUME NEW a \in Admins, NEW b \in Admins, NEW x \in Account, NEW y \in Account,
                        a # b, Holds(a, x)', Holds(b, y)'
                 PROVE  x.id # y.id
      BY DEF Apart
    <2>1. (a = u /\ x = record) \/ Holds(a, x)
      BY <1>6
    <2>2. (b = u /\ y = record) \/ Holds(b, y)
      BY <1>6
    <2>3. CASE a = u /\ x = record
      BY <1>7, <2>2, <2>3
    <2>4. CASE b = u /\ y = record
      BY <1>7, <2>1, <2>4
    <2>5. CASE Holds(a, x) /\ Holds(b, y)
      BY <2>5 DEF Filed, Apart
    <2>6. QED
      BY <2>1, <2>2, <2>3, <2>4, <2>5
  <1>10. DeletedApart'
    <2> SUFFICES ASSUME NEW r \in Requests, Deletes(r)
                 PROVE  /\ Known(request[r].on.record)'
                        /\ \A v \in Admins, y \in Account :
                             v # request[r].on.user /\ Holds(v, y)' => y.id # request[r].on.record.id
      BY DEF DeletedApart, Known
    <2>1. Known(request[r].on.record) /\ request'[r] = request[r]
      BY DEF Filed, DeletedApart
    <2>2. Known(request[r].on.record)'
      BY <1>2, <2>1 DEF Known
    <2>3. ASSUME u # request[r].on.user PROVE record.id # request[r].on.record.id
      <3>1. CASE record.id = accounts[w][u].id
        BY <1>4, <1>5, <2>3, <3>1 DEF Filed, DeletedApart
      <3>2. CASE record.id \notin Used
        BY <2>1, <3>2 DEF Known
      <3>3. QED
        BY <3>1, <3>2
    <2>4. ASSUME NEW v \in Admins, NEW y \in Account, v # request[r].on.user, Holds(v, y)'
          PROVE  y.id # request[r].on.record.id
      <3>1. (v = u /\ y = record) \/ Holds(v, y)
        BY <1>6, <2>4
      <3>2. Holds(v, y) => y.id # request[r].on.record.id
        BY <2>4 DEF Filed, DeletedApart
      <3>3. QED
        BY <2>3, <2>4, <3>1, <3>2
    <2>5. QED
      BY <2>2, <2>4
  <1>11. AllCurrent'
    <2> SUFFICES ASSUME NEW v \in Admins, NEW x \in Account, Holds(v, x)'
                 PROVE  Known(x)' /\ Keys(x) \notin voided'
      BY DEF AllCurrent, Keys
    <2>1. CASE x = record
      BY <2>1 DEF Known
    <2>2. CASE Holds(v, x)
      <3>1. Known(x) /\ Keys(x) \notin voided
        BY <2>2 DEF Filed, AllCurrent
      <3>2. CASE v # u /\ accounts[w][u] # NoAccount
        BY <1>2, <1>4, <2>2, <3>1, <3>2 DEF Filed, Apart, Known, Keys
      <3>3. CASE voided' = voided \/ accounts[w][u] = NoAccount
        BY <1>2, <3>1, <3>3 DEF Known
      <3>4. CASE x = record
        BY <2>1, <3>4
      <3>5. QED
        BY <1>6, <3>2, <3>3, <3>4
    <2>3. QED
      BY <1>6, <2>1, <2>2
  <1>12. VoidedIsKnown'
    <2>1. ASSUME accounts[w][u] # NoAccount PROVE Keys(accounts[w][u]) \in Used' \X (0..minted')
      <3>1. Known(accounts[w][u])
        BY <1>4, <2>1 DEF Filed, AllCurrent
      <3>2. QED
        BY <1>2, <3>1 DEF Keys
    <2>2. \A k \in voided : k \in Used' \X (0..minted')
      BY <1>1 DEF Filed, VoidedIsKnown
    <2>3. QED
      BY <2>1, <2>2 DEF VoidedIsKnown
  <1>13. QED
    BY <1>8, <1>9, <1>10, <1>11, <1>12 DEF Filed

-----------------------------------------------------------------------------
(* Requests *)

LEMMA InvParts ==
  ASSUME AccountsInv
  PROVE  /\ AccountsShape
         /\ accounts \in [Workers -> [Admins -> Record]] /\ stored \in [Admins -> Record]
         /\ sessions \in [Tokens -> Session \union {NoSession}]
         /\ request \in [Requests -> AnyRequest]
         /\ minted \in 0..MaxMinted /\ failures \in 0..MaxFailures
         /\ MaxMinted \in Nat /\ MaxFailures \in Nat
         /\ voided \subseteq Ids \X (0..MaxMinted) /\ torn \subseteq Workers \X Admins
         /\ misfiled \in BOOLEAN /\ admitted \in BOOLEAN
         /\ OneWorker /\ misfiled = FALSE => Filed /\ admitted = FALSE
  BY AccountsAssumption DEF AccountsInv, AccountsShape

LEMMA Stages ==
  /\ Idle \in AnyRequest /\ Idle.at # "deleting"
  /\ \A w \in Workers, s \in Session :
       At("login", w, s) \in AnyRequest /\ At("login", w, s).at # "deleting"
  /\ \A w \in Workers, c \in SessionRead :
       At("read", w, c) \in AnyRequest /\ At("read", w, c).at # "deleting"
  /\ \A w \in Workers, h \in RecordHeld :
       /\ At("editing", w, h) \in AnyRequest /\ At("editing", w, h).at # "deleting"
       /\ At("saving", w, h) \in AnyRequest /\ At("saving", w, h).at # "deleting"
       /\ At("deleting", w, h) \in AnyRequest /\ At("deleting", w, h).at = "deleting"
       /\ At("deleting", w, h).on = h
  <1>1. Idle \in AnyRequest /\ Idle.at # "deleting"
    BY DEF AnyRequest, Idle
  <1>2. ASSUME NEW w \in Workers, NEW s \in Session
        PROVE  At("login", w, s) \in Visiting /\ At("login", w, s).at # "deleting"
    BY DEF At, Visiting
  <1>3. ASSUME NEW w \in Workers, NEW c \in SessionRead
        PROVE  At("read", w, c) \in Checking /\ At("read", w, c).at # "deleting"
    BY DEF At, Checking
  <1>4. ASSUME NEW w \in Workers, NEW h \in RecordHeld
        PROVE  /\ At("editing", w, h) \in Handling /\ At("editing", w, h).at # "deleting"
               /\ At("saving", w, h) \in Handling /\ At("saving", w, h).at # "deleting"
               /\ At("deleting", w, h) \in Handling /\ At("deleting", w, h).at = "deleting"
               /\ At("deleting", w, h).on = h
    BY DEF At, Handling
  <1>5. QED
    BY <1>1, <1>2, <1>3, <1>4 DEF AnyRequest

LEMMA CheckGoesOn ==
  ASSUME AccountsShape, NEW r \in Requests, Checks(r), NEW at \in {"touched", "in"}
  PROVE  [request[r] EXCEPT !.at = at] \in AnyRequest /\ [request[r] EXCEPT !.at = at].at # "deleting"
  <1>1. request[r] \in Checking
    <2>1. request[r] \in AnyRequest
      BY RequestParts
    <2>2. request[r] # Idle /\ request[r] \notin Visiting /\ request[r] \notin Handling
      BY DEF Checks, Idle, Visiting, Handling
    <2>3. QED
      BY <2>1, <2>2 DEF AnyRequest
  <1>2. [request[r] EXCEPT !.at = at] \in Checking /\ [request[r] EXCEPT !.at = at].at = at
    BY <1>1 DEF Checking
  <1>3. QED
    BY <1>2 DEF AnyRequest

\* A session that is current lets in nobody who was voided.
LEMMA AdmitsRight ==
  ASSUME AccountsInv, NEW r \in Requests, Admits(r)
  PROVE  /\ Checks(r) /\ ~Deletes(r) /\ request[r].worker \in Workers /\ Actor(r) \in Admins
         /\ admitted' \in BOOLEAN
         /\ OneWorker /\ misfiled = FALSE => admitted' = FALSE
  <1>1. Checks(r) /\ ~Deletes(r)
    BY DEF Admits, Checks, Deletes
  <1>2. PICK w, s : w = request[r].worker /\ s = request[r].on.session
    OBVIOUS
  <1>3. w \in Workers /\ s \in Session /\ s.user \in Admins
    BY <1>1, <1>2, InvParts, RequestParts DEF Session
  <1>4. PICK x : x = accounts[w][s.user]
    OBVIOUS
  <1>5. x.active /\ x.id = s.id /\ x.version = s.version
    BY <1>2, <1>4 DEF Admits, IsCurrent
  <1>6. x # NoAccount
    BY <1>5, NothingIsNoAccount
  <1>7. ASSUME OneWorker, misfiled = FALSE PROVE Keys(s) \notin voided /\ admitted = FALSE
    <2>1. Filed /\ admitted = FALSE
      BY <1>7, InvParts
    <2>2. x \in Account /\ Holds(s.user, x)
      BY <1>3, <1>4, <1>6, InvParts DEF Holds, Record
    <2>3. Keys(x) \notin voided
      BY <1>3, <2>1, <2>2 DEF Filed, AllCurrent
    <2>4. QED
      BY <1>5, <2>1, <2>3 DEF Keys
  <1>8. admitted' = (admitted \/ Keys(s) \in voided)
    BY <1>2 DEF Admits
  <1>9. QED
    BY <1>1, <1>2, <1>3, <1>7, <1>8 DEF Actor

LEMMA RequestStepKeeps ==
  ASSUME AccountsInv, NEW r \in Requests, NEW state \in AnyRequest, Goes(r, state),
         ~Deletes(r), state.at # "deleting",
         UNCHANGED <<accounts, stored, minted, voided>>,
         failures' \in 0..MaxFailures, torn' \subseteq Workers \X Admins, torn \subseteq torn',
         misfiled' = misfiled,
         sessions' \in [Tokens -> Session \union {NoSession}], admitted' \in BOOLEAN,
         OneWorker /\ misfiled = FALSE => admitted' = FALSE
  PROVE  AccountsInv'
  <1>1. /\ request' \in [Requests -> AnyRequest] /\ request'[r] = state
        /\ \A q \in Requests \ {r} : request'[q] = request[q] /\ (Deletes(q)' <=> Deletes(q))
    BY InvParts, RequestGoes
  <1>2. ~Deletes(r)'
    BY <1>1 DEF Deletes
  <1>3. AccountsShape'
    BY <1>1, InvParts DEF AccountsShape
  <1>4. Filed => Filed'
    <2>1. \A q \in Requests : (Deletes(q)' <=> Deletes(q)) /\ (Deletes(q) => request'[q] = request[q])
      BY <1>1, <1>2
    <2>2. QED
      BY <2>1, OnlyRequests
  <1>5. QED
    BY <1>3, <1>4, InvParts DEF AccountsInv, OneWorker

LEMMA LoginKeeps ==
  ASSUME AccountsInv, NEW r \in Requests, NEW w \in Workers, NEW u \in Admins, Login(r, w, u)
  PROVE  AccountsInv'
  <1>1. PICK s : s = [user |-> u, id |-> accounts[w][u].id, version |-> accounts[w][u].version]
    OBVIOUS
  <1>2. accounts[w][u] \in Account
    BY InvParts, NothingIsNoAccount DEF Login, Record
  <1>3. s \in Session
    BY <1>1, <1>2, RecordParts DEF Session
  <1>4. Goes(r, At("login", w, s)) /\ ~Deletes(r)
    BY <1>1 DEF Login, Deletes, Idle
  <1>5. UNCHANGED <<accounts, stored, sessions, minted, failures, voided, misfiled, torn, admitted>>
    BY DEF Login, Stays
  <1>6. QED
    BY <1>3, <1>4, <1>5, Stages, InvParts, RequestStepKeeps

LEMMA CreateTokenKeeps ==
  ASSUME AccountsInv, NEW r \in Requests, NEW t \in Tokens, CreateToken(r, t)
  PROVE  AccountsInv'
  <1>1. Visits(r) /\ ~Deletes(r) /\ Goes(r, Idle)
    BY DEF CreateToken, Visits, Deletes
  <1>2. request[r].on \in Session
    BY <1>1, InvParts, RequestParts
  <1>3. sessions' \in [Tokens -> Session \union {NoSession}]
    BY <1>2, InvParts DEF CreateToken
  <1>4. UNCHANGED <<accounts, stored, minted, failures, voided, misfiled, torn, admitted>>
    BY DEF CreateToken, Stays
  <1>5. QED
    BY <1>1, <1>3, <1>4, Stages, InvParts, RequestStepKeeps

LEMMA ReadSessionKeeps ==
  ASSUME AccountsInv, NEW r \in Requests, NEW w \in Workers, NEW t \in Tokens, ReadSession(r, w, t)
  PROVE  AccountsInv'
  <1>1. PICK c : c = [token |-> t, session |-> sessions[t]]
    OBVIOUS
  <1>2. c \in SessionRead
    BY <1>1, InvParts DEF SessionRead, ReadSession
  <1>3. Goes(r, At("read", w, c)) /\ ~Deletes(r)
    BY <1>1 DEF ReadSession, Deletes, Idle
  <1>4. UNCHANGED <<accounts, stored, sessions, minted, failures, voided, misfiled, torn, admitted>>
    BY DEF ReadSession, Stays
  <1>5. QED
    BY <1>2, <1>3, <1>4, Stages, InvParts, RequestStepKeeps

LEMMA TouchSessionKeeps ==
  ASSUME AccountsInv, NEW r \in Requests, TouchSession(r)
  PROVE  AccountsInv'
  <1>1. Checks(r) /\ ~Deletes(r) /\ Goes(r, [request[r] EXCEPT !.at = "touched"])
    BY DEF TouchSession, Checks, Deletes
  <1>2. request[r].on.token \in Tokens /\ request[r].on.session \in Session
    BY <1>1, InvParts, RequestParts
  <1>3. sessions' \in [Tokens -> Session \union {NoSession}]
    BY <1>2, InvParts DEF TouchSession
  <1>4. UNCHANGED <<accounts, stored, minted, failures, voided, misfiled, torn, admitted>>
    BY DEF TouchSession, Stays
  <1>5. QED
    BY <1>1, <1>3, <1>4, CheckGoesOn, InvParts, RequestStepKeeps

LEMMA RefuseKeeps ==
  ASSUME AccountsInv, NEW r \in Requests, Refuse(r) \/ Leave(r)
  PROVE  AccountsInv'
  <1>1. ~Deletes(r) /\ Goes(r, Idle)
    BY DEF Refuse, Leave, Deletes
  <1>2. UNCHANGED <<accounts, stored, sessions, minted, failures, voided, misfiled, torn, admitted>>
    BY DEF Refuse, Leave, Stays
  <1>3. QED
    BY <1>1, <1>2, Stages, InvParts, RequestStepKeeps

LEMMA EnterKeeps ==
  ASSUME AccountsInv, NEW r \in Requests, Enter(r)
  PROVE  AccountsInv'
  <1>1. Goes(r, [request[r] EXCEPT !.at = "in"]) /\ Admits(r)
        /\ UNCHANGED <<accounts, stored, sessions, minted, failures, voided, misfiled, torn>>
    BY DEF Enter
  <1>2. QED
    BY <1>1, AdmitsRight, CheckGoesOn, InvParts, RequestStepKeeps

LEMMA EditUserKeeps ==
  ASSUME AccountsInv, NEW r \in Requests, NEW u \in Admins, EditUser(r, u)
  PROVE  AccountsInv'
  <1>1. Admits(r) /\ UNCHANGED <<accounts, stored, sessions, minted, failures, voided, misfiled, torn>>
    BY DEF EditUser
  <1>2. PICK w : w = request[r].worker
    OBVIOUS
  <1>3. PICK h : h = [user |-> u, record |-> accounts[w][u]]
    OBVIOUS
  <1>4. w \in Workers /\ h \in RecordHeld
    <2>1. w \in Workers
      BY <1>1, <1>2, AdmitsRight
    <2>2. accounts[w][u] \in Account
      BY <1>2, <2>1, InvParts DEF EditUser, Record
    <2>3. QED
      BY <1>3, <2>1, <2>2 DEF RecordHeld
  <1>5. Goes(r, At("editing", w, h))
    BY <1>2, <1>3 DEF EditUser
  <1>6. QED
    BY <1>1, <1>4, <1>5, AdmitsRight, Stages, InvParts, RequestStepKeeps

LEMMA ExpireKeeps ==
  ASSUME AccountsInv, NEW t \in Tokens, Expire(t)
  PROVE  AccountsInv'
  <1>1. sessions' \in [Tokens -> Session \union {NoSession}]
    BY InvParts DEF Expire
  <1>2. UNCHANGED <<accounts, stored, request, minted, failures, voided, misfiled, torn, admitted>>
    BY DEF Expire, Stays
  <1>3. AccountsShape'
    BY <1>1, <1>2, InvParts DEF AccountsShape
  <1>4. Filed => Filed'
    <2>1. \A q \in Requests : (Deletes(q)' <=> Deletes(q)) /\ (Deletes(q) => request'[q] = request[q])
      BY <1>2 DEF Deletes
    <2>2. QED
      BY <1>2, <2>1, OnlyRequests
  <1>5. QED
    BY <1>2, <1>3, <1>4, InvParts DEF AccountsInv, OneWorker

-----------------------------------------------------------------------------
(* Handlers that write *)

\* What is in a function of functions after one of its values is replaced.
LEMMA AccountsWith ==
  ASSUME AccountsShape, NEW w \in Workers, NEW u \in Admins, NEW record \in Record,
         accounts' = [accounts EXCEPT ![w][u] = record]
  PROVE  Writes(w, u, record)
  BY DEF AccountsShape, Writes

LEMMA StoredWith ==
  ASSUME AccountsShape, NEW u \in Admins, NEW record \in Record, stored' = [stored EXCEPT ![u] = record]
  PROVE  /\ stored' \in [Admins -> Record] /\ stored'[u] = record
         /\ \A v \in Admins \ {u} : stored'[v] = stored[v]
  BY DEF AccountsShape

LEMMA StoresIs ==
  ASSUME AccountsShape, NEW w \in Workers, NEW u \in Admins, NEW record \in Record, Stores(w, u, record)
  PROVE  /\ stored' \in [Admins -> Record] /\ stored'[u] = record
         /\ failures' \in 0..MaxFailures /\ torn' \subseteq Workers \X Admins
         /\ \A v \in Admins \ {u} : stored'[v] = stored[v] /\ (<<w, v>> \in torn => <<w, v>> \in torn')
  BY DEF Stores, AccountsShape

LEMMA NotStoredIs ==
  ASSUME AccountsShape, NEW w \in Workers, NEW u \in Admins, NotStored(w, u)
  PROVE  /\ stored' = stored /\ failures' \in 0..MaxFailures
         /\ torn' \subseteq Workers \X Admins /\ torn \subseteq torn'
         /\ accounts'[w][u] = stored[u] \/ <<w, u>> \in torn'
  <1>1. failures' \in 0..MaxFailures
    <2>1. failures \in 0..MaxFailures /\ MaxFailures \in Nat /\ failures < MaxFailures
          /\ failures' = failures + 1
      BY AccountsAssumption DEF NotStored, AccountsShape
    <2>2. QED
      BY <2>1
  <1>2. QED
    BY <1>1 DEF NotStored, AccountsShape

\* A record that keeps its id and version is as current as it was.
LEMMA SameKeys ==
  ASSUME AccountsShape, Filed, NEW w \in Workers, NEW u \in Admins, accounts[w][u] # NoAccount,
         NEW record, record.id = accounts[w][u].id, record.version = accounts[w][u].version
  PROVE  Known(record) /\ Keys(record) \notin voided
  <1>1. accounts[w][u] \in Account /\ Holds(u, accounts[w][u])
    BY DEF AccountsShape, Record, Holds
  <1>2. QED
    BY <1>1 DEF Filed, AllCurrent, Known, Keys

\* A handler that does not delete writes an account's record to memory and to the
\* store, or fails to store it.
LEMMA WriteKeeps ==
  ASSUME AccountsInv, NEW w \in Workers, NEW u \in Admins, NEW record \in Account,
         Writes(w, u, record), Stores(w, u, record) \/ (NotStored(w, u) /\ voided' = voided),
         DeletionsStay, VoidsAtMost(w, u),
         UNCHANGED <<sessions, admitted>>,
         misfiled' \in BOOLEAN, misfiled' = FALSE => misfiled = FALSE,
         minted' \in 0..MaxMinted, minted' = minted \/ minted' = minted + 1,
         Filed => Known(record)' /\ Keys(record) \notin voided',
         record.id = accounts[w][u].id \/ record.id \notin Used
  PROVE  AccountsInv'
  <1>1. AccountsShape /\ record \in Record
    BY InvParts, RecordParts
  <1>2. /\ stored' \in [Admins -> Record] /\ failures' \in 0..MaxFailures
        /\ torn' \subseteq Workers \X Admins
        /\ \/ stored'[u] = record
           \/ /\ stored'[u] = stored[u] /\ voided' = voided
              /\ record = stored[u] \/ <<w, u>> \in torn'
        /\ \A v \in Admins \ {u} : stored'[v] = stored[v] /\ (<<w, v>> \in torn => <<w, v>> \in torn')
    <2>1. CASE Stores(w, u, record)
      BY <1>1, <2>1, StoresIs
    <2>2. CASE NotStored(w, u) /\ voided' = voided
      BY <1>1, <2>2, NotStoredIs, InvParts DEF Writes
    <2>3. QED
      BY <2>1, <2>2
  <1>3. AccountsShape'
    <2>1. accounts[w][u] # NoAccount => Keys(accounts[w][u]) \in Ids \X (0..MaxMinted)
      BY InvParts, RecordParts DEF Record
    <2>2. voided' \subseteq Ids \X (0..MaxMinted)
      BY <2>1, InvParts DEF VoidsAtMost
    <2>3. QED
      BY <1>2, <2>2, InvParts DEF AccountsShape, Writes, DeletionsStay
  <1>4. ASSUME OneWorker, misfiled = FALSE PROVE Filed' /\ admitted' = FALSE
    <2>1. Filed /\ admitted' = FALSE
      BY <1>4, InvParts
    <2>2. /\ accounts'[w][u] = record
          /\ \A v \in Admins \ {u} : accounts'[w][v] = accounts[w][v] /\ stored'[v] = stored[v]
      BY <1>2 DEF Writes
    <2>3. Known(record)' /\ Keys(record) \notin voided'
      BY <2>1
    <2>4. Filed'
      BY <1>1, <1>2, <1>4, <2>1, <2>2, <2>3, RecordIsWritten DEF DeletionsStay, VoidsAtMost
    <2>5. QED
      BY <2>1, <2>4
  <1>5. QED
    BY <1>3, <1>4 DEF AccountsInv, OneWorker

\* Steps that misfile have to keep the types alone.
LEMMA MisfilingKeeps ==
  ASSUME AccountsInv, NEW w \in Workers, NEW u \in Admins, NEW record \in Account,
         accounts' \in [Workers -> [Admins -> Record]], Stores(w, u, record),
         DeletionsStay, VoidsAtMost(w, u), UNCHANGED <<sessions, admitted>>, misfiled' = TRUE,
         minted' \in 0..MaxMinted
  PROVE  AccountsInv'
  <1>1. /\ stored' \in [Admins -> Record] /\ failures' \in 0..MaxFailures
        /\ torn' \subseteq Workers \X Admins
    BY StoresIs, InvParts, RecordParts
  <1>2. accounts[w][u] # NoAccount => Keys(accounts[w][u]) \in Ids \X (0..MaxMinted)
    BY InvParts, RecordParts DEF Record
  <1>3. voided' \subseteq Ids \X (0..MaxMinted)
    BY <1>2, InvParts DEF VoidsAtMost
  <1>4. AccountsShape'
    BY <1>1, <1>3, InvParts DEF AccountsShape, DeletionsStay
  <1>5. QED
    BY <1>4 DEF AccountsInv

\* A new version for a record that has the account's id and version: it is typed, keeps
\* the id, and is not among what was voided, nor what is voided with this step.
LEMMA RenewedIs ==
  ASSUME AccountsInv, NEW w \in Workers, NEW u \in Admins, accounts[w][u] # NoAccount,
         NEW record \in Account, record.id = accounts[w][u].id, record.version = accounts[w][u].version,
         Renews(w, u, record), NEW new, new = Renewed(record)
  PROVE  /\ minted' = minted + 1 /\ minted' \in 0..MaxMinted
         /\ new \in Account /\ new.id = accounts[w][u].id
         /\ Writes(w, u, new)
         /\ Filed /\ voided' \subseteq voided \union {Keys(accounts[w][u])} =>
              Known(new)' /\ Keys(new) \notin voided'
  <1>1. /\ minted < MaxMinted /\ minted' = minted + 1
        /\ minted \in Nat /\ minted' \in 0..MaxMinted
    BY InvParts, IdsFit DEF Renews
  <1>2. new \in Account /\ new.id = record.id /\ new.version = minted + 1
    BY <1>1 DEF Renewed, Account
  <1>3. accounts' = [accounts EXCEPT ![w][u] = new]
    BY DEF Renews
  <1>4. Writes(w, u, new)
    BY <1>2, <1>3, AccountsWith, InvParts, RecordParts
  <1>5. ASSUME Filed, voided' \subseteq voided \union {Keys(accounts[w][u])}
        PROVE  Known(new)' /\ Keys(new) \notin voided'
    <2>1. Known(record)
      BY <1>5, InvParts, SameKeys
    <2>2. Known(new)'
      <3>1. new.id \in Used'
        <4>1. \A n \in 1..minted : n \in 1..minted'
          BY <1>1
        <4>2. QED
          BY <1>2, <2>1, <4>1 DEF Known, Used
      <3>2. minted + 1 \in 0..minted'
        BY <1>1
      <3>3. QED
        BY <1>2, <3>1, <3>2 DEF Known
    <2>3. new.version \notin 0..minted /\ record.version \in 0..minted
      BY <1>1, <1>2, <2>1 DEF Known
    <2>4. Keys(new) # Keys(accounts[w][u])
      BY <2>3 DEF Keys
    <2>5. Keys(new) \notin voided
      BY <1>5, <2>3 DEF Filed, VoidedIsKnown, Keys
    <2>6. QED
      BY <1>5, <2>2, <2>4, <2>5
  <1>6. QED
    BY <1>1, <1>2, <1>4, <1>5

\* Invalidating the sessions of an account, or failing to store it, whatever becomes of a
\* request that does not delete.
LEMMA InvalidatedKeeps ==
  ASSUME AccountsInv, NEW w \in Workers, NEW u \in Admins, accounts[w][u] # NoAccount,
         Invalidated(w, u) \/ NotInvalidated(w, u),
         DeletionsStay, UNCHANGED <<sessions, admitted, misfiled>>
  PROVE  /\ AccountsInv'
         /\ accounts'[w][u] \in Account
  <1>1. PICK old : old = accounts[w][u]
    OBVIOUS
  <1>2. old \in Account /\ Renews(w, u, old)
    BY <1>1, InvParts DEF Record, Invalidated, NotInvalidated
  <1>3. PICK new : new = Renewed(old)
    OBVIOUS
  <1>4. /\ minted' = minted + 1 /\ minted' \in 0..MaxMinted
        /\ new \in Account /\ new.id = accounts[w][u].id
        /\ Writes(w, u, new)
        /\ Filed /\ voided' \subseteq voided \union {Keys(accounts[w][u])} =>
             Known(new)' /\ Keys(new) \notin voided'
    BY <1>1, <1>2, <1>3, RenewedIs
  <1>5. \/ Stores(w, u, new) /\ voided' = voided \union {Keys(accounts[w][u])}
        \/ NotStored(w, u) /\ voided' = voided
    BY <1>4 DEF Invalidated, NotInvalidated, Void, Writes
  <1>6. AccountsInv'
    <2>1. misfiled' \in BOOLEAN /\ (misfiled' = FALSE => misfiled = FALSE)
      BY InvParts
    <2>2. VoidsAtMost(w, u)
      BY <1>5 DEF VoidsAtMost
    <2>3. Filed => Known(new)' /\ Keys(new) \notin voided'
      BY <1>4, <1>5
    <2>4. Stores(w, u, new) \/ (NotStored(w, u) /\ voided' = voided)
      BY <1>5
    <2>5. /\ UNCHANGED <<sessions, admitted>>
          /\ minted' = minted \/ minted' = minted + 1
          /\ new.id = accounts[w][u].id \/ new.id \notin Used
      BY <1>4
    <2>6. QED
      BY <1>4, <2>1, <2>2, <2>3, <2>4, <2>5, WriteKeeps
  <1>7. QED
    BY <1>4, <1>6 DEF Writes

LEMMA RequestEnds ==
  ASSUME AccountsInv, NEW r \in Requests, ~Deletes(r), NEW state \in AnyRequest, state.at # "deleting",
         Goes(r, state)
  PROVE  DeletionsStay
  <1>1. /\ request' \in [Requests -> AnyRequest] /\ request'[r] = state
        /\ \A q \in Requests \ {r} : request'[q] = request[q] /\ (Deletes(q)' <=> Deletes(q))
    BY InvParts, RequestGoes
  <1>2. ~Deletes(r)'
    BY <1>1 DEF Deletes
  <1>3. QED
    BY <1>1, <1>2 DEF DeletionsStay

LEMMA ResetPasswordKeeps ==
  ASSUME AccountsInv, NEW w \in Workers, NEW u \in Admins, ResetPassword(w, u)
  PROVE  AccountsInv'
  <1>1. /\ accounts[w][u] # NoAccount
        /\ Invalidated(w, u) \/ NotInvalidated(w, u)
        /\ UNCHANGED <<sessions, request, misfiled, admitted>>
    BY NothingIsNoAccount DEF ResetPassword
  <1>2. DeletionsStay
    BY <1>1, InvParts DEF Deletes, DeletionsStay
  <1>3. QED
    BY <1>1, <1>2, InvalidatedKeeps

LEMMA AddUserKeeps ==
  ASSUME AccountsInv, NEW r \in Requests, NEW u \in Admins, AddUser(r, u)
  PROVE  AccountsInv'
  <1>1. Checks(r) /\ ~Deletes(r) /\ Goes(r, Idle) /\ minted < MaxMinted /\ minted' = minted + 1
    BY DEF AddUser, Checks, Deletes
  <1>2. PICK w : w = request[r].worker
    OBVIOUS
  <1>3. w \in Workers
    BY <1>1, <1>2, InvParts, RequestParts
  <1>4. /\ minted \in Nat /\ minted' \in 0..MaxMinted /\ minted' \in Ids /\ minted' \notin Used
        /\ 0 \in 0..minted' /\ 0 \in 0..MaxMinted /\ \A n \in 1..minted : n \in 1..minted'
        /\ minted' \in 1..minted'
    BY <1>1, InvParts, IdsFit
  <1>5. PICK record : record = [id |-> minted', version |-> 0, active |-> TRUE]
    OBVIOUS
  <1>6. record \in Account /\ record.id = minted' /\ record.version = 0
    BY <1>4, <1>5 DEF Account
  <1>7. /\ accounts' = [accounts EXCEPT ![w][u] = record]
        /\ UNCHANGED <<sessions, misfiled, admitted>>
        /\ \/ Stores(w, u, record) /\ Void(w, u)
           \/ NotStored(w, u) /\ voided' = voided
    BY <1>2, <1>5 DEF AddUser
  <1>8. Writes(w, u, record)
    BY <1>3, <1>6, <1>7, AccountsWith, InvParts, RecordParts
  <1>9. DeletionsStay
    BY <1>1, Stages, RequestEnds
  <1>10. VoidsAtMost(w, u)
    BY <1>7 DEF Void, VoidsAtMost
  <1>11. ASSUME Filed PROVE Known(record)' /\ Keys(record) \notin voided'
    <2>1. Known(record)'
      BY <1>4, <1>6 DEF Known, Used
    <2>2. Keys(record) \notin voided
      BY <1>4, <1>6, <1>11 DEF Filed, VoidedIsKnown, Keys
    <2>3. accounts[w][u] # NoAccount => Keys(record) # Keys(accounts[w][u])
      <3>1. accounts[w][u] # NoAccount => accounts[w][u].id \in Used
        BY <1>3, <1>11, InvParts, SameKeys DEF Known
      <3>2. QED
        BY <1>4, <1>6, <3>1 DEF Keys
    <2>4. QED
      BY <1>10, <2>1, <2>2, <2>3 DEF VoidsAtMost
  <1>12. misfiled' \in BOOLEAN /\ (misfiled' = FALSE => misfiled = FALSE)
    BY <1>7, InvParts
  <1>13. Stores(w, u, record) \/ (NotStored(w, u) /\ voided' = voided)
    BY <1>7
  <1>14. UNCHANGED <<sessions, admitted>> /\ (minted' = minted \/ minted' = minted + 1)
    BY <1>1, <1>7
  <1>15. record.id = accounts[w][u].id \/ record.id \notin Used
    BY <1>4, <1>6
  <1>16. QED
    BY <1>3, <1>4, <1>6, <1>8, <1>9, <1>10, <1>11, <1>12, <1>13, <1>14, <1>15, WriteKeeps

LEMMA HeldIs ==
  ASSUME AccountsInv, NEW r \in Requests, Handles(r)
  PROVE  /\ request[r].worker \in Workers /\ request[r].on.user \in Admins
         /\ request[r].on.record \in Account /\ Held(r) \in Account
         /\ IsAccounts(r) => /\ accounts[request[r].worker][request[r].on.user] # NoAccount
                             /\ Held(r) = accounts[request[r].worker][request[r].on.user]
  <1>1. /\ request[r].worker \in Workers /\ request[r].on.user \in Admins
        /\ request[r].on.record \in Account
    BY InvParts, RequestParts
  <1>2. PICK current : current = accounts[request[r].worker][request[r].on.user]
    OBVIOUS
  <1>3. current \in Record
    BY <1>1, <1>2, InvParts
  <1>4. ASSUME current.id = request[r].on.record.id PROVE current # NoAccount /\ current \in Account
    BY <1>1, <1>3, <1>4, NothingIsNoAccount, RecordParts DEF Record
  <1>5. QED
    BY <1>1, <1>2, <1>4 DEF Held, IsAccounts

\* What a handler makes of the record it holds: the id and the version stay.
LEMMA EditedIs ==
  ASSUME AccountsInv, NEW r \in Requests, Handles(r), NEW active \in BOOLEAN
  PROVE  /\ Edited(r, active) \in Account
         /\ Edited(r, active).id = Held(r).id /\ Edited(r, active).version = Held(r).version
  BY HeldIs DEF Edited, Account

\* A handler that holds a record saves it as the account's, with nothing of its keys
\* changed, or fails to: or it is not the account's, and the step is one that misfiles.
LEMMA SavingKeeps ==
  ASSUME AccountsInv, NEW r \in Requests, Handles(r), ~Deletes(r), Goes(r, Idle),
         NEW w \in Workers, NEW u \in Admins, w = request[r].worker, u = request[r].on.user,
         NEW record \in Account, record.id = Held(r).id, record.version = Held(r).version,
         IF IsAccounts(r) THEN Writes(w, u, record) ELSE accounts' = accounts,
         \/ Stores(w, u, record) /\ misfiled' = (misfiled \/ ~IsAccounts(r))
         \/ NotStored(w, u) /\ misfiled' = misfiled,
         UNCHANGED <<sessions, minted, voided, admitted>>
  PROVE  AccountsInv'
  <1>1. DeletionsStay
    BY Stages, RequestEnds
  <1>2. VoidsAtMost(w, u) /\ minted' \in 0..MaxMinted
    BY InvParts DEF VoidsAtMost
  <1>3. misfiled \in BOOLEAN
    BY InvParts
  <1>4. CASE IsAccounts(r)
    <2>1. accounts[w][u] # NoAccount /\ record.id = accounts[w][u].id /\ record.version = accounts[w][u].version
      BY <1>4, HeldIs
    <2>2. Filed => Known(record)' /\ Keys(record) \notin voided'
      <3>1. Filed => Known(record) /\ Keys(record) \notin voided
        BY <2>1, InvParts, SameKeys
      <3>2. QED
        BY <3>1 DEF Known, Used
    <2>3. misfiled' \in BOOLEAN /\ (misfiled' = FALSE => misfiled = FALSE)
      BY <1>3, <1>4
    <2>4. /\ Writes(w, u, record) /\ UNCHANGED <<sessions, admitted>> /\ minted' = minted
          /\ Stores(w, u, record) \/ (NotStored(w, u) /\ voided' = voided)
      BY <1>4
    <2>5. QED
      BY <1>1, <1>2, <2>1, <2>2, <2>3, <2>4, WriteKeeps
  <1>5. CASE ~IsAccounts(r) /\ Stores(w, u, record) /\ misfiled' = (misfiled \/ ~IsAccounts(r))
    <2>1. misfiled' = TRUE /\ accounts' \in [Workers -> [Admins -> Record]]
      BY <1>3, <1>5, InvParts
    <2>2. QED
      BY <1>1, <1>2, <1>5, <2>1, MisfilingKeeps
  <1>6. CASE ~IsAccounts(r) /\ NotStored(w, u) /\ misfiled' = misfiled
    <2>1. stored' = stored /\ failures' \in 0..MaxFailures /\ torn' \subseteq Workers \X Admins /\ torn \subseteq torn'
      BY <1>6, InvParts, NotStoredIs
    <2>2. QED
      BY <1>6, <2>1, Stages, InvParts, RequestStepKeeps
  <1>7. QED
    BY <1>4, <1>5, <1>6

LEMMA SaveUserKeeps ==
  ASSUME AccountsInv, NEW r \in Requests, NEW active \in BOOLEAN, SaveUser(r, active) \/ RejectEdit(r, active)
  PROVE  AccountsInv'
  <1>1. Handles(r) /\ ~Deletes(r) /\ Goes(r, Idle) /\ EditsMemory(r, active)
        /\ UNCHANGED <<sessions, minted, voided, admitted>>
    BY DEF SaveUser, RejectEdit, EditsMemory, Handles, Deletes
  <1>2. PICK w, u : w = request[r].worker /\ u = request[r].on.user
    OBVIOUS
  <1>3. PICK record : record = Edited(r, active)
    OBVIOUS
  <1>4. /\ w \in Workers /\ u \in Admins
        /\ record \in Account /\ record.id = Held(r).id /\ record.version = Held(r).version
    BY <1>1, <1>2, <1>3, HeldIs, EditedIs
  <1>5. accounts' = IF IsAccounts(r) THEN [accounts EXCEPT ![w][u] = record] ELSE accounts
    BY <1>1, <1>2, <1>3 DEF EditsMemory
  <1>6. IF IsAccounts(r) THEN Writes(w, u, record) ELSE accounts' = accounts
    BY <1>4, <1>5, AccountsWith, InvParts, RecordParts
  <1>7. \/ Stores(w, u, record) /\ misfiled' = (misfiled \/ ~IsAccounts(r))
        \/ NotStored(w, u) /\ misfiled' = misfiled
    BY <1>2, <1>3 DEF SaveUser, RejectEdit
  <1>8. QED
    BY <1>1, <1>2, <1>4, <1>6, <1>7, SavingKeeps

LEMMA SaveProfileKeeps ==
  ASSUME AccountsInv, NEW r \in Requests, SaveProfile(r)
  PROVE  AccountsInv'
  <1>1. Handles(r) /\ ~Deletes(r) /\ Goes(r, Idle)
        /\ UNCHANGED <<accounts, sessions, minted, voided, admitted>>
    BY DEF SaveProfile, Handles, Deletes
  <1>2. PICK w, u : w = request[r].worker /\ u = request[r].on.user
    OBVIOUS
  <1>3. PICK record : record = Held(r)
    OBVIOUS
  <1>4. w \in Workers /\ u \in Admins /\ record \in Account
    BY <1>1, <1>2, <1>3, HeldIs
  <1>5. IF IsAccounts(r) THEN Writes(w, u, record) ELSE accounts' = accounts
    BY <1>1, <1>2, <1>3, HeldIs, InvParts DEF Writes
  <1>6. \/ Stores(w, u, record) /\ misfiled' = (misfiled \/ ~IsAccounts(r))
        \/ NotStored(w, u) /\ misfiled' = misfiled
    BY <1>2, <1>3 DEF SaveProfile
  <1>7. QED
    BY <1>1, <1>2, <1>3, <1>4, <1>5, <1>6, SavingKeeps

LEMMA SavePasswordKeeps ==
  ASSUME AccountsInv, NEW r \in Requests, NEW active \in BOOLEAN, SavePassword(r, active)
  PROVE  AccountsInv'
  <1>1. Handles(r) /\ ~Deletes(r) /\ Goes(r, Idle) /\ UNCHANGED <<sessions, admitted>>
    BY DEF SavePassword, Handles, Deletes
  <1>2. PICK w, u : w = request[r].worker /\ u = request[r].on.user
    OBVIOUS
  <1>3. /\ w \in Workers /\ u \in Admins
        /\ Edited(r, active) \in Account
        /\ Edited(r, active).id = Held(r).id /\ Edited(r, active).version = Held(r).version
        /\ IsAccounts(r) => Held(r) = accounts[w][u]
    BY <1>1, <1>2, HeldIs, EditedIs
  <1>4. PICK named : named = IF IsAccounts(r) THEN Edited(r, active) ELSE accounts[w][u]
    OBVIOUS
  <1>5. /\ accounts[w][u] # NoAccount
        /\ named \in Account /\ named.id = accounts[w][u].id /\ named.version = accounts[w][u].version
    <2>1. accounts[w][u] # NoAccount
      BY <1>2 DEF SavePassword
    <2>2. accounts[w][u] \in Account
      BY <1>3, <2>1, InvParts DEF Record
    <2>3. QED
      BY <1>3, <1>4, <2>1, <2>2
  <1>6. PICK new : new = Renewed(named)
    OBVIOUS
  <1>7. /\ Renews(w, u, named)
        /\ \/ /\ Stores(w, u, IF IsAccounts(r) THEN new ELSE Edited(r, active))
              /\ Void(w, u) /\ misfiled' = (misfiled \/ ~IsAccounts(r))
           \/ Stores(w, u, new) /\ Void(w, u) /\ misfiled' = misfiled
           \/ NotStored(w, u) /\ voided' = voided /\ misfiled' = misfiled
    BY <1>2, <1>4, <1>6 DEF SavePassword
  <1>8. /\ minted' = minted + 1 /\ minted' \in 0..MaxMinted
        /\ new \in Account /\ new.id = accounts[w][u].id /\ Writes(w, u, new)
        /\ Filed /\ voided' \subseteq voided \union {Keys(accounts[w][u])} =>
             Known(new)' /\ Keys(new) \notin voided'
    BY <1>3, <1>5, <1>6, <1>7, RenewedIs
  <1>9. DeletionsStay
    BY <1>1, Stages, RequestEnds
  <1>10. VoidsAtMost(w, u)
    BY <1>5, <1>7 DEF Void, VoidsAtMost
  <1>11. misfiled \in BOOLEAN
    BY InvParts
  <1>12. CASE /\ Stores(w, u, new) \/ (NotStored(w, u) /\ voided' = voided)
              /\ misfiled' = misfiled
    <2>1. Filed => Known(new)' /\ Keys(new) \notin voided'
      <3>1. voided' \subseteq voided \union {Keys(accounts[w][u])}
        BY <1>10 DEF VoidsAtMost
      <3>2. QED
        BY <1>8, <3>1
    <2>2. misfiled' \in BOOLEAN /\ (misfiled' = FALSE => misfiled = FALSE)
      BY <1>11, <1>12
    <2>3. /\ UNCHANGED <<sessions, admitted>>
          /\ minted' = minted \/ minted' = minted + 1
          /\ new.id = accounts[w][u].id \/ new.id \notin Used
      BY <1>1, <1>8
    <2>4. QED
      BY <1>3, <1>8, <1>9, <1>10, <1>12, <2>1, <2>2, <2>3, WriteKeeps
  <1>13. CASE Stores(w, u, Edited(r, active)) /\ ~IsAccounts(r) /\ misfiled' = TRUE
    <2>1. accounts' \in [Workers -> [Admins -> Record]]
      BY <1>8 DEF Writes
    <2>2. QED
      BY <1>1, <1>3, <1>8, <1>9, <1>10, <1>13, <2>1, MisfilingKeeps
  <1>14. QED
    BY <1>7, <1>11, <1>12, <1>13

LEMMA EditProfileKeeps ==
  ASSUME AccountsInv, NEW r \in Requests, NEW password \in BOOLEAN, EditProfile(r, password)
  PROVE  AccountsInv'
  <1>1. Checks(r) /\ ~Deletes(r) /\ UNCHANGED <<sessions, misfiled, admitted>>
    BY DEF EditProfile, Checks, Deletes
  <1>2. PICK w, u : w = request[r].worker /\ u = Actor(r)
    OBVIOUS
  <1>3. w \in Workers /\ u \in Admins /\ accounts[w][u] # NoAccount
    BY <1>1, <1>2, InvParts, RequestParts DEF EditProfile, Actor, Session
  <1>4. PICK h : h = [user |-> u, record |-> accounts'[w][u]]
    OBVIOUS
  <1>5. Goes(r, At("saving", w, h))
    BY <1>2, <1>4 DEF EditProfile
  <1>6. CASE password
    <2>1. Invalidated(w, u)
      BY <1>2, <1>6 DEF EditProfile
    <2>2. accounts'[w][u] \in Account
      <3>1. PICK old, new : old = accounts[w][u] /\ new = Renewed(old)
        OBVIOUS
      <3>2. old \in Account /\ Renews(w, u, old)
        BY <1>3, <2>1, <3>1, InvParts DEF Invalidated, Record
      <3>3. new \in Account /\ Writes(w, u, new)
        BY <1>3, <3>1, <3>2, RenewedIs
      <3>4. QED
        BY <3>3 DEF Writes
    <2>3. h \in RecordHeld
      BY <1>3, <1>4, <2>2 DEF RecordHeld
    <2>4. DeletionsStay
      BY <1>1, <1>3, <1>5, <2>3, Stages, RequestEnds
    <2>5. QED
      BY <1>1, <1>3, <2>1, <2>4, InvalidatedKeeps
  <1>7. CASE ~password
    <2>1. UNCHANGED <<accounts, stored, torn, failures, minted, voided>>
      BY <1>7 DEF EditProfile
    <2>2. h \in RecordHeld
      BY <1>3, <1>4, <2>1, InvParts DEF RecordHeld, Record
    <2>3. QED
      BY <1>1, <1>3, <1>5, <2>1, <2>2, Stages, InvParts, RequestStepKeeps
  <1>8. QED
    BY <1>6, <1>7

LEMMA FailProfileKeeps ==
  ASSUME AccountsInv, NEW r \in Requests, FailProfile(r)
  PROVE  AccountsInv'
  <1>1. Checks(r) /\ ~Deletes(r) /\ Goes(r, Idle) /\ UNCHANGED <<sessions, misfiled, admitted>>
    BY DEF FailProfile, Checks, Deletes
  <1>2. PICK w, u : w = request[r].worker /\ u = Actor(r)
    OBVIOUS
  <1>3. /\ w \in Workers /\ u \in Admins /\ accounts[w][u] # NoAccount
        /\ NotInvalidated(w, u)
    BY <1>1, <1>2, InvParts, RequestParts DEF FailProfile, Actor, Session
  <1>4. DeletionsStay
    BY <1>1, Stages, RequestEnds
  <1>5. QED
    BY <1>1, <1>3, <1>4, InvalidatedKeeps

-----------------------------------------------------------------------------
(* Deletions and restarts *)

\* With no record that was not there before, and no further deletion, nothing is voided
\* or shared that was not.
LEMMA FewerRecords ==
  ASSUME Filed, UNCHANGED <<minted, voided>>, \A v \in Admins : \A x : Holds(v, x)' => Holds(v, x)
  PROVE  /\ Apart' /\ AllCurrent' /\ VoidedIsKnown'
         /\ (\A q \in Requests : Deletes(q)' => Deletes(q) /\ request'[q] = request[q]) => DeletedApart'
  <1>1. Apart'
    BY DEF Filed, Apart
  <1>2. AllCurrent' /\ VoidedIsKnown'
    BY DEF Filed, AllCurrent, VoidedIsKnown, Known, Used, Keys
  <1>3. ASSUME \A q \in Requests : Deletes(q)' => Deletes(q) /\ request'[q] = request[q]
        PROVE  DeletedApart'
    BY <1>3 DEF Filed, DeletedApart, Known, Used
  <1>4. QED
    BY <1>1, <1>2, <1>3

LEMMA DeleteUserKeeps ==
  ASSUME AccountsInv, NEW r \in Requests, NEW u \in Admins, DeleteUser(r, u)
  PROVE  AccountsInv'
  <1>1. Admits(r) /\ UNCHANGED <<stored, sessions, minted, failures, voided, misfiled, torn>>
    BY DEF DeleteUser
  <1>2. PICK w : w = request[r].worker
    OBVIOUS
  <1>3. PICK h : h = [user |-> u, record |-> accounts[w][u]]
    OBVIOUS
  <1>4. /\ w \in Workers /\ accounts[w][u] # NoAccount /\ accounts[w][u] \in Account
        /\ accounts' = [accounts EXCEPT ![w][u] = NoAccount] /\ Goes(r, At("deleting", w, h))
    <2>1. w \in Workers
      BY <1>1, <1>2, AdmitsRight
    <2>2. accounts[w][u] # NoAccount /\ accounts' = [accounts EXCEPT ![w][u] = NoAccount]
      BY <1>2 DEF DeleteUser
    <2>3. Goes(r, At("deleting", w, h))
      BY <1>2, <1>3 DEF DeleteUser
    <2>4. QED
      BY <2>1, <2>2, <2>3, InvParts DEF Record
  <1>5. h \in RecordHeld /\ h.user = u /\ h.record = accounts[w][u]
    BY <1>3, <1>4 DEF RecordHeld
  <1>6. Writes(w, u, NoAccount)
    BY <1>4, AccountsWith, InvParts DEF Record
  <1>7. /\ request' \in [Requests -> AnyRequest] /\ request'[r] = At("deleting", w, h)
        /\ \A q \in Requests \ {r} : request'[q] = request[q] /\ (Deletes(q)' <=> Deletes(q))
    BY <1>4, <1>5, Stages, InvParts, RequestGoes
  <1>8. Deletes(r)' /\ ~Deletes(r) /\ request'[r].on = h
    <2>1. At("deleting", w, h).at = "deleting" /\ At("deleting", w, h).on = h
      BY <1>4, <1>5, Stages
    <2>2. Deletes(r)' /\ request'[r].on = h
      BY <1>7, <2>1 DEF Deletes
    <2>3. QED
      BY <1>1, <2>2, AdmitsRight
  <1>9. AccountsShape'
    BY <1>1, <1>6, <1>7, AdmitsRight, InvParts DEF AccountsShape, Writes
  <1>10. ASSUME OneWorker, misfiled = FALSE PROVE Filed' /\ admitted' = FALSE
    <2>1. Filed /\ admitted' = FALSE
      BY <1>1, <1>10, AdmitsRight, InvParts
    <2>2. ASSUME NEW v \in Admins, NEW x, Holds(v, x)' PROVE Holds(v, x)
      BY <1>1, <1>4, <1>6, <1>10, <2>2 DEF Holds, Writes, OneWorker
    <2>3. MemoryIsStored'
      <3> SUFFICES ASSUME NEW x \in Workers, NEW v \in Admins
                   PROVE  \/ accounts'[x][v] = stored'[v] \/ <<x, v>> \in torn'
                          \/ \E q \in Requests : Deletes(q)' /\ request'[q].on.user = v
        BY DEF MemoryIsStored
      <3>1. x = w
        BY <1>4, <1>10 DEF OneWorker
      <3>2. CASE v = u
        BY <1>5, <1>8, <3>2
      <3>3. CASE v # u
        BY <1>1, <1>6, <1>7, <1>8, <2>1, <3>1, <3>3 DEF Filed, MemoryIsStored, Writes
      <3>4. QED
        BY <3>2, <3>3
    <2>4. Apart' /\ AllCurrent' /\ VoidedIsKnown'
      BY <1>1, <2>1, <2>2, FewerRecords
    <2>5. DeletedApart'
      <3>1. Holds(u, h.record)
        BY <1>4, <1>5 DEF Holds
      <3>2. Known(h.record) /\ \A v \in Admins, y \in Account : v # u /\ Holds(v, y) => y.id # h.record.id
        BY <1>4, <1>5, <2>1, <3>1 DEF Filed, Apart, AllCurrent
      <3>3. \A q \in Requests \ {r} : Deletes(q)' => Deletes(q) /\ request'[q] = request[q]
        BY <1>7
      <3>4. QED
        BY <1>1, <1>5, <1>8, <2>1, <2>2, <3>2, <3>3 DEF Filed, DeletedApart, Known, Used
    <2>6. QED
      BY <2>1, <2>3, <2>4, <2>5 DEF Filed
  <1>11. QED
    BY <1>1, <1>9, <1>10 DEF AccountsInv, OneWorker

LEMMA FinishDeleteKeeps ==
  ASSUME AccountsInv, NEW r \in Requests, FinishDelete(r)
  PROVE  AccountsInv'
  <1>1. PICK w, gone : w = request[r].worker /\ gone = request[r].on
    OBVIOUS
  <1>2. /\ Deletes(r) /\ Goes(r, Idle) /\ Stores(w, gone.user, NoAccount)
        /\ voided' = voided \union {Keys(gone.record)}
        /\ misfiled' = (misfiled \/ accounts[w][gone.user] # NoAccount)
        /\ UNCHANGED <<accounts, minted, admitted>>
    BY <1>1 DEF FinishDelete, Deletes
  <1>3. w \in Workers /\ gone.user \in Admins /\ gone.record \in Account
    BY <1>1, <1>2, InvParts, RequestParts
  <1>4. /\ stored' \in [Admins -> Record] /\ stored'[gone.user] = NoAccount
        /\ failures' \in 0..MaxFailures /\ torn' \subseteq Workers \X Admins
        /\ \A v \in Admins \ {gone.user} : stored'[v] = stored[v] /\ (<<w, v>> \in torn => <<w, v>> \in torn')
    BY <1>2, <1>3, StoresIs, InvParts DEF Record
  <1>5. /\ request' \in [Requests -> AnyRequest] /\ request'[r] = Idle
        /\ \A q \in Requests \ {r} : request'[q] = request[q] /\ (Deletes(q)' <=> Deletes(q))
    BY <1>2, Stages, InvParts, RequestGoes
  <1>6. ~Deletes(r)'
    BY <1>5, Stages DEF Deletes
  <1>7. sessions' \in [Tokens -> Session \union {NoSession}]
    BY InvParts DEF FinishDelete, Revoked
  <1>8. Keys(gone.record) \in Ids \X (0..MaxMinted) /\ misfiled' \in BOOLEAN
    BY <1>2, <1>3, InvParts, RecordParts
  <1>9. AccountsShape'
    <2>1. voided' \subseteq Ids \X (0..MaxMinted)
      BY <1>2, <1>8, InvParts
    <2>2. QED
      BY <1>2, <1>4, <1>5, <1>7, <1>8, <2>1, InvParts DEF AccountsShape
  <1>10. ASSUME OneWorker, misfiled' = FALSE PROVE Filed' /\ admitted' = FALSE
    <2>1. /\ Filed /\ admitted' = FALSE
          /\ accounts[w][gone.user] = NoAccount
      BY <1>2, <1>10, InvParts
    <2>2. /\ Known(gone.record)
          /\ \A v \in Admins, y \in Account : v # gone.user /\ Holds(v, y) => y.id # gone.record.id
      BY <1>1, <1>2, <2>1 DEF Filed, DeletedApart
    <2>3. ASSUME NEW v \in Admins, NEW x, Holds(v, x)' PROVE v # gone.user /\ Holds(v, x)
      BY <1>2, <1>3, <1>4, <1>10, <2>1, <2>3 DEF Holds, OneWorker
    <2>4. MemoryIsStored'
      <3> SUFFICES ASSUME NEW x \in Workers, NEW v \in Admins
                   PROVE  \/ accounts'[x][v] = stored'[v] \/ <<x, v>> \in torn'
                          \/ \E q \in Requests : Deletes(q)' /\ request'[q].on.user = v
        BY DEF MemoryIsStored
      <3>1. x = w
        BY <1>3, <1>10 DEF OneWorker
      <3>2. CASE v = gone.user
        BY <1>2, <1>4, <2>1, <3>1, <3>2
      <3>3. CASE v # gone.user
        BY <1>1, <1>2, <1>4, <1>5, <2>1, <3>1, <3>3 DEF Filed, MemoryIsStored
      <3>4. QED
        BY <3>2, <3>3
    <2>5. Apart'
      BY <2>1, <2>3 DEF Filed, Apart
    <2>6. DeletedApart'
      BY <1>2, <1>5, <1>6, <2>1, <2>3 DEF Filed, DeletedApart, Known, Used
    <2>7. AllCurrent'
      <3> SUFFICES ASSUME NEW v \in Admins, NEW x \in Account, Holds(v, x)'
                   PROVE  Known(x)' /\ Keys(x) \notin voided'
        BY DEF AllCurrent, Keys
      <3>1. v # gone.user /\ Holds(v, x)
        BY <2>3
      <3>2. Known(x) /\ Keys(x) \notin voided /\ Keys(x) # Keys(gone.record)
        BY <2>1, <2>2, <3>1 DEF Filed, AllCurrent, Keys
      <3>3. QED
        BY <1>2, <3>2 DEF Known, Used
    <2>8. VoidedIsKnown'
      BY <1>2, <2>1, <2>2 DEF Filed, VoidedIsKnown, Known, Used, Keys
    <2>9. QED
      BY <2>1, <2>4, <2>5, <2>6, <2>7, <2>8 DEF Filed
  <1>11. QED
    BY <1>9, <1>10 DEF AccountsInv, OneWorker

LEMMA FailDeleteKeeps ==
  ASSUME AccountsInv, NEW r \in Requests, NEW tokens \in SUBSET Tokens, FailDelete(r, tokens)
  PROVE  AccountsInv'
  <1>1. PICK w, gone : w = request[r].worker /\ gone = request[r].on
    OBVIOUS
  <1>2. /\ Deletes(r) /\ Goes(r, Idle) /\ NotStored(w, gone.user)
        /\ UNCHANGED <<accounts, minted, voided, misfiled, admitted>>
    BY <1>1 DEF FailDelete, Deletes
  <1>3. w \in Workers /\ gone.user \in Admins
    BY <1>1, <1>2, InvParts, RequestParts
  <1>4. /\ stored' = stored /\ failures' \in 0..MaxFailures
        /\ torn' \subseteq Workers \X Admins /\ torn \subseteq torn'
        /\ accounts'[w][gone.user] = stored[gone.user] \/ <<w, gone.user>> \in torn'
    BY <1>2, <1>3, NotStoredIs, InvParts
  <1>5. /\ request' \in [Requests -> AnyRequest] /\ request'[r] = Idle
        /\ \A q \in Requests \ {r} : request'[q] = request[q] /\ (Deletes(q)' <=> Deletes(q))
    BY <1>2, Stages, InvParts, RequestGoes
  <1>6. ~Deletes(r)'
    BY <1>5, Stages DEF Deletes
  <1>7. sessions' \in [Tokens -> Session \union {NoSession}]
    BY InvParts DEF FailDelete, Revoked
  <1>8. AccountsShape'
    BY <1>2, <1>4, <1>5, <1>7, InvParts DEF AccountsShape
  <1>9. ASSUME OneWorker, Filed PROVE Filed'
    <2>1. \A v \in Admins : \A x : Holds(v, x)' => Holds(v, x)
      BY <1>2, <1>4 DEF Holds
    <2>2. \A q \in Requests : Deletes(q)' => Deletes(q) /\ request'[q] = request[q]
      BY <1>5, <1>6
    <2>3. Apart' /\ AllCurrent' /\ VoidedIsKnown' /\ DeletedApart'
      BY <1>2, <1>9, <2>1, <2>2, FewerRecords
    <2>4. MemoryIsStored'
      <3> SUFFICES ASSUME NEW x \in Workers, NEW v \in Admins
                   PROVE  \/ accounts'[x][v] = stored'[v] \/ <<x, v>> \in torn'
                          \/ \E q \in Requests : Deletes(q)' /\ request'[q].on.user = v
        BY DEF MemoryIsStored
      <3>1. x = w
        BY <1>3, <1>9 DEF OneWorker
      <3>2. CASE v = gone.user
        BY <1>4, <3>1, <3>2
      <3>3. CASE v # gone.user
        BY <1>1, <1>2, <1>4, <1>5, <1>9, <3>1, <3>3 DEF Filed, MemoryIsStored
      <3>4. QED
        BY <3>2, <3>3
    <2>5. QED
      BY <2>3, <2>4 DEF Filed
  <1>10. QED
    BY <1>2, <1>8, <1>9, InvParts DEF AccountsInv, OneWorker

LEMMA RestartKeeps ==
  ASSUME AccountsInv, NEW w \in Workers, Restart(w)
  PROVE  AccountsInv'
  <1>1. /\ accounts' = [accounts EXCEPT ![w] = stored] /\ torn' \subseteq torn
        /\ UNCHANGED <<stored, sessions, minted, failures, voided, misfiled, admitted>>
    BY DEF Restart
  <1>2. accounts' \in [Workers -> [Admins -> Record]] /\ accounts'[w] = stored
    BY <1>1, InvParts
  <1>3. request' \in [Requests -> AnyRequest]
    BY InvParts, Stages DEF Restart
  <1>4. AccountsShape'
    BY <1>1, <1>2, <1>3, InvParts DEF AccountsShape
  <1>5. ASSUME OneWorker, misfiled = FALSE PROVE Filed' /\ admitted' = FALSE
    <2>1. Filed /\ admitted' = FALSE
      BY <1>1, <1>5, InvParts
    <2>2. \A q \in Requests : ~Deletes(q)'
      <3> SUFFICES ASSUME NEW q \in Requests PROVE ~Deletes(q)'
        OBVIOUS
      <3>1. request'[q] = IF request[q].at # "idle" /\ request[q].worker = w THEN Idle ELSE request[q]
        BY DEF Restart
      <3>2. CASE Deletes(q)
        <4>1. request[q].at # "idle" /\ request[q].worker = w
          BY <1>5, <3>2, InvParts, RequestParts DEF OneWorker, Deletes
        <4>2. QED
          BY <3>1, <4>1, Stages DEF Deletes
      <3>3. CASE ~Deletes(q)
        BY <3>1, <3>3, Stages DEF Deletes
      <3>4. QED
        BY <3>2, <3>3
    <2>3. MemoryIsStored'
      BY <1>1, <1>2, <1>5 DEF MemoryIsStored, OneWorker
    <2>4. ASSUME NEW v \in Admins, NEW x, Holds(v, x)' PROVE Holds(v, x)
      BY <1>1, <1>2, <1>5, <2>4 DEF Holds, OneWorker
    <2>5. Apart' /\ AllCurrent' /\ VoidedIsKnown' /\ DeletedApart'
      BY <1>1, <2>1, <2>2, <2>4, FewerRecords
    <2>6. QED
      BY <2>1, <2>3, <2>5 DEF Filed
  <1>6. QED
    BY <1>1, <1>4, <1>5 DEF AccountsInv, OneWorker

LEMMA AccountsNextKeeps ==
  ASSUME AccountsInv, [AccountsNext]_accountVars
  PROVE  AccountsInv'
  <1>1. CASE UNCHANGED accountVars
    <2>1. AccountsShape' /\ (OneWorker <=> OneWorker')
      BY <1>1 DEF accountVars, AccountsInv, AccountsShape, OneWorker
    <2>2. Filed => Filed'
      BY <1>1, OnlyRequests DEF accountVars, Deletes
    <2>3. QED
      BY <1>1, <2>1, <2>2 DEF accountVars, AccountsInv
  <1>2. ASSUME NEW r \in Requests, NEW w \in Workers,
               (\E u \in Admins : Login(r, w, u)) \/ (\E t \in Tokens : ReadSession(r, w, t))
        PROVE  AccountsInv'
    BY <1>2, LoginKeeps, ReadSessionKeeps
  <1>3. ASSUME NEW r \in Requests,
               \/ \E t \in Tokens : CreateToken(r, t)
               \/ TouchSession(r) \/ Refuse(r) \/ Enter(r) \/ Leave(r)
        PROVE  AccountsInv'
    BY <1>3, CreateTokenKeeps, TouchSessionKeeps, RefuseKeeps, EnterKeeps
  <1>4. ASSUME NEW r \in Requests, NEW u \in Admins, AddUser(r, u) \/ DeleteUser(r, u) \/ EditUser(r, u)
        PROVE  AccountsInv'
    BY <1>4, AddUserKeeps, DeleteUserKeeps, EditUserKeeps
  <1>5. ASSUME NEW r \in Requests, FinishDelete(r) \/ \E tokens \in SUBSET Tokens : FailDelete(r, tokens)
        PROVE  AccountsInv'
    BY <1>5, FinishDeleteKeeps, FailDeleteKeeps
  <1>6. ASSUME NEW r \in Requests, NEW active \in BOOLEAN,
               SaveUser(r, active) \/ RejectEdit(r, active) \/ SavePassword(r, active)
        PROVE  AccountsInv'
    BY <1>6, SaveUserKeeps, SavePasswordKeeps
  <1>7. ASSUME NEW r \in Requests,
               \/ \E password \in BOOLEAN : EditProfile(r, password)
               \/ FailProfile(r) \/ SaveProfile(r)
        PROVE  AccountsInv'
    BY <1>7, EditProfileKeeps, FailProfileKeeps, SaveProfileKeeps
  <1>8. ASSUME NEW t \in Tokens, Logout(t)
        PROVE  AccountsInv'
    BY <1>8, ExpireKeeps DEF Logout
  <1>9. ASSUME NEW w \in Workers, (\E u \in Admins : ResetPassword(w, u)) \/ Restart(w)
        PROVE  AccountsInv'
    BY <1>9, ResetPasswordKeeps, RestartKeeps
  <1>10. QED
    BY <1>1, <1>2, <1>3, <1>4, <1>5, <1>6, <1>7, <1>8, <1>9 DEF AccountsNext

LEMMA AccountsStart ==
  ASSUME AccountsInit
  PROVE  AccountsInv
  <1>1. MaxMinted \in Nat /\ MaxFailures \in Nat /\ 0 \in 0..MaxMinted /\ 0 \in 0..MaxFailures
    BY AccountsAssumption
  <1>2. \A u \in Admins : [id |-> u, version |-> 0, active |-> TRUE] \in Account
    BY <1>1 DEF Account, Ids
  <1>3. /\ stored \in [Admins -> Account] /\ accounts \in [Workers -> [Admins -> Record]]
        /\ stored \in [Admins -> Record]
        /\ \A u \in Admins : stored[u].id = u /\ stored[u].version = 0
        /\ \A w \in Workers : accounts[w] = stored
    BY <1>2 DEF AccountsInit, Record
  <1>4. /\ request \in [Requests -> AnyRequest] /\ \A r \in Requests : ~Deletes(r)
    BY Stages DEF AccountsInit, Deletes
  <1>5. AccountsShape
    BY <1>1, <1>3, <1>4 DEF AccountsInit, AccountsShape
  <1>6. MemoryIsStored
    BY <1>3 DEF MemoryIsStored
  <1>7. \A u \in Admins : \A x : Holds(u, x) => x.id = u /\ x.version = 0
    BY <1>3 DEF Holds
  <1>8. Apart /\ DeletedApart
    BY <1>4, <1>7 DEF Apart, DeletedApart
  <1>9. AllCurrent /\ VoidedIsKnown
    <2>1. minted = 0 /\ voided = {}
      BY DEF AccountsInit
    <2>2. 0 \in 0..minted
      BY <2>1
    <2>3. QED
      BY <1>7, <2>1, <2>2 DEF AllCurrent, VoidedIsKnown, Known, Used
  <1>10. QED
    BY <1>5, <1>6, <1>8, <1>9 DEF AccountsInv, Filed, AccountsInit

LEMMA AlwaysAccountsInv == AccountsSpec => []AccountsInv
  <1>1. AccountsInit => AccountsInv
    BY AccountsStart
  <1>2. AccountsInv /\ [AccountsNext]_accountVars => AccountsInv'
    BY AccountsNextKeeps
  <1>3. QED
    BY <1>1, <1>2, PTL DEF AccountsSpec

\* The accounts in the memory of any number of workers and in the store, the sessions
\* and what requests hold have their types, misfiled records or not.
THEOREM AccountsTypeCorrect == AccountsSpec => []AccountsTypeOK
  <1>1. ASSUME AccountsInv PROVE AccountsTypeOK
    <2>1. \A r \in Requests :
            request[r].at \in {"idle", "login", "read", "touched", "in", "editing", "deleting", "saving"}
      <3> SUFFICES ASSUME NEW r \in Requests
                   PROVE  request[r].at \in
                            {"idle", "login", "read", "touched", "in", "editing", "deleting", "saving"}
        OBVIOUS
      <3>1. request[r] \in AnyRequest
        BY <1>1, InvParts
      <3>2. QED
        BY <3>1 DEF AnyRequest, Idle, Visiting, Checking, Handling
    <2>2. QED
      BY <1>1, <2>1, InvParts DEF AccountsTypeOK, Record
  <1>2. QED
    BY <1>1, AlwaysAccountsInv, PTL

\* RevocationHolds for any number of accounts, sessions and requests, and of handlers that
\* end with an error half way, where one worker serves: unless a handler of the user API or
\* the profile form has saved a record that was no longer the account's, no session of an
\* account whose deletion, replacement or invalidation was confirmed lets anyone in, before
\* a restart or after it; and a restart reads what the worker has in memory, but for
\* accounts whose deletion is under way or whose last change was answered with an error.
THEOREM RevocationStays ==
  ASSUME OneWorker
  PROVE  AccountsSpec => []RevocationHolds
  <1>1. ASSUME AccountsInv PROVE RevocationHolds
    <2>1. ASSUME ~misfiled PROVE Filed /\ admitted = FALSE
      BY <1>1, <2>1, InvParts
    <2>2. VoidedIsRefused
      BY <2>1 DEF VoidedIsRefused
    <2>3. RestartChangesNothing
      BY <2>1 DEF RestartChangesNothing, Filed, MemoryIsStored, Deletes
    <2>4. QED
      BY <2>2, <2>3 DEF RevocationHolds
  <1>2. QED
    BY <1>1, AlwaysAccountsInv, PTL
===============================================================================
