--------------------------- MODULE AdminAccounts ----------------------------
(***************************************************************************)
(* Accounts of the admin and the sessions opened with them: AdminAuth,     *)
(* the session backends (admin/services.py) and the handlers that change   *)
(* accounts (admin/dashboard.py).                                          *)
(*                                                                         *)
(* Each worker process keeps the accounts in memory, read from the store   *)
(* when it starts; changes are written through to the store, which no      *)
(* running worker reads again.  Sessions are in a backend that the workers *)
(* share.  A request runs from one await to the next: reading its session  *)
(* and writing it back with a new last_seen are two accesses, and handlers *)
(* keep a reference to an account's record while they wait for the body.   *)
(***************************************************************************)
EXTENDS Integers, FiniteSets

CONSTANTS Workers,     \* the processes that serve requests
          Admins,      \* user names
          Managers,    \* those with admin.manage_users
          Tokens,      \* session tokens
          Requests,    \* requests under way at a time
          MaxMinted,   \* bound: ids and session versions drawn
          MaxFailures  \* bound: handlers that end with an error

ASSUME AccountsAssumption ==
    /\ IsFiniteSet(Admins) /\ Managers \subseteq Admins /\ IsFiniteSet(Tokens)
    /\ MaxMinted \in Nat /\ MaxFailures \in Nat
    /\ Admins \intersect (0..MaxMinted) = {} \* a name is no number

VARIABLES
    accounts, \* per worker and name, the record in memory
    stored,   \* the records in the store
    sessions, \* the backend's sessions
    request,
    minted,   \* random ids and versions drawn so far: never twice the same
    failures,
    voided,   \* history: what sessions of deleted or invalidated records hold
    misfiled, \* history: a handler wrote to the store about a record that is not
              \* the account's any more
    torn,     \* history: per worker, the names whose change a handler that ended with
              \* an error left in memory only
    admitted  \* history: a request was let in with a voided session

accountVars == <<accounts, stored, sessions, request, minted, failures,
                 voided, misfiled, torn, admitted>>

\* The accounts of the configuration are numbered by their names.
Ids == Admins \union 1..MaxMinted
Account == [id : Ids, version : 0..MaxMinted, active : BOOLEAN]
NoAccount == [id |-> 0, version |-> 0, active |-> FALSE]
Session == [user : Admins, id : Ids, version : 0..MaxMinted]
NoSession == [user |-> "nobody"]

\* `record` is the account's record that a handler holds on to.
Idle == [at |-> "idle"]
At(stage, w, fields) == [at |-> stage, worker |-> w, on |-> fields]

AccountsTypeOK ==
    /\ accounts \in [Workers -> [Admins -> Account \union {NoAccount}]]
    /\ stored \in [Admins -> Account \union {NoAccount}]
    /\ sessions \in [Tokens -> Session \union {NoSession}]
    /\ \A r \in Requests : request[r].at \in
          {"idle", "login", "read", "touched", "in", "editing", "deleting", "saving"}
    /\ minted \in 0..MaxMinted /\ failures \in 0..MaxFailures
    /\ voided \subseteq Ids \X (0..MaxMinted)
    /\ misfiled \in BOOLEAN /\ torn \subseteq Workers \X Admins /\ admitted \in BOOLEAN

\* The accounts of the configuration, before anything was stored.
AccountsInit ==
    /\ stored = [u \in Admins |-> [id |-> u, version |-> 0, active |-> TRUE]]
    /\ accounts = [w \in Workers |-> stored]
    /\ sessions = [t \in Tokens |-> NoSession]
    /\ request = [r \in Requests |-> Idle]
    /\ minted = 0 /\ failures = 0
    /\ voided = {} /\ misfiled = FALSE /\ torn = {} /\ admitted = FALSE

Goes(r, state) == request' = [request EXCEPT ![r] = state]
Stays == UNCHANGED <<minted, failures, voided, misfiled, torn, admitted>>
Keys(s) == <<s.id, s.version>>

-----------------------------------------------------------------------------
(* Sessions *)

\* login(): the password and the second factor were right; the version goes
\* into the session before the backend is asked to store it.
Login(r, w, u) ==
    /\ request[r] = Idle /\ accounts[w][u].active
    /\ Goes(r, At("login", w, [user |-> u, id |-> accounts[w][u].id,
                               version |-> accounts[w][u].version]))
    /\ UNCHANGED <<accounts, stored, sessions>> /\ Stays

CreateToken(r, t) ==
    /\ request[r].at = "login" /\ sessions[t] = NoSession
    /\ sessions' = [sessions EXCEPT ![t] = request[r].on]
    /\ Goes(r, Idle)
    /\ UNCHANGED <<accounts, stored>> /\ Stays

\* validate_token() reads the session ...
ReadSession(r, w, t) ==
    /\ request[r] = Idle /\ sessions[t] # NoSession
    /\ Goes(r, At("read", w, [token |-> t, session |-> sessions[t]]))
    /\ UNCHANGED <<accounts, stored, sessions>> /\ Stays

\* ... and writes it back, whatever happened to it in between.
TouchSession(r) ==
    /\ request[r].at = "read"
    /\ sessions' = [sessions EXCEPT ![request[r].on.token] = request[r].on.session]
    /\ Goes(r, [request[r] EXCEPT !.at = "touched"])
    /\ UNCHANGED <<accounts, stored>> /\ Stays

\* The session expires or is idle for too long.
Expire(t) ==
    /\ sessions[t] # NoSession
    /\ sessions' = [sessions EXCEPT ![t] = NoSession]
    /\ UNCHANGED <<accounts, stored, request>> /\ Stays

\* Mutant of IsCurrent: only the name and the id are compared.
HasAccount(w, session) ==
    LET record == accounts[w][session.user] IN record.active /\ record.id = session.id

\* current_user(): the session's record is there, active, the same, and no
\* session of it was invalidated since.
IsCurrent(w, session) ==
    LET record == accounts[w][session.user]
    IN  record.active /\ record.id = session.id /\ record.version = session.version

Refuse(r) ==
    /\ request[r].at = "touched"
    /\ ~IsCurrent(request[r].worker, request[r].on.session)
    /\ Goes(r, Idle)
    /\ UNCHANGED <<accounts, stored, sessions>> /\ Stays

\* The request is let in, and its handler runs up to its first await.
Admits(r) ==
    /\ request[r].at = "touched"
    /\ IsCurrent(request[r].worker, request[r].on.session)
    /\ admitted' = (admitted \/ Keys(request[r].on.session) \in voided)

Actor(r) == request[r].on.session.user

-----------------------------------------------------------------------------
(* Handlers *)

Void(w, u) ==
    voided' = voided \union (IF accounts[w][u] = NoAccount THEN {} ELSE {Keys(accounts[w][u])})

\* store.set() and store.delete(), from a handler that runs to its end ...
Stores(w, u, record) ==
    /\ stored' = [stored EXCEPT ![u] = record]
    /\ torn' = torn \ {<<w, u>>}
    /\ UNCHANGED failures

\* ... or one that ends with an error, in the store or before it gets there: the
\* caller is told so, and what it has changed in memory by then stays there.
NotStored(w, u) ==
    /\ UNCHANGED stored
    /\ torn' = IF accounts'[w][u] = stored[u] THEN torn ELSE torn \union {<<w, u>>}
    /\ failures < MaxFailures /\ failures' = failures + 1

\* A handler that waits for the body before it looks at any account.
Enter(r) ==
    /\ Admits(r)
    /\ Goes(r, [request[r] EXCEPT !.at = "in"])
    /\ UNCHANGED <<accounts, stored, sessions, minted, voided, misfiled, torn, failures>>

\* The body does not come, or is refused before any account is changed.
Leave(r) ==
    /\ request[r].at \in {"in", "editing"}
    /\ Goes(r, Idle)
    /\ UNCHANGED <<accounts, stored, sessions>> /\ Stays

\* users_view: add_user() replaces an account of the same name.
AddUser(r, u) ==
    LET w == request[r].worker
        record == [id |-> minted', version |-> 0, active |-> TRUE]
    IN  /\ request[r].at = "in" /\ Actor(r) \in Managers /\ minted < MaxMinted
        /\ minted' = minted + 1
        /\ accounts' = [accounts EXCEPT ![w][u] = record]
        /\ \/ Stores(w, u, record) /\ Void(w, u)
           \/ NotStored(w, u) /\ UNCHANGED voided
        /\ Goes(r, Idle)
        /\ UNCHANGED <<sessions, misfiled, admitted>>

\* user_api, DELETE: the record goes at once ...
DeleteUser(r, u) ==
    LET w == request[r].worker
    IN  /\ Admits(r) /\ Actor(r) \in Managers \ {u} /\ accounts[w][u] # NoAccount
        /\ accounts' = [accounts EXCEPT ![w][u] = NoAccount]
        /\ Goes(r, At("deleting", w, [user |-> u, record |-> accounts[w][u]]))
        /\ UNCHANGED <<stored, sessions, minted, voided, misfiled, torn, failures>>

\* revoke_all(): the sessions of that id among these.
Revoked(id, tokens) == [t \in Tokens |->
    IF t \in tokens /\ sessions[t] # NoSession /\ sessions[t].id = id THEN NoSession
    ELSE sessions[t]]

\* ... and when the backend has revoked its sessions, the store's copy.
FinishDelete(r) ==
    LET gone == request[r].on
    IN  /\ request[r].at = "deleting"
        /\ sessions' = Revoked(gone.record.id, Tokens)
        /\ Stores(request[r].worker, gone.user, NoAccount)
        /\ voided' = voided \union {Keys(gone.record)}
        /\ misfiled' = (misfiled \/ accounts[request[r].worker][gone.user] # NoAccount)
        /\ Goes(r, Idle)
        /\ UNCHANGED <<accounts, minted, admitted>>

\* The backend fails, or the request is cancelled while it revokes one session after
\* another; or the store fails after it.
FailDelete(r, tokens) ==
    LET gone == request[r].on
    IN  /\ request[r].at = "deleting"
        /\ sessions' = Revoked(gone.record.id, tokens)
        /\ UNCHANGED accounts
        /\ NotStored(request[r].worker, gone.user)
        /\ Goes(r, Idle)
        /\ UNCHANGED <<minted, voided, misfiled, admitted>>

\* user_api, PATCH: the record is looked up before the body is read.
EditUser(r, u) ==
    LET w == request[r].worker
    IN  /\ Admits(r) /\ Actor(r) \in Managers /\ accounts[w][u] # NoAccount
        /\ Goes(r, At("editing", w, [user |-> u, record |-> accounts[w][u]]))
        /\ UNCHANGED <<accounts, stored, sessions, minted, voided, misfiled, torn, failures>>

\* A handler's reference: the account's record, or one that was replaced.
Held(r) ==
    LET current == accounts[request[r].worker][request[r].on.user]
    IN  IF current.id = request[r].on.record.id THEN current ELSE request[r].on.record

IsAccounts(r) == accounts[request[r].worker][request[r].on.user].id = request[r].on.record.id

\* The body's fields go into the record one by one ...
Edited(r, active) == [Held(r) EXCEPT !.active = active]

EditsMemory(r, active) ==
    /\ request[r].at = "editing"
    /\ accounts' = IF IsAccounts(r)
                   THEN [accounts EXCEPT ![request[r].worker][request[r].on.user] = Edited(r, active)]
                   ELSE accounts

\* ... and without a new password the record is stored.
SaveUser(r, active) ==
    LET w == request[r].worker  u == request[r].on.user
    IN  /\ EditsMemory(r, active)
        /\ Stores(w, u, Edited(r, active))
        /\ misfiled' = (misfiled \/ ~IsAccounts(r))
        /\ Goes(r, Idle)
        /\ UNCHANGED <<sessions, minted, voided, admitted>>

\* The new password is looked at last: if it is too weak the request is answered with
\* an error, as it is when the store fails, and the other changes stay in memory.
RejectEdit(r, active) ==
    /\ EditsMemory(r, active)
    /\ NotStored(request[r].worker, request[r].on.user)
    /\ Goes(r, Idle)
    /\ UNCHANGED <<sessions, minted, voided, misfiled, admitted>>

\* invalidate_user_sessions(): a new version, in memory and in the store.
Renewed(record) == [record EXCEPT !.version = minted']

Renews(w, u, record) ==
    /\ minted < MaxMinted /\ minted' = minted + 1
    /\ accounts' = [accounts EXCEPT ![w][u] = Renewed(record)]

Invalidated(w, u) ==
    /\ Renews(w, u, accounts[w][u])
    /\ Stores(w, u, accounts'[w][u])
    /\ Void(w, u)

NotInvalidated(w, u) ==
    /\ Renews(w, u, accounts[w][u])
    /\ NotStored(w, u)
    /\ UNCHANGED voided

\* With a new password the account of that name is invalidated, which raises if there
\* is none (Leave: the record is nobody's); then the record the handler holds is stored.
SavePassword(r, active) ==
    LET w == request[r].worker  u == request[r].on.user
        named == IF IsAccounts(r) THEN Edited(r, active) ELSE accounts[w][u]
    IN  /\ request[r].at = "editing" /\ accounts[w][u] # NoAccount
        /\ Renews(w, u, named)
        /\ \/ /\ Stores(w, u, IF IsAccounts(r) THEN Renewed(named) ELSE Edited(r, active))
              /\ Void(w, u)
              /\ misfiled' = (misfiled \/ ~IsAccounts(r))
           \/ /\ Stores(w, u, Renewed(named)) \* only the second store fails
              /\ Void(w, u) /\ UNCHANGED misfiled
           \/ NotStored(w, u) /\ UNCHANGED <<voided, misfiled>>
        /\ Goes(r, Idle)
        /\ UNCHANGED <<sessions, admitted>>

\* profile: the user's own record, with a new password or without, is stored
\* when the limiter of the MFA form and the mail sender have answered.
EditProfile(r, password) ==
    LET w == request[r].worker  u == Actor(r)
    IN  /\ request[r].at = "in" /\ accounts[w][u] # NoAccount
        /\ IF password THEN Invalidated(w, u)
           ELSE UNCHANGED <<accounts, stored, torn, failures, minted, voided>>
        /\ Goes(r, At("saving", w, [user |-> u, record |-> accounts'[w][u]]))
        /\ UNCHANGED <<sessions, misfiled, admitted>>

FailProfile(r) ==
    /\ request[r].at = "in" /\ accounts[request[r].worker][Actor(r)] # NoAccount
    /\ NotInvalidated(request[r].worker, Actor(r))
    /\ Goes(r, Idle)
    /\ UNCHANGED <<sessions, misfiled, admitted>>

\* The limiter, the sender or the store may fail instead.
SaveProfile(r) ==
    LET w == request[r].worker  u == request[r].on.user
    IN  /\ request[r].at = "saving"
        /\ UNCHANGED accounts
        /\ \/ Stores(w, u, Held(r)) /\ misfiled' = (misfiled \/ ~IsAccounts(r))
           \/ NotStored(w, u) /\ UNCHANGED misfiled
        /\ Goes(r, Idle)
        /\ UNCHANGED <<sessions, minted, voided, admitted>>

\* logout needs no more than the token.
Logout(t) == Expire(t)

\* reset_password() with a token sent to the user.
ResetPassword(w, u) ==
    /\ accounts[w][u].active
    /\ Invalidated(w, u) \/ NotInvalidated(w, u)
    /\ UNCHANGED <<sessions, request, misfiled, admitted>>

\* A worker stops and starts: its requests are lost, its accounts are read again.
Restart(w) ==
    /\ accounts' = [accounts EXCEPT ![w] = stored]
    /\ torn' = {pair \in torn : pair[1] # w}
    /\ request' = [r \in Requests |->
          IF request[r].at # "idle" /\ request[r].worker = w THEN Idle ELSE request[r]]
    /\ UNCHANGED <<stored, sessions, minted, failures, voided, misfiled, admitted>>

-----------------------------------------------------------------------------
AccountsNext ==
    \/ \E r \in Requests, w \in Workers :
          \/ \E u \in Admins : Login(r, w, u)
          \/ \E t \in Tokens : ReadSession(r, w, t)
    \/ \E r \in Requests :
          \/ \E t \in Tokens : CreateToken(r, t)
          \/ TouchSession(r) \/ Refuse(r) \/ Enter(r) \/ Leave(r)
          \/ \E u \in Admins : AddUser(r, u) \/ DeleteUser(r, u) \/ EditUser(r, u)
          \/ FinishDelete(r) \/ \E tokens \in SUBSET Tokens : FailDelete(r, tokens)
          \/ \E active \in BOOLEAN :
                SaveUser(r, active) \/ RejectEdit(r, active) \/ SavePassword(r, active)
          \/ \E password \in BOOLEAN : EditProfile(r, password)
          \/ FailProfile(r) \/ SaveProfile(r)
    \/ \E t \in Tokens : Logout(t)
    \/ \E w \in Workers, u \in Admins : ResetPassword(w, u)
    \/ \E w \in Workers : Restart(w)

AccountsSpec == AccountsInit /\ [][AccountsNext]_accountVars

-----------------------------------------------------------------------------
\* A session of an account whose deletion, replacement or invalidation was confirmed
\* lets nobody in, though the backend may still hold it, or hold it again: not through
\* requests that read it before, not by logins that were under way, not after a
\* restart, not after other handlers failed half way, unless a handler has saved a
\* record that was no longer the account's.
VoidedIsRefused == ~misfiled => ~admitted

\* What a worker has in memory is what a restart would read, whatever handlers did to
\* the account at the same time: an account that was deleted, or replaced, does not
\* come back, and an invalidation is kept.  The exceptions are an account whose deletion
\* is under way and one whose last change was answered with an error.
RestartChangesNothing ==
    Cardinality(Workers) = 1 /\ ~misfiled =>
        \A w \in Workers, u \in Admins :
            \/ accounts[w][u] = stored[u] \/ <<w, u>> \in torn
            \/ \E r \in Requests : request[r].at = "deleting" /\ request[r].on.user = u

\* What was deleted or revoked stays so, for what is under way and over restarts.
RevocationHolds == VoidedIsRefused /\ RestartChangesNothing
=============================================================================
