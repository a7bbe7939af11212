----------------------------- MODULE Sockets_proofs -----------------------------
(***************************************************************************)
(* What the parts that serve WebSocket connections guarantee, for any      *)
(* number of connections, listeners and messages: a connection that has    *)
(* ended leaves no heartbeat behind; whoever is registered for a channel   *)
(* has a listener and hears every message once and in order; and the       *)
(* members of a room hear every message that is due to them, and once.     *)
(***************************************************************************)
EXTENDS Broadcast, Heartbeat, SocketManager, FiniteSetTheorems, TLAPS

-----------------------------------------------------------------------------
(* Heartbeats *)

\* A task that is not in the table has ended, or it is about to: it awaits itself or
\* the middleware awaits it, with the lock.
OutOfTable ==
    \A s \in Peers : s \notin tasks =>
        \/ beat[s] \in {"none", "ended"}
        \/ beat[s] = "stopped" /\ lock = Task(s)
        \/ s \in cancelled /\ lock = Middleware(s)

\* Whoever waits for a task has taken it out of the table, and has the lock.
WaitsWithLock ==
    \A s \in Peers :
        /\ conn[s] = "awaiting" => s \notin tasks /\ lock = Middleware(s)
        /\ beat[s] = "stopped" => s \notin tasks /\ lock = Task(s)

HeartbeatInv == HeartbeatTypeOK /\ OutOfTable /\ WaitsWithLock /\ NothingKept

LEMMA Holders ==
  ASSUME NEW s, NEW t
  PROVE  /\ Middleware(s) # Free /\ Task(s) # Free /\ Middleware(s) # Task(t)
         /\ Middleware(s) = Middleware(t) => s = t
         /\ Task(s) = Task(t) => s = t
  <1>1. /\ Free.by = "nobody" /\ Middleware(s).by = "middleware" /\ Task(t).by = "task"
        /\ Task(s).by = "task"
        /\ Middleware(s).of = s /\ Middleware(t).of = t /\ Task(s).of = s /\ Task(t).of = t
    BY DEF Free, Middleware, Task
  <1>2. QED
    BY <1>1

LEMMA HeartbeatTypes ==
  ASSUME HeartbeatTypeOK, [HeartbeatNext]_heartbeatVars
  PROVE  HeartbeatTypeOK'
  <1> USE HeartbeatAssumption DEF HeartbeatTypeOK, tables, counts, Conn, Beat
  <1>1. ASSUME NEW s \in Peers, Connect(s) \/ Start(s) \/ CallStop(s) \/ CancelStop(s) \/ Pong(s)
        PROVE  HeartbeatTypeOK'
    BY <1>1 DEF Connect, Start, CallStop, CancelStop, Pong
  <1>2. ASSUME NEW s \in Peers, StopStep(s) PROVE HeartbeatTypeOK'
    BY <1>2 DEF StopStep, StopTask, TaskStopped, Returns, Forgets
  <1>3. ASSUME NEW s \in Peers, BeatStep(s) PROVE HeartbeatTypeOK'
    BY <1>3 DEF BeatStep, WakesToPing, WakesToClose, CloseEnds, PingEnds, StopItself, StoppedItself,
                CancelledEnds
  <1>4. CASE UNCHANGED heartbeatVars
    BY <1>4 DEF heartbeatVars
  <1>5. QED
    BY <1>1, <1>2, <1>3, <1>4 DEF HeartbeatNext

LEMMA MiddlewareKeeps ==
  ASSUME HeartbeatInv, NEW s \in Peers,
         Connect(s) \/ Start(s) \/ Pong(s) \/ CallStop(s) \/ StopStep(s) \/ CancelStop(s)
  PROVE  OutOfTable' /\ WaitsWithLock' /\ NothingKept'
  <1> USE DEF HeartbeatInv, HeartbeatTypeOK, OutOfTable, WaitsWithLock, NothingKept, tables, counts,
              Conn, Beat
  <1>1. CASE Connect(s) \/ CallStop(s) \/ CancelStop(s)
    BY <1>1 DEF Connect, CallStop, CancelStop
  <1>2. CASE Start(s)
    BY <1>2, Holders DEF Start
  <1>3. CASE Pong(s)
    BY <1>3 DEF Pong
  <1>4. CASE StopTask(s)
    BY <1>4, Holders DEF StopTask, Returns, Forgets
  <1>5. CASE TaskStopped(s)
    BY <1>5, Holders DEF TaskStopped, Returns
  <1>6. QED
    BY <1>1, <1>2, <1>3, <1>4, <1>5 DEF StopStep

LEMMA BeatKeeps ==
  ASSUME HeartbeatInv, NEW s \in Peers, BeatStep(s)
  PROVE  OutOfTable' /\ WaitsWithLock' /\ NothingKept'
  <1> USE DEF HeartbeatInv, HeartbeatTypeOK, OutOfTable, WaitsWithLock, NothingKept, tables, counts, Beat
  <1>1. CASE WakesToPing(s) \/ WakesToClose(s)
    BY <1>1 DEF WakesToPing, WakesToClose
  <1>2. CASE CloseEnds(s) \/ \E raises \in BOOLEAN : PingEnds(s, raises)
    BY <1>2 DEF CloseEnds, PingEnds
  <1>3. CASE StopItself(s)
    BY <1>3, Holders DEF StopItself
  <1>4. CASE StoppedItself(s)
    BY <1>4, Holders DEF StoppedItself
  <1>5. CASE CancelledEnds(s)
    BY <1>5, Holders DEF CancelledEnds
  <1>6. QED
    BY <1>1, <1>2, <1>3, <1>4, <1>5 DEF BeatStep

LEMMA AlwaysHeartbeatInv == HeartbeatSpec => []HeartbeatInv
  <1>1. HeartbeatInit => HeartbeatInv
    BY HeartbeatAssumption
    DEF HeartbeatInit, HeartbeatInv, HeartbeatTypeOK, OutOfTable, WaitsWithLock, NothingKept
  <1>2. HeartbeatInv /\ [HeartbeatNext]_heartbeatVars => HeartbeatInv'
    <2> SUFFICES ASSUME HeartbeatInv, [HeartbeatNext]_heartbeatVars PROVE HeartbeatInv'
      OBVIOUS
    <2>1. HeartbeatTypeOK'
      BY HeartbeatTypes DEF HeartbeatInv
    <2>2. CASE HeartbeatNext
      BY <2>1, <2>2, MiddlewareKeeps, BeatKeeps DEF HeartbeatNext, HeartbeatInv
    <2>3. CASE UNCHANGED heartbeatVars
      BY <2>1, <2>3 DEF heartbeatVars, HeartbeatInv, OutOfTable, WaitsWithLock, NothingKept
    <2>4. QED
      BY <2>2, <2>3
  <1>3. QED
    BY <1>1, <1>2, PTL DEF HeartbeatSpec

\* The tables, the tasks and the lock keep their types.
THEOREM HeartbeatTypeCorrect == HeartbeatSpec => []HeartbeatTypeOK
  <1>1. HeartbeatInv => HeartbeatTypeOK
    BY DEF HeartbeatInv
  <1>2. QED
    BY AlwaysHeartbeatInv, <1>1, PTL

\* A connection that has ended leaves no task, no entry in the table of tasks and no
\* time of its last pong behind, however its stop() and that of the task meet.
THEOREM HeartbeatsLeaveNothing == HeartbeatSpec => []NothingKept
  <1>1. HeartbeatInv => NothingKept
    BY DEF HeartbeatInv
  <1>2. QED
    BY AlwaysHeartbeatInv, <1>1, PTL

-----------------------------------------------------------------------------
(* Broadcasts *)

Feeding(l) == pc[l] = "sending"

\* Who is registered has a listener, and the channel is known while somebody is.
RegisteredAreKnown ==
    ~emptied => (known <=> sockets # {}) /\ (sockets # {} => Alive # {})

\* What waits for a listener is in order, and comes after what it is sending.
InboxesInOrder ==
    \A l \in Listeners :
        /\ l \notin Subscribed => inbox[l] = <<>>
        /\ \A i, k \in DOMAIN inbox[l] : i < k => inbox[l][i] < inbox[l][k]
        /\ \A i \in DOMAIN inbox[l] : inbox[l][i] <= published
        /\ Feeding(l) => /\ message[l] \in 1..published
                         /\ \A k \in DOMAIN inbox[l] : message[l] < inbox[l][k]

HeardWasPublished == \A s \in Sockets : \A i \in DOMAIN heard[s] : heard[s][i] <= published

OneAlive == ~doubled => \A l, k \in Alive : l = k

\* What sockets have heard comes before what the listener has still to send them.
HeardComesFirst ==
    ~doubled => \A l \in Alive, s \in Sockets : \A i \in DOMAIN heard[s] :
        /\ \A k \in DOMAIN inbox[l] : heard[s][i] < inbox[l][k]
        /\ Feeding(l) => heard[s][i] <= message[l]
        /\ Feeding(l) /\ s \in todo[l] => heard[s][i] < message[l]

BroadcastInv ==
    /\ TypeOK /\ RegisteredAreKnown /\ InboxesInOrder /\ HeardWasPublished
    /\ OneAlive /\ HeardComesFirst /\ OnceInOrder

LEMMA BroadcastParts ==
  ASSUME BroadcastInv
  PROVE  /\ known \in BOOLEAN /\ sockets \subseteq Sockets
         /\ inbox \in [Listeners -> Seq(Messages)] /\ heard \in [Sockets -> Seq(Messages)]
         /\ message \in [Listeners -> 0..MaxMessages] /\ todo \in [Listeners -> SUBSET Sockets]
         /\ published \in 0..MaxMessages /\ MaxMessages \in Nat
         /\ Alive \subseteq Listeners /\ Subscribed \subseteq Alive
         /\ \A l \in Listeners : Feeding(l) => l \in Subscribed
  BY BroadcastAssumption DEF BroadcastInv, TypeOK, Alive, Subscribed, Feeding

LEMMA BroadcastTypes ==
  ASSUME BroadcastInv, [Next]_vars
  PROVE  TypeOK'
  <1> USE BroadcastAssumption DEF TypeOK
  <1>1. TypeOK
    BY DEF BroadcastInv
  <1>2. ASSUME NEW s \in Sockets, Register(s) PROVE TypeOK'
    BY <1>1, <1>2 DEF Register, StartsListener
  <1>3. ASSUME NEW s \in Sockets, Unregister(s) PROVE TypeOK'
    BY <1>1, <1>3 DEF Unregister, Leave, listenerVars
  <1>4. CASE Publish
    <2>1. published' \in 0..MaxMessages /\ published' \in Messages
      BY <1>1, <1>4 DEF Publish, Messages
    <2>2. inbox' \in [Listeners -> Seq(Messages)]
      BY <1>1, <1>4, <2>1 DEF Publish
    <2>3. owed' \in [Sockets -> SUBSET Messages]
      BY <1>1, <1>4, <2>1 DEF Publish
    <2>4. UNCHANGED <<known, sockets, pc, todo, failed, message, faults, heard, emptied, doubled>>
      BY <1>4 DEF Publish, managerVars
    <2>5. QED
      BY <1>1, <2>1, <2>2, <2>3, <2>4
  <1>5. ASSUME NEW l \in Listeners, Subscribe(l) PROVE TypeOK'
    BY <1>1, <1>5 DEF Subscribe, managerVars, historyVars
  <1>6. ASSUME NEW l \in Listeners, Receive(l) PROVE TypeOK'
    <2>1. inbox[l] \in Seq(Messages) /\ inbox[l] # <<>>
      BY <1>1, <1>6 DEF Receive
    <2>2. Head(inbox[l]) \in Messages /\ Tail(inbox[l]) \in Seq(Messages) /\ <<>> \in Seq(Messages)
      BY <2>1
    <2>3. Head(inbox[l]) \in 0..MaxMessages /\ 0 \in 0..MaxMessages
      BY <2>2 DEF Messages
    <2>4. inbox' \in [Listeners -> Seq(Messages)]
      BY <1>1, <1>6, <2>2 DEF Receive
    <2>5. message' \in [Listeners -> 0..MaxMessages]
      BY <1>1, <1>6, <2>3 DEF Receive
    <2>6. /\ todo' \in [Listeners -> SUBSET Sockets]
          /\ pc' \in [Listeners -> {"unborn", "starting", "waiting", "sending", "ended"}]
      BY <1>1, <1>6 DEF Receive
    <2>7. UNCHANGED <<known, sockets, failed, published, faults, heard, owed, emptied, doubled>>
      BY <1>6 DEF Receive, managerVars, historyVars
    <2>8. QED
      BY <1>1, <2>4, <2>5, <2>6, <2>7
  <1>7. ASSUME NEW l \in Listeners, NEW s \in Sockets, Send(l, s) \/ SendRaises(l, s)
        PROVE  TypeOK'
    <2>1. message[l] \in Messages
      BY <1>7 DEF BroadcastInv, InboxesInOrder, Send, SendRaises, SendEnds, Feeding, Messages
    <2>2. heard' \in [Sockets -> Seq(Messages)]
      <3>1. Append(heard[s], message[l]) \in Seq(Messages) /\ heard \in [Sockets -> Seq(Messages)]
        BY <1>1, <2>1
      <3>2. heard' = [heard EXCEPT ![s] = Append(heard[s], message[l])] \/ heard' = heard
        BY <1>7 DEF Send, SendRaises
      <3>3. QED
        BY <3>1, <3>2
    <2>3. PICK nowFailed \in SUBSET Sockets : SendEnds(l, s, nowFailed)
      BY <1>1, <1>7 DEF Send, SendRaises
    <2>4. faults' \in 0..MaxFaults
      BY <1>1, <1>7 DEF Send, SendRaises
    <2>5. /\ todo' \in [Listeners -> SUBSET Sockets] /\ failed' \in [Listeners -> SUBSET Sockets]
          /\ sockets' \subseteq Sockets /\ UNCHANGED <<known, inbox, published, doubled>>
      BY <1>1, <2>3 DEF SendEnds, Finishes
    <2>6. /\ pc' \in [Listeners -> {"unborn", "starting", "waiting", "sending", "ended"}]
          /\ message' \in [Listeners -> 0..MaxMessages]
      <3>1. pc' = pc \/ pc' = [pc EXCEPT ![l] = "waiting"]
        BY <2>3 DEF SendEnds, Finishes
      <3>2. message' = message \/ message' = [message EXCEPT ![l] = 0]
        BY <2>3 DEF SendEnds, Finishes
      <3>3. message' \in [Listeners -> 0..MaxMessages]
        <4>1. message \in [Listeners -> 0..MaxMessages] /\ 0 \in 0..MaxMessages
          BY <1>1
        <4>2. QED
          BY <3>2, <4>1
      <3>4. QED
        BY <1>1, <3>1, <3>3
    <2>7. owed' \in [Sockets -> SUBSET Messages] /\ emptied' \in BOOLEAN
      <3>1. \/ owed' = owed /\ emptied' = emptied
            \/ /\ \E S : owed' = [x \in Sockets |-> IF x \in S THEN {} ELSE owed[x]]
               /\ emptied' = (emptied \/ (sockets # {} /\ sockets' = {}))
        BY <2>3 DEF SendEnds, Finishes, Leave
      <3>2. owed \in [Sockets -> SUBSET Messages] /\ emptied \in BOOLEAN
        BY <1>1
      <3>3. QED
        BY <3>1, <3>2
    <2>8. QED
      BY <1>1, <2>2, <2>4, <2>5, <2>6, <2>7
  <1>8. CASE UNCHANGED vars
    BY <1>1, <1>8 DEF vars, managerVars, listenerVars, historyVars
  <1>9. QED
    BY <1>2, <1>3, <1>4, <1>5, <1>6, <1>7, <1>8 DEF Next, Listen

\* register() and unregister() touch no message; only the first starts a listener.
LEMMA RegisterKeeps ==
  ASSUME BroadcastInv, NEW s \in Sockets, Register(s)
  PROVE  /\ RegisteredAreKnown' /\ InboxesInOrder' /\ HeardWasPublished'
         /\ OneAlive' /\ HeardComesFirst' /\ OnceInOrder'
  <1>1. UNCHANGED <<inbox, todo, message, published, heard, emptied>>
    BY DEF Register
  <1>2. CASE known
    <2>1. UNCHANGED <<pc, doubled>> /\ known' = TRUE /\ sockets' = sockets \union {s}
      BY <1>2 DEF Register
    <2>2. UNCHANGED <<Alive, Subscribed>> /\ \A l : Feeding(l)' <=> Feeding(l)
      BY <2>1 DEF Alive, Subscribed, Feeding
    <2>3. RegisteredAreKnown'
      BY <1>1, <1>2, <2>1, <2>2 DEF BroadcastInv, RegisteredAreKnown
    <2>4. QED
      BY <1>1, <2>1, <2>2, <2>3
      DEF BroadcastInv, InboxesInOrder, HeardWasPublished, OneAlive, HeardComesFirst, OnceInOrder
  <1>3. CASE ~known
    <2>1. PICK l \in Listeners : StartsListener(l)
      BY <1>3 DEF Register
    <2>2. known' = TRUE /\ sockets' = sockets \union {s}
      BY DEF Register
    <2>3. /\ Alive' = Alive \union {l} /\ Subscribed' = Subscribed /\ l \notin Subscribed
          /\ doubled' = (doubled \/ Alive # {})
          /\ \A k \in Listeners : Feeding(k)' <=> Feeding(k)
      BY <2>1 DEF StartsListener, BroadcastInv, TypeOK, Alive, Subscribed, Feeding
    <2>4. RegisteredAreKnown'
      BY <2>2, <2>3 DEF RegisteredAreKnown
    <2>5. InboxesInOrder' /\ HeardWasPublished'
      BY <1>1, <2>3 DEF BroadcastInv, InboxesInOrder, HeardWasPublished
    <2>6. OneAlive' /\ OnceInOrder'
      BY <1>1, <2>3 DEF BroadcastInv, OneAlive, OnceInOrder
    <2>7. HeardComesFirst'
      <3>1. inbox'[l] = <<>> /\ ~Feeding(l)' /\ (~doubled' => Alive' = {l})
        BY <1>1, <2>3, BroadcastParts DEF BroadcastInv, InboxesInOrder
      <3>2. DOMAIN inbox'[l] = {}
        BY <3>1
      <3>3. QED
        BY <3>1, <3>2 DEF HeardComesFirst
    <2>8. QED
      BY <2>4, <2>5, <2>6, <2>7
  <1>4. QED
    BY <1>2, <1>3

LEMMA UnregisterKeeps ==
  ASSUME BroadcastInv, NEW s \in Sockets, Unregister(s)
  PROVE  /\ RegisteredAreKnown' /\ InboxesInOrder' /\ HeardWasPublished'
         /\ OneAlive' /\ HeardComesFirst' /\ OnceInOrder'
  <1>1. /\ sockets' = sockets \ {s} /\ (known' <=> sockets' # {})
        /\ UNCHANGED <<pc, inbox, todo, message, published, heard, emptied, doubled>>
    BY DEF Unregister, listenerVars
  <1>2. UNCHANGED <<Alive, Subscribed>> /\ \A l : Feeding(l)' <=> Feeding(l)
    BY <1>1 DEF Alive, Subscribed, Feeding
  <1>3. QED
    BY <1>1, <1>2
    DEF BroadcastInv, RegisteredAreKnown, InboxesInOrder, HeardWasPublished, OneAlive, HeardComesFirst,
        OnceInOrder

\* A message comes after all that were published before it.
LEMMA PublishKeeps ==
  ASSUME BroadcastInv, Publish
  PROVE  /\ RegisteredAreKnown' /\ InboxesInOrder' /\ HeardWasPublished'
         /\ OneAlive' /\ HeardComesFirst' /\ OnceInOrder'
  <1>1. /\ published' = published + 1 /\ published \in Nat
        /\ UNCHANGED <<known, sockets, pc, todo, message, heard, emptied, doubled>>
    BY BroadcastParts DEF Publish, managerVars
  <1>2. UNCHANGED <<Alive, Subscribed>> /\ \A l : Feeding(l)' <=> Feeding(l)
    BY <1>1 DEF Alive, Subscribed, Feeding
  <1>3. \A l \in Listeners : \/ l \in Subscribed /\ inbox'[l] = Append(inbox[l], published + 1)
                             \/ inbox'[l] = inbox[l]
    BY <1>1 DEF Publish
  <1>4. \A l \in Listeners : inbox[l] \in Seq(Nat)
    BY BroadcastParts DEF Messages
  <1>5. \A l \in Listeners : \A i \in DOMAIN inbox'[l] :
            \/ i \in DOMAIN inbox[l] /\ inbox'[l][i] = inbox[l][i]
            \/ i = Len(inbox[l]) + 1 /\ inbox'[l][i] = published + 1
    BY SMTT(30), <1>3, <1>4
  <1>6. \A s \in Sockets : \A i \in DOMAIN heard[s] : heard[s][i] \in Nat /\ heard[s][i] <= published
    BY BroadcastParts DEF BroadcastInv, HeardWasPublished, Messages
  <1>7. RegisteredAreKnown' /\ OneAlive' /\ OnceInOrder'
    BY <1>1, <1>2 DEF BroadcastInv, RegisteredAreKnown, OneAlive, OnceInOrder
  <1>8. HeardWasPublished'
    BY <1>1, <1>6 DEF HeardWasPublished
  <1>9. InboxesInOrder'
    <2> SUFFICES ASSUME NEW l \in Listeners
                 PROVE  /\ l \notin Subscribed => inbox'[l] = <<>>
                        /\ \A i, k \in DOMAIN inbox'[l] : i < k => inbox'[l][i] < inbox'[l][k]
                        /\ \A i \in DOMAIN inbox'[l] : inbox'[l][i] <= published'
                        /\ Feeding(l) => /\ message[l] \in 1..published'
                                         /\ \A k \in DOMAIN inbox'[l] : message[l] < inbox'[l][k]
      BY <1>1, <1>2 DEF InboxesInOrder
    <2>1. /\ l \notin Subscribed => inbox[l] = <<>>
          /\ \A i, k \in DOMAIN inbox[l] : i < k => inbox[l][i] < inbox[l][k]
          /\ \A i \in DOMAIN inbox[l] : inbox[l][i] <= published /\ inbox[l][i] \in Nat
          /\ Feeding(l) => /\ message[l] \in 1..published
                           /\ \A k \in DOMAIN inbox[l] : message[l] < inbox[l][k]
          /\ DOMAIN inbox[l] = 1..Len(inbox[l]) /\ Len(inbox[l]) \in Nat
      BY <1>4 DEF BroadcastInv, InboxesInOrder
    <2>2. DOMAIN inbox'[l] \subseteq Nat
      BY <1>5, <2>1
    <2>3. l \notin Subscribed => inbox'[l] = <<>>
      BY <1>3, <2>1
    <2>4. \A i, k \in DOMAIN inbox'[l] : i < k => inbox'[l][i] < inbox'[l][k]
      BY <1>1, <1>5, <2>1
    <2>5. \A i \in DOMAIN inbox'[l] : inbox'[l][i] <= published'
      BY <1>1, <1>5, <2>1
    <2>6. Feeding(l) => /\ message[l] \in 1..published'
                        /\ \A k \in DOMAIN inbox'[l] : message[l] < inbox'[l][k]
      BY <1>1, <1>5, <2>1
    <2>7. QED
      BY <2>3, <2>4, <2>5, <2>6
  <1>10. HeardComesFirst'
    <2> SUFFICES ASSUME ~doubled, NEW l \in Alive, NEW s \in Sockets, NEW i \in DOMAIN heard[s]
                 PROVE  /\ \A k \in DOMAIN inbox'[l] : heard[s][i] < inbox'[l][k]
                        /\ Feeding(l) => heard[s][i] <= message[l]
                        /\ Feeding(l) /\ s \in todo[l] => heard[s][i] < message[l]
      BY <1>1, <1>2 DEF HeardComesFirst
    <2>1. /\ \A k \in DOMAIN inbox[l] : heard[s][i] < inbox[l][k]
          /\ Feeding(l) => heard[s][i] <= message[l]
          /\ Feeding(l) /\ s \in todo[l] => heard[s][i] < message[l]
      BY DEF BroadcastInv, HeardComesFirst
    <2>2. l \in Listeners
      BY BroadcastParts
    <2>3. \A k \in DOMAIN inbox'[l] : heard[s][i] < inbox'[l][k]
      BY <1>1, <1>5, <1>6, <2>1, <2>2
    <2>4. QED
      BY <2>1, <2>3
  <1>11. QED
    BY <1>7, <1>8, <1>9, <1>10

LEMMA SubscribeKeeps ==
  ASSUME BroadcastInv, NEW l \in Listeners, Subscribe(l)
  PROVE  /\ RegisteredAreKnown' /\ InboxesInOrder' /\ HeardWasPublished'
         /\ OneAlive' /\ HeardComesFirst' /\ OnceInOrder'
  <1>1. UNCHANGED <<known, sockets, inbox, todo, message, published, heard, emptied, doubled>>
    BY DEF Subscribe, managerVars, historyVars
  <1>2. /\ Alive' = Alive /\ Subscribed \subseteq Subscribed'
        /\ \A k \in Listeners : Feeding(k)' <=> Feeding(k)
    BY DEF Subscribe, BroadcastInv, TypeOK, Alive, Subscribed, Feeding
  <1>3. RegisteredAreKnown' /\ HeardWasPublished' /\ OneAlive' /\ OnceInOrder'
    BY <1>1, <1>2 DEF BroadcastInv, RegisteredAreKnown, HeardWasPublished, OneAlive, OnceInOrder
  <1>4. InboxesInOrder'
    BY <1>1, <1>2 DEF BroadcastInv, InboxesInOrder
  <1>5. HeardComesFirst'
    BY <1>1, <1>2, BroadcastParts DEF BroadcastInv, HeardComesFirst
  <1>6. QED
    BY <1>3, <1>4, <1>5

\* The listener ends only when nobody is registered; else the first message of its
\* queue is the one that it sends.
LEMMA ReceiveKeeps ==
  ASSUME BroadcastInv, NEW l \in Listeners, Receive(l)
  PROVE  /\ RegisteredAreKnown' /\ InboxesInOrder' /\ HeardWasPublished'
         /\ OneAlive' /\ HeardComesFirst' /\ OnceInOrder'
  <1>1. /\ UNCHANGED <<known, sockets, published, heard, emptied, doubled>>
        /\ inbox[l] # <<>> /\ todo'[l] = sockets
        /\ \A k \in Listeners \ {l} : /\ inbox'[k] = inbox[k] /\ message'[k] = message[k]
                                      /\ todo'[k] = todo[k]
    BY BroadcastParts DEF Receive, managerVars, historyVars
  <1>2. /\ Alive' \subseteq Alive /\ Subscribed' \subseteq Subscribed /\ l \in Alive /\ l \in Subscribed
        /\ Alive \ {l} \subseteq Alive' /\ Subscribed \ {l} \subseteq Subscribed'
        /\ \A k \in Listeners \ {l} : Feeding(k)' <=> Feeding(k)
        /\ sockets = {} => ~Feeding(l)'
        /\ sockets # {} => Alive' = Alive /\ Subscribed' = Subscribed
    BY DEF Receive, BroadcastInv, TypeOK, Alive, Subscribed, Feeding
  <1>3. RegisteredAreKnown' /\ HeardWasPublished' /\ OneAlive' /\ OnceInOrder'
    BY <1>1, <1>2 DEF BroadcastInv, RegisteredAreKnown, HeardWasPublished, OneAlive, OnceInOrder
  <1>4. /\ inbox[l] \in Seq(Messages) /\ Len(inbox[l]) \in Nat /\ Len(inbox[l]) > 0
        /\ Head(inbox[l]) = inbox[l][1] /\ inbox[l][1] \in Messages /\ 1 \in DOMAIN inbox[l]
        /\ \A i \in DOMAIN Tail(inbox[l]) :
              i \in Nat /\ i + 1 \in DOMAIN inbox[l] /\ Tail(inbox[l])[i] = inbox[l][i + 1] /\ 1 < i + 1
    BY <1>1, BroadcastParts
  <1>5. CASE sockets = {}
    <2>1. inbox'[l] = <<>>
      BY <1>5, BroadcastParts DEF Receive
    <2>2. DOMAIN inbox'[l] = {}
      BY <2>1
    <2>3. InboxesInOrder'
      BY <1>1, <1>2, <1>5, <2>1, <2>2 DEF BroadcastInv, InboxesInOrder
    <2>4. HeardComesFirst'
      BY <1>1, <1>2, <1>5, <2>2, BroadcastParts DEF BroadcastInv, HeardComesFirst
    <2>5. QED
      BY <1>3, <2>3, <2>4
  <1>6. CASE sockets # {}
    <2>1. inbox'[l] = Tail(inbox[l]) /\ message'[l] = inbox[l][1]
      BY <1>4, <1>6, BroadcastParts DEF Receive
    <2>2. InboxesInOrder'
      <3> SUFFICES ASSUME NEW k \in Listeners
                   PROVE  /\ k \notin Subscribed' => inbox'[k] = <<>>
                          /\ \A i, j \in DOMAIN inbox'[k] : i < j => inbox'[k][i] < inbox'[k][j]
                          /\ \A i \in DOMAIN inbox'[k] : inbox'[k][i] <= published'
                          /\ Feeding(k)' => /\ message'[k] \in 1..published'
                                            /\ \A j \in DOMAIN inbox'[k] : message'[k] < inbox'[k][j]
        BY DEF InboxesInOrder
      <3>1. CASE k # l
        BY <1>1, <1>2, <3>1 DEF BroadcastInv, InboxesInOrder
      <3>2. CASE k = l
        <4>1. /\ \A i, j \in DOMAIN inbox[l] : i < j => inbox[l][i] < inbox[l][j]
              /\ \A i \in DOMAIN inbox[l] : inbox[l][i] <= published
          BY DEF BroadcastInv, InboxesInOrder
        <4>2. \A i, j \in DOMAIN inbox'[l] : i < j => inbox'[l][i] < inbox'[l][j]
          BY <1>4, <2>1, <4>1
        <4>3. \A i \in DOMAIN inbox'[l] : inbox'[l][i] <= published'
          BY <1>1, <1>4, <2>1, <4>1
        <4>4. message'[l] \in 1..published' /\ \A j \in DOMAIN inbox'[l] : message'[l] < inbox'[l][j]
          BY <1>1, <1>4, <2>1, <4>1, BroadcastParts DEF Messages
        <4>5. l \in Subscribed'
          BY <1>2, <1>6
        <4>6. QED
          BY <3>2, <4>2, <4>3, <4>4, <4>5
      <3>3. QED
        BY <3>1, <3>2
    <2>3. HeardComesFirst'
      <3> SUFFICES ASSUME ~doubled', NEW k \in Alive', NEW s \in Sockets, NEW i \in DOMAIN heard[s]
                   PROVE  /\ \A j \in DOMAIN inbox'[k] : heard[s][i] < inbox'[k][j]
                          /\ Feeding(k)' => heard[s][i] <= message'[k]
                          /\ Feeding(k)' /\ s \in todo'[k] => heard[s][i] < message'[k]
        BY <1>1 DEF HeardComesFirst
      <3>1. k = l
        BY <1>1, <1>2 DEF BroadcastInv, OneAlive
      <3>2. \A j \in DOMAIN inbox[l] : heard[s][i] < inbox[l][j]
        BY <1>1, <1>2 DEF BroadcastInv, HeardComesFirst
      <3>3. heard[s][i] \in Nat
        BY BroadcastParts DEF Messages
      <3>4. \A j \in DOMAIN inbox'[l] : heard[s][i] < inbox'[l][j]
        BY <1>4, <2>1, <3>2
      <3>5. heard[s][i] < message'[l] /\ heard[s][i] <= message'[l]
        BY <1>4, <2>1, <3>2, <3>3 DEF Messages
      <3>6. QED
        BY <3>1, <3>4, <3>5
    <2>4. QED
      BY <1>3, <2>2, <2>3
  <1>7. QED
    BY <1>5, <1>6

\* The end of a send to a socket: it was the last one or not.
LEMMA SendEndsMeans ==
  ASSUME BroadcastInv, NEW l \in Listeners, NEW s \in Sockets, NEW nowFailed, SendEnds(l, s, nowFailed)
  PROVE  /\ Feeding(l) /\ s \in todo[l] /\ l \in Alive /\ todo'[l] = todo[l] \ {s}
         /\ \A k \in Listeners \ {l} : todo'[k] = todo[k] /\ message'[k] = message[k]
         /\ Feeding(l)' => message'[l] = message[l]
         /\ \A k \in Listeners : Feeding(k)' => Feeding(k)
         /\ Alive' = Alive /\ Subscribed' = Subscribed
         /\ UNCHANGED <<known, inbox, published, doubled>>
         /\ \/ sockets' = sockets /\ emptied' = emptied
            \/ emptied' = (emptied \/ (sockets # {} /\ sockets' = {})) /\ sockets' \subseteq sockets
  <1>1. /\ Feeding(l) /\ s \in todo[l] /\ l \in Alive /\ todo'[l] = todo[l] \ {s}
        /\ \A k \in Listeners \ {l} : todo'[k] = todo[k]
        /\ UNCHANGED <<known, inbox, published, doubled>>
    BY DEF BroadcastInv, TypeOK, SendEnds, Feeding, Alive, Subscribed
  <1>2. CASE todo[l] = {s}
    BY <1>1, <1>2 DEF BroadcastInv, TypeOK, SendEnds, Finishes, Feeding, Alive, Subscribed
  <1>3. CASE todo[l] # {s}
    <2>1. UNCHANGED <<sockets, pc, message, emptied>>
      BY <1>3 DEF SendEnds
    <2>2. QED
      BY <1>1, <2>1 DEF Feeding, Alive, Subscribed
  <1>4. QED
    BY <1>2, <1>3

LEMMA SendKeeps ==
  ASSUME BroadcastInv, NEW l \in Listeners, NEW s \in Sockets, Send(l, s) \/ SendRaises(l, s)
  PROVE  /\ RegisteredAreKnown' /\ InboxesInOrder' /\ HeardWasPublished'
         /\ OneAlive' /\ HeardComesFirst' /\ OnceInOrder'
  <1>1. PICK nowFailed : SendEnds(l, s, nowFailed)
    BY DEF Send, SendRaises
  <1>2. \/ heard' = heard
        \/ /\ heard'[s] = Append(heard[s], message[l])
           /\ \A t \in Sockets \ {s} : heard'[t] = heard[t]
    BY BroadcastParts DEF Send, SendRaises
  <1>3. heard[s] \in Seq(Messages) /\ Len(heard[s]) \in Nat /\ message[l] \in Nat
    BY BroadcastParts
  <1>4. \A t \in Sockets : \A i \in DOMAIN heard'[t] :
            \/ i \in DOMAIN heard[t] /\ heard'[t][i] = heard[t][i]
            \/ t = s /\ i = Len(heard[s]) + 1 /\ heard'[t][i] = message[l]
    BY <1>2, <1>3
  <1>5. /\ message[l] \in 1..published
        /\ \A k \in DOMAIN inbox[l] : message[l] < inbox[l][k]
    BY <1>1, SendEndsMeans DEF BroadcastInv, InboxesInOrder
  <1>6. RegisteredAreKnown'
    BY <1>1, SendEndsMeans DEF BroadcastInv, RegisteredAreKnown
  <1>7. OneAlive'
    BY <1>1, SendEndsMeans DEF BroadcastInv, OneAlive
  <1>8. InboxesInOrder'
    <2> SUFFICES ASSUME NEW k \in Listeners
                 PROVE  /\ k \notin Subscribed => inbox[k] = <<>>
                        /\ \A i, j \in DOMAIN inbox[k] : i < j => inbox[k][i] < inbox[k][j]
                        /\ \A i \in DOMAIN inbox[k] : inbox[k][i] <= published
                        /\ Feeding(k)' => /\ message'[k] \in 1..published
                                          /\ \A j \in DOMAIN inbox[k] : message'[k] < inbox[k][j]
      BY <1>1, SendEndsMeans DEF InboxesInOrder
    <2>1. Feeding(k)' => Feeding(k) /\ message'[k] = message[k]
      BY <1>1, SendEndsMeans
    <2>2. QED
      BY <2>1 DEF BroadcastInv, InboxesInOrder
  <1>9. HeardWasPublished'
    <2>1. published' = published
      BY <1>1, SendEndsMeans
    <2>2. QED
      BY <1>4, <1>5, <2>1 DEF BroadcastInv, HeardWasPublished
  <1>10. ASSUME ~doubled'
         PROVE  /\ ~doubled /\ \A k \in Alive' : k = l
                /\ \A t \in Sockets : \A i \in DOMAIN heard[t] :
                      /\ \A k \in DOMAIN inbox[l] : heard[t][i] < inbox[l][k]
                      /\ heard[t][i] <= message[l]
                      /\ t \in todo[l] => heard[t][i] < message[l]
    BY <1>1, <1>10, SendEndsMeans DEF BroadcastInv, OneAlive, HeardComesFirst
  <1>11. HeardComesFirst'
    <2> SUFFICES ASSUME ~doubled', NEW t \in Sockets, NEW i \in DOMAIN heard'[t]
                 PROVE  /\ \A k \in DOMAIN inbox'[l] : heard'[t][i] < inbox'[l][k]
                        /\ Feeding(l)' => heard'[t][i] <= message'[l]
                        /\ Feeding(l)' /\ t \in todo'[l] => heard'[t][i] < message'[l]
      BY <1>10 DEF HeardComesFirst
    <2>1. \A k \in DOMAIN inbox'[l] : heard'[t][i] < inbox'[l][k]
      <3>1. inbox'[l] = inbox[l]
        BY <1>1, SendEndsMeans
      <3>2. QED
        BY <1>4, <1>5, <1>10, <3>1
    <2>2. ASSUME Feeding(l)' PROVE heard'[t][i] <= message'[l]
      <3>1. message'[l] = message[l]
        BY <1>1, <2>2, SendEndsMeans
      <3>2. QED
        BY <1>3, <1>4, <1>10, <3>1
    <2>3. ASSUME Feeding(l)', t \in todo'[l] PROVE heard'[t][i] < message'[l]
      <3>1. message'[l] = message[l] /\ t # s /\ t \in todo[l]
        BY <1>1, <2>3, SendEndsMeans
      <3>2. QED
        BY <1>4, <1>10, <3>1
    <2>4. QED
      BY <2>1, <2>2, <2>3
  <1>12. OnceInOrder'
    <2> SUFFICES ASSUME ~doubled', NEW t \in Sockets, NEW i \in DOMAIN heard'[t],
                        NEW k \in DOMAIN heard'[t], i < k
                 PROVE  heard'[t][i] < heard'[t][k]
      BY DEF OnceInOrder
    <2>1. \A j, m \in DOMAIN heard[t] : j < m => heard[t][j] < heard[t][m]
      BY <1>10 DEF BroadcastInv, OnceInOrder
    <2>2. s \in todo[l]
      BY <1>1, SendEndsMeans
    <2>3. DOMAIN heard[s] = 1..Len(heard[s])
      BY <1>3
    <2>4. CASE k \in DOMAIN heard[t] /\ heard'[t][k] = heard[t][k]
      <3>1. i \in DOMAIN heard[t] /\ heard'[t][i] = heard[t][i]
        BY <1>3, <1>4, <2>3, <2>4
      <3>2. QED
        BY <2>1, <2>4, <3>1
    <2>5. CASE t = s /\ k = Len(heard[s]) + 1 /\ heard'[t][k] = message[l]
      <3>1. i \in DOMAIN heard[t] /\ heard'[t][i] = heard[t][i]
        BY <1>4, <2>5
      <3>2. QED
        BY <1>10, <2>2, <2>5, <3>1
    <2>6. QED
      BY <1>4, <2>4, <2>5
  <1>13. QED
    BY <1>6, <1>7, <1>8, <1>9, <1>11, <1>12

LEMMA AlwaysBroadcastInv == Spec => []BroadcastInv
  <1>1. Init => BroadcastInv
    <2> SUFFICES ASSUME Init PROVE BroadcastInv
      OBVIOUS
    <2>1. TypeOK
      <3>1. known \in BOOLEAN /\ emptied \in BOOLEAN /\ doubled \in BOOLEAN
        BY DEF Init
      <3>2. /\ pc \in [Listeners -> {"unborn", "starting", "waiting", "sending", "ended"}]
            /\ todo \in [Listeners -> SUBSET Sockets] /\ failed \in [Listeners -> SUBSET Sockets]
            /\ inbox \in [Listeners -> Seq(Messages)] /\ heard \in [Sockets -> Seq(Messages)]
            /\ owed \in [Sockets -> SUBSET Messages] /\ sockets \subseteq Sockets
        BY DEF Init
      <3>3. message = [l \in Listeners |-> 0] /\ published = 0 /\ faults = 0
        BY DEF Init
      <3>4. /\ message \in [Listeners -> 0..MaxMessages]
            /\ published \in 0..MaxMessages /\ faults \in 0..MaxFaults
        BY <3>3, BroadcastAssumption
      <3>5. QED
        BY <3>1, <3>2, <3>4 DEF TypeOK
    <2>2. Alive = {} /\ Subscribed = {} /\ \A l \in Listeners : ~Feeding(l)
      BY DEF Init, Alive, Subscribed, Feeding
    <2>3. /\ ~known /\ sockets = {} /\ \A l \in Listeners : inbox[l] = <<>> /\ DOMAIN inbox[l] = {}
          /\ \A s \in Sockets : heard[s] = <<>> /\ DOMAIN heard[s] = {}
      BY DEF Init
    <2>4. QED
      BY <2>1, <2>2, <2>3
      DEF BroadcastInv, RegisteredAreKnown, InboxesInOrder, HeardWasPublished, OneAlive,
          HeardComesFirst, OnceInOrder
  <1>2. BroadcastInv /\ [Next]_vars => BroadcastInv'
    <2> SUFFICES ASSUME BroadcastInv, [Next]_vars PROVE BroadcastInv'
      OBVIOUS
    <2>1. TypeOK'
      BY BroadcastTypes
    <2>2. CASE Next
      BY <2>1, <2>2, RegisterKeeps, UnregisterKeeps, PublishKeeps, SubscribeKeeps, ReceiveKeeps, SendKeeps
      DEF Next, Listen, BroadcastInv
    <2>3. CASE UNCHANGED vars
      <3>1. /\ UNCHANGED <<known, sockets, inbox, todo, message, published, heard, emptied, doubled>>
            /\ UNCHANGED <<Alive, Subscribed>> /\ \A l : Feeding(l)' <=> Feeding(l)
        BY <2>3 DEF vars, managerVars, listenerVars, historyVars, Alive, Subscribed, Feeding
      <3>2. QED
        BY <2>1, <3>1
        DEF BroadcastInv, RegisteredAreKnown, InboxesInOrder, HeardWasPublished, OneAlive,
            HeardComesFirst, OnceInOrder
    <2>4. QED
      BY <2>2, <2>3
  <1>3. QED
    BY <1>1, <1>2, PTL DEF Spec

\* The channel, the listeners, their queues and what was heard keep their types.
THEOREM BroadcastTypeCorrect == Spec => []TypeOK
  <1>1. BroadcastInv => TypeOK
    BY DEF BroadcastInv
  <1>2. QED
    BY AlwaysBroadcastInv, <1>1, PTL

\* Whoever is registered has a listener, until one has dropped the channel's last
\* socket; and until a listener is started beside a living one, every socket is sent
\* each message at most once and in the order of publication.
THEOREM RegisteredAreServed == Spec => []SocketsAreServed
  <1>1. BroadcastInv => SocketsAreServed
    BY DEF BroadcastInv, RegisteredAreKnown, SocketsAreServed, HeardUnlessEmptied
  <1>2. QED
    BY AlwaysBroadcastInv, <1>1, PTL

-----------------------------------------------------------------------------
(* Rooms *)

\* What each socket was sent, what the listener's subscription holds, and the
\* messages so far.
Got(s) == Range(got[s])
Queued == Range(queue)
Past == 1..broadcasts

Calls == [at : {"none", "published", "sending"}, targets : SUBSET Members]

RoomTypeOK ==
    /\ ManagerTypeOK
    /\ listening \in [message : 0..MaxPublished, targets : SUBSET Members]
    /\ inCall \in [RoomMessages -> Calls]

\* The call is about to decide who sends the message.
InDecision(m) == inCall[m].at = "published"

\* Without its listener subscribed nothing of the room waits; without a broadcaster
\* there is no listener; members only are owed messages.
RoomInOrder ==
    /\ listener # "subscribed" => Queued = {} /\ listening = NoTargets
    /\ ~configured => listener = "none"
    /\ \A s \in Members : due[s] # {} => s \in room
    /\ \A m \in RoomMessages :
          /\ InDecision(m) => inCall[m].targets = {}
          /\ inCall[m].at = "none" => inCall[m].targets = {}

\* Every message is one that was broadcast.
OnlyPast ==
    /\ Queued \subseteq Past /\ listening.message \in Past \union {0}
    /\ listening.message = 0 => listening.targets = {}
    /\ \A s \in Members : Got(s) \subseteq Past /\ due[s] \subseteq Past
    /\ \A m \in RoomMessages : m \notin Past => inCall[m].targets = {} /\ ~InDecision(m)

Injective(q) == \A i, k \in DOMAIN q : q[i] = q[k] => i = k

\* A message is on at most one way to a socket, and on none to one that got it.
OneWay ==
    ~disturbed =>
        /\ Injective(queue)
        /\ \A s \in Members : Injective(got[s])
        /\ \A m \in RoomMessages, s \in Members :
              /\ InDecision(m) /\ listener = "none" => m \notin Got(s)
              /\ inCall[m].targets # {} => m \notin Queued /\ listening.message # m
              /\ s \in inCall[m].targets => m \notin Got(s)
              /\ m \in Queued => m \notin Got(s) /\ listening.message # m
              /\ s \in listening.targets => listening.message \notin Got(s)

\* What is due to a socket has arrived or is on its way.
DueIsUnderWay ==
    ~disturbed =>
        \A s \in Members : \A m \in due[s] :
            \/ m \in Got(s) \/ m \in Queued
            \/ listening.message = m /\ s \in listening.targets
            \/ s \in inCall[m].targets
            \/ InDecision(m) /\ listener = "none"

RoomInv == RoomTypeOK /\ RoomInOrder /\ OnlyPast /\ OneWay /\ DueIsUnderWay

LEMMA RoomParts ==
  ASSUME RoomInv
  PROVE  /\ ManagerTypeOK
         /\ listening \in [message : 0..MaxPublished, targets : SUBSET Members]
         /\ inCall \in [RoomMessages -> Calls]
         /\ queue \in Seq(RoomMessages) /\ got \in [Members -> Seq(RoomMessages)]
         /\ room \subseteq Members /\ due \in [Members -> SUBSET RoomMessages]
         /\ broadcasts \in Nat /\ Past \subseteq RoomMessages
         /\ RoomInOrder /\ OnlyPast /\ OneWay /\ DueIsUnderWay
  BY ManagerAssumption DEF RoomInv, RoomTypeOK, ManagerTypeOK, Past, RoomMessages

LEMMA AppendToRange ==
  ASSUME NEW S, NEW q \in Seq(S), NEW x \in S
  PROVE  /\ Append(q, x) \in Seq(S)
         /\ Range(Append(q, x)) = Range(q) \union {x}
         /\ Injective(q) /\ x \notin Range(q) => Injective(Append(q, x))
  <1>1. /\ Append(q, x) \in Seq(S) /\ Len(q) \in Nat /\ DOMAIN q = 1..Len(q)
        /\ DOMAIN Append(q, x) = 1..(Len(q) + 1)
        /\ \A i \in DOMAIN q : i \in DOMAIN Append(q, x) /\ Append(q, x)[i] = q[i]
        /\ Append(q, x)[Len(q) + 1] = x
        /\ \A i \in DOMAIN Append(q, x) : i \in DOMAIN q \/ i = Len(q) + 1
    OBVIOUS
  <1>2. Len(q) + 1 \in DOMAIN Append(q, x)
    BY <1>1
  <1>3. QED
    BY <1>1, <1>2 DEF Range, Injective

LEMMA TailOfRange ==
  ASSUME NEW S, NEW q \in Seq(S), q # <<>>
  PROVE  /\ Head(q) \in S /\ Tail(q) \in Seq(S) /\ Head(q) \in Range(q)
         /\ Range(q) = Range(Tail(q)) \union {Head(q)}
         /\ Injective(q) => Injective(Tail(q)) /\ Head(q) \notin Range(Tail(q))
  <1>1. /\ Len(q) \in Nat /\ Len(q) > 0 /\ DOMAIN q = 1..Len(q) /\ Head(q) = q[1]
        /\ Tail(q) \in Seq(S) /\ Head(q) \in S /\ 1 \in DOMAIN q
        /\ DOMAIN Tail(q) = 1..(Len(q) - 1)
        /\ \A i \in DOMAIN Tail(q) : i \in Nat /\ i + 1 \in DOMAIN q /\ Tail(q)[i] = q[i + 1] /\ i + 1 # 1
    OBVIOUS
  <1>2. \A i \in DOMAIN q : i # 1 => i - 1 \in DOMAIN Tail(q) /\ (i - 1) + 1 = i
    BY <1>1
  <1>3. \A i \in DOMAIN q : i = 1 \/ \E k \in DOMAIN Tail(q) : Tail(q)[k] = q[i]
    BY <1>1, <1>2
  <1>4. Range(q) = Range(Tail(q)) \union {Head(q)} /\ Head(q) \in Range(q)
    <2>1. Head(q) \in Range(q)
      BY <1>1 DEF Range
    <2>2. Range(Tail(q)) \subseteq Range(q)
      BY <1>1 DEF Range
    <2>3. ASSUME NEW x \in Range(q) PROVE x \in Range(Tail(q)) \union {Head(q)}
      <3>1. PICK i \in DOMAIN q : x = q[i]
        BY <2>3 DEF Range
      <3>2. CASE i = 1
        BY <1>1, <3>1, <3>2
      <3>3. CASE \E k \in DOMAIN Tail(q) : Tail(q)[k] = q[i]
        BY <3>1, <3>3 DEF Range
      <3>4. QED
        BY <1>3, <3>2, <3>3
    <2>4. QED
      BY <2>1, <2>2, <2>3
  <1>5. Injective(q) => Head(q) \notin Range(Tail(q))
    BY <1>1 DEF Injective, Range
  <1>6. ASSUME Injective(q) PROVE Injective(Tail(q))
    <2> SUFFICES ASSUME NEW i \in DOMAIN Tail(q), NEW k \in DOMAIN Tail(q), Tail(q)[i] = Tail(q)[k]
                 PROVE  i = k
      BY DEF Injective
    <2>1. i + 1 = k + 1
      BY <1>1, <1>6 DEF Injective
    <2>2. QED
      BY <1>1, <2>1
  <1>7. QED
    BY <1>1, <1>4, <1>5, <1>6

\* A step that leaves messages, queue and calls alone, and the listener if any call
\* is in decision.
LEMMA RoomStepKeeps ==
  ASSUME RoomInv, RoomTypeOK', RoomInOrder',
         UNCHANGED <<queue, listening, inCall, broadcasts, got>>,
         \A s \in Members : due'[s] \subseteq due[s],
         disturbed => disturbed',
         (listener = "none") # (listener' = "none") /\ Undecided => disturbed'
  PROVE  RoomInv'
  <1>1. OnlyPast'
    BY RoomParts DEF OnlyPast, Queued, Past, Got, InDecision
  <1>2. ASSUME ~disturbed', NEW m \in RoomMessages, InDecision(m)
        PROVE  listener' = "none" <=> listener = "none"
    BY <1>2 DEF InDecision, Undecided
  <1>3. OneWay'
    BY <1>2, RoomParts DEF OneWay, Queued, Got, InDecision
  <1>4. DueIsUnderWay'
    <2> SUFFICES ASSUME ~disturbed', NEW s \in Members, NEW m \in due'[s]
                 PROVE  \/ m \in Got(s) \/ m \in Queued
                        \/ listening.message = m /\ s \in listening.targets
                        \/ s \in inCall[m].targets
                        \/ InDecision(m) /\ listener' = "none"
      BY DEF DueIsUnderWay, Queued, Got, InDecision
    <2>1. m \in due[s] /\ m \in RoomMessages
      BY RoomParts
    <2>2. QED
      BY <1>2, <2>1, RoomParts DEF DueIsUnderWay
  <1>5. QED
    BY <1>1, <1>3, <1>4 DEF RoomInv

LEMMA RoomQuietStepsKeep ==
  ASSUME RoomInv,
         \/ \E s \in Members : JoinRoom(s) \/ LeaveRoom(s)
         \/ \E named \in BOOLEAN : Configure(named)
         \/ SubscribeRoom
         \/ UNCHANGED socketManagerVars
  PROVE  RoomInv'
  <1>1. /\ ManagerTypeOK /\ RoomInOrder /\ inCall \in [RoomMessages -> Calls]
        /\ listening \in [message : 0..MaxPublished, targets : SUBSET Members]
    BY RoomParts
  <1> USE DEF RoomTypeOK, ManagerTypeOK, RoomInOrder, Queued, InDecision, roomVars, callHistory
  <1>2. ASSUME NEW s \in Members, JoinRoom(s) PROVE RoomInv'
    <2>1. RoomTypeOK' /\ RoomInOrder'
      BY <1>1, <1>2 DEF JoinRoom
    <2>2. QED
      BY <1>2, <2>1, RoomStepKeeps DEF JoinRoom
  <1>3. ASSUME NEW s \in Members, LeaveRoom(s) PROVE RoomInv'
    <2>1. RoomTypeOK' /\ RoomInOrder'
      BY <1>1, <1>3 DEF LeaveRoom
    <2>2. \A t \in Members : due'[t] \subseteq due[t]
      BY <1>1, <1>3 DEF LeaveRoom
    <2>3. QED
      BY <1>3, <2>1, <2>2, RoomStepKeeps DEF LeaveRoom
  <1>4. ASSUME NEW named \in BOOLEAN, Configure(named) PROVE RoomInv'
    <2>1. RoomTypeOK' /\ RoomInOrder'
      BY <1>1, <1>4 DEF Configure
    <2>2. disturbed => disturbed'
      BY <1>4 DEF Configure
    <2>3. (listener = "none") # (listener' = "none") /\ Undecided => disturbed'
      BY <1>4 DEF Configure
    <2>4. QED
      BY <1>4, <2>1, <2>2, <2>3, RoomStepKeeps DEF Configure
  <1>5. CASE SubscribeRoom
    <2>1. RoomTypeOK' /\ RoomInOrder'
      BY <1>1, <1>5 DEF SubscribeRoom
    <2>2. QED
      BY <1>5, <2>1, RoomStepKeeps DEF SubscribeRoom
  <1>6. CASE UNCHANGED socketManagerVars
    <2>1. RoomTypeOK' /\ RoomInOrder'
      BY <1>1, <1>6 DEF socketManagerVars
    <2>2. QED
      BY <1>6, <2>1, RoomStepKeeps DEF socketManagerVars
  <1>7. QED
    BY <1>2, <1>3, <1>4, <1>5, <1>6

\* A listener that is closed takes its messages with it, which is a disturbance.
LEMMA RoomCloseKeeps ==
  ASSUME RoomInv, CloseBroadcaster
  PROVE  RoomInv'
  <1>1. /\ listener # "none" /\ listener' = "none" /\ queue' = <<>> /\ listening' = NoTargets
        /\ (disturbed' <=> disturbed \/ Undecided \/ queue # <<>> \/ listening # NoTargets)
        /\ UNCHANGED <<room, roomKnown, configured, inCall, broadcasts, due, faulty, got>>
    BY DEF CloseBroadcaster, roomVars, callHistory
  <1>2. Queued' = {} /\ listening'.message = 0 /\ listening'.targets = {}
    BY <1>1 DEF Queued, Range, NoTargets
  <1>3. RoomTypeOK'
    <2>1. /\ listener' \in {"none", "created", "subscribed", "dead"} /\ queue' \in Seq(RoomMessages)
          /\ disturbed' \in BOOLEAN
      BY <1>1, RoomParts DEF CloseBroadcaster, ManagerTypeOK
    <2>2. listening' \in [message : 0..MaxPublished, targets : SUBSET Members]
      BY <1>1, ManagerAssumption DEF NoTargets
    <2>3. QED
      BY <1>1, <1>2, <2>1, <2>2, RoomParts DEF RoomTypeOK, ManagerTypeOK
  <1>4. RoomInOrder'
    BY <1>1, <1>2, RoomParts DEF RoomInOrder, InDecision
  <1>5. OnlyPast'
    BY <1>1, <1>2, RoomParts DEF OnlyPast, Past, Got, InDecision
  <1>6. ASSUME ~disturbed' PROVE UNCHANGED <<queue, listening>> /\ ~disturbed /\ ~Undecided
    BY <1>1, <1>6
  <1>7. ASSUME ~disturbed' PROVE \A m \in RoomMessages : ~InDecision(m)
    BY <1>6, <1>7 DEF Undecided, InDecision
  <1>8. OneWay'
    BY <1>1, <1>6, <1>7, RoomParts DEF OneWay, Queued, Got, InDecision
  <1>9. DueIsUnderWay'
    BY <1>1, <1>6, <1>7, RoomParts DEF DueIsUnderWay, Queued, Got, InDecision
  <1>10. QED
    BY <1>3, <1>4, <1>5, <1>8, <1>9 DEF RoomInv

\* A new message: it is queued where the listener is subscribed, and its call sends it
\* or waits for the backend.
LEMMA RoomPublishKeeps ==
  ASSUME RoomInv, BroadcastJson \/ PublishedElsewhere
  PROVE  RoomInv'
  <1>0. PICK m \in Nat : m = broadcasts + 1
    BY RoomParts
  <1>1. /\ broadcasts' = m /\ m \in RoomMessages /\ m \notin Past /\ Past' = Past \union {m} /\ m # 0
        /\ broadcasts' \in 0..MaxPublished /\ Past \subseteq RoomMessages /\ 0 \notin RoomMessages
    BY <1>0, RoomParts, ManagerAssumption
    DEF BroadcastJson, PublishedElsewhere, PublishToRoom, Past, RoomMessages, ManagerTypeOK
  <1>2. /\ UNCHANGED <<room, roomKnown, configured, listener, listening, faulty, got, disturbed>>
        /\ queue' = IF listener = "subscribed" THEN Append(queue, m) ELSE queue
    BY <1>1 DEF BroadcastJson, PublishedElsewhere, PublishToRoom, roomVars
  <1>3. /\ queue' \in Seq(RoomMessages)
        /\ Queued' = IF listener = "subscribed" THEN Queued \union {m} ELSE Queued
        /\ Injective(queue) => Injective(queue')
    <2>1. m \notin Queued
      BY <1>1, RoomParts DEF OnlyPast
    <2>2. CASE listener = "subscribed"
      <3>1. queue' = Append(queue, m)
        BY <1>2, <2>2
      <3>2. /\ queue' \in Seq(RoomMessages) /\ Range(queue') = Range(queue) \union {m}
            /\ Injective(queue) => Injective(queue')
        BY <1>1, <2>1, <3>1, AppendToRange, RoomParts DEF Queued
      <3>3. QED
        BY <2>2, <3>2 DEF Queued
    <2>3. CASE listener # "subscribed"
      <3>1. queue' = queue
        BY <1>2, <2>3
      <3>2. QED
        BY <2>3, <3>1, RoomParts DEF Queued
    <2>4. QED
      BY <2>2, <2>3
  <1>4. inCall[m].targets = {} /\ ~InDecision(m) /\ inCall[m] \in Calls
    BY <1>1, RoomParts DEF OnlyPast
  <1> DEFINE OnItsWay(s) == \/ listener = "subscribed" \/ s \in inCall'[m].targets
                            \/ InDecision(m)' /\ listener = "none"
  <1>5. /\ inCall' \in [RoomMessages -> Calls] /\ inCall'[m].targets \subseteq room
        /\ \A k \in RoomMessages \ {m} : inCall'[k] = inCall[k]
        /\ InDecision(m)' \/ inCall'[m].at = "none" => inCall'[m].targets = {}
        /\ inCall'[m].targets # {} => listener # "subscribed"
        /\ \A s \in Members : /\ due'[s] \subseteq due[s] \union {m}
                              /\ due'[s] # due[s] => s \in room /\ OnItsWay(s)
    <2>1. CASE BroadcastJson /\ configured
      <3>1. inCall' = [inCall EXCEPT ![m].at = "published"]
        BY <1>1, <2>1 DEF BroadcastJson
      <3>2. inCall'[m] = [inCall[m] EXCEPT !.at = "published"]
        BY <1>1, <3>1, RoomParts
      <3>3. inCall'[m] \in Calls /\ inCall'[m].at = "published" /\ inCall'[m].targets = {}
        BY <1>4, <3>2 DEF Calls
      <3>4. /\ inCall' \in [RoomMessages -> Calls]
            /\ \A k \in RoomMessages \ {m} : inCall'[k] = inCall[k]
        BY <1>1, <3>1, <3>3, RoomParts
      <3>5. \A s \in Members : /\ due'[s] \subseteq due[s] \union {m}
                               /\ due'[s] # due[s] => s \in room /\ listener \in {"none", "subscribed"}
        BY <1>1, <2>1, RoomParts DEF BroadcastJson, PublishToRoom
      <3>6. InDecision(m)' /\ inCall'[m].targets = {}
        BY <3>3 DEF InDecision
      <3>7. \A s \in Members : due'[s] # due[s] => OnItsWay(s)
        BY <3>5, <3>6
      <3> HIDE DEF OnItsWay
      <3>8. QED
        BY <3>4, <3>5, <3>6, <3>7
    <2>2. CASE BroadcastJson /\ ~configured
      <3>1. listener = "none"
        BY <2>2, RoomParts DEF RoomInOrder
      <3>2. \A s \in Members : /\ due'[s] \subseteq due[s] \union {m}
                               /\ due'[s] # due[s] => s \in room
        BY <1>1, <2>2, RoomParts DEF BroadcastJson, PublishToRoom
      <3>3. inCall' = [inCall EXCEPT ![m] = IF room = {} THEN [at |-> "none", targets |-> {}]
                                            ELSE [at |-> "sending", targets |-> room]]
        BY <1>1, <2>2 DEF BroadcastJson, Sending
      <3>4. /\ inCall' \in [RoomMessages -> Calls] /\ inCall'[m].targets = room
            /\ \A k \in RoomMessages \ {m} : inCall'[k] = inCall[k]
            /\ inCall'[m].at # "published" /\ (inCall'[m].at = "none" => inCall'[m].targets = {})
        BY <1>1, <3>3, RoomParts DEF Calls
      <3>5. /\ InDecision(m)' \/ inCall'[m].at = "none" => inCall'[m].targets = {}
            /\ listener # "subscribed"
        BY <3>1, <3>4 DEF InDecision
      <3>6. \A s \in Members : due'[s] # due[s] => OnItsWay(s)
        BY <3>2, <3>4
      <3> HIDE DEF OnItsWay
      <3>7. QED
        BY <3>2, <3>4, <3>5, <3>6
    <2>3. CASE PublishedElsewhere
      <3>1. \A s \in Members : /\ due'[s] \subseteq due[s] \union {m}
                               /\ due'[s] # due[s] => s \in room /\ listener = "subscribed"
        BY <1>1, <2>3, RoomParts DEF PublishedElsewhere, PublishToRoom
      <3>2. inCall' = inCall
        BY <2>3 DEF PublishedElsewhere
      <3>3. inCall'[m].targets = {}
        BY <1>4, <3>2
      <3>4. inCall' \in [RoomMessages -> Calls]
        BY <3>2, RoomParts
      <3>5. \A s \in Members : due'[s] # due[s] => OnItsWay(s)
        BY <3>1
      <3> HIDE DEF OnItsWay
      <3>6. QED
        BY <3>1, <3>2, <3>3, <3>4, <3>5
    <2>4. QED
      BY <2>1, <2>2, <2>3
  <1>6. due' \in [Members -> SUBSET RoomMessages]
    BY <1>1, RoomParts DEF BroadcastJson, PublishedElsewhere, PublishToRoom
  <1>7. RoomTypeOK'
    BY <1>1, <1>2, <1>3, <1>5, <1>6, RoomParts DEF RoomTypeOK, ManagerTypeOK, Calls
  <1>8. RoomInOrder'
    BY <1>2, <1>3, <1>5, <1>6, RoomParts DEF RoomInOrder, InDecision
  <1>9. \A s \in Members : Got(s)' = Got(s) /\ m \notin Got(s) /\ m \notin due[s]
    BY <1>1, <1>2, RoomParts DEF OnlyPast, Got
  <1>10. OnlyPast'
    BY <1>1, <1>2, <1>3, <1>5, <1>6, <1>9, RoomParts DEF OnlyPast, InDecision
  <1>11. listening.message # m /\ m \notin Queued
    BY <1>1, RoomParts DEF OnlyPast
  <1>12. ASSUME ~disturbed'
         PROVE  /\ Injective(queue') /\ \A s \in Members : Injective(got'[s])
                /\ \A k \in RoomMessages, s \in Members :
                      /\ InDecision(k)' /\ listener' = "none" => k \notin Got(s)'
                      /\ inCall'[k].targets # {} => k \notin Queued' /\ listening'.message # k
                      /\ s \in inCall'[k].targets => k \notin Got(s)'
                      /\ k \in Queued' => k \notin Got(s)' /\ listening'.message # k
                      /\ s \in listening'.targets => listening'.message \notin Got(s)'
    BY <1>2, <1>3, <1>5, <1>9, <1>11, <1>12, RoomParts DEF OneWay, InDecision
  <1>13. OneWay'
    BY <1>12 DEF OneWay
  <1>14. DueIsUnderWay'
    <2> SUFFICES ASSUME ~disturbed', NEW s \in Members, NEW k \in due'[s]
                 PROVE  \/ k \in Got(s)' \/ k \in Queued'
                        \/ listening'.message = k /\ s \in listening'.targets
                        \/ s \in inCall'[k].targets
                        \/ InDecision(k)' /\ listener' = "none"
      BY DEF DueIsUnderWay
    <2>1. CASE k = m
      <3>1. due'[s] # due[s]
        BY <1>9, <2>1
      <3>2. QED
        BY <1>2, <1>3, <1>5, <2>1, <3>1
    <2>2. CASE k # m
      <3>1. k \in due[s] /\ k \in RoomMessages \ {m}
        BY <1>5, <1>6, <2>2
      <3>2. QED
        BY <1>2, <1>3, <1>5, <1>9, <3>1, RoomParts DEF DueIsUnderWay, InDecision
    <2>3. QED
      BY <2>1, <2>2
  <1>15. QED
    BY <1>7, <1>8, <1>10, <1>13, <1>14 DEF RoomInv

\* What a call that goes on has yet to send.
LEMMA SendingMeans ==
  ASSUME RoomInv, NEW m \in RoomMessages, NEW targets \in SUBSET Members, Sending(m, targets)
  PROVE  /\ inCall' \in [RoomMessages -> Calls] /\ inCall'[m].targets = targets /\ ~InDecision(m)'
         /\ inCall'[m].at = "none" => targets = {}
         /\ \A k \in RoomMessages \ {m} : inCall'[k] = inCall[k]
  BY RoomParts DEF Sending, Calls, InDecision

\* The call sends the message if no listener does, that is, if none has it.
LEMMA RoomDecidesKeeps ==
  ASSUME RoomInv, NEW m \in RoomMessages, Decides(m)
  PROVE  RoomInv'
  <1>1. /\ InDecision(m) /\ inCall[m].targets = {} /\ m \in Past
        /\ UNCHANGED <<room, roomKnown, configured, listener, queue, listening, broadcasts, due,
                      faulty, got, disturbed>>
    BY RoomParts DEF Decides, roomVars, callHistory, InDecision, RoomInOrder, OnlyPast
  <1>2. PICK targets \in SUBSET Members :
          Sending(m, targets) /\ targets = IF listener # "none" THEN {} ELSE room
    BY RoomParts DEF Decides
  <1>3. /\ inCall' \in [RoomMessages -> Calls] /\ inCall'[m].targets = targets /\ ~InDecision(m)'
        /\ inCall'[m].at = "none" => targets = {}
        /\ \A k \in RoomMessages \ {m} : inCall'[k] = inCall[k]
    BY <1>2, SendingMeans
  <1>4. RoomTypeOK'
    BY <1>1, <1>3, RoomParts DEF RoomTypeOK, ManagerTypeOK, Calls
  <1>5. RoomInOrder'
    BY <1>1, <1>3, RoomParts DEF RoomInOrder, Queued, InDecision
  <1>6. OnlyPast'
    BY <1>1, <1>3, RoomParts DEF OnlyPast, Queued, Past, Got, InDecision
  <1>7. targets # {} => listener = "none" /\ Queued = {} /\ listening.message = 0 /\ m # 0
    BY <1>1, <1>2, RoomParts DEF RoomInOrder, NoTargets, Past
  <1>8. ASSUME ~disturbed', NEW k \in RoomMessages, NEW s \in Members
        PROVE  /\ InDecision(k)' /\ listener = "none" => k \notin Got(s)
               /\ inCall'[k].targets # {} => k \notin Queued /\ listening.message # k
               /\ s \in inCall'[k].targets => k \notin Got(s)
    <2>1. CASE k = m
      <3>1. m \notin Got(s) \/ listener # "none"
        BY <1>1, <1>8, RoomParts DEF OneWay
      <3>2. QED
        BY <1>3, <1>7, <2>1, <3>1
    <2>2. CASE k # m
      BY <1>1, <1>3, <1>8, <2>2, RoomParts DEF OneWay, InDecision
    <2>3. QED
      BY <2>1, <2>2
  <1>9. OneWay'
    BY <1>1, <1>8, RoomParts DEF OneWay, Queued, Got
  <1>10. DueIsUnderWay'
    <2> SUFFICES ASSUME ~disturbed', NEW s \in Members, NEW k \in due[s]
                 PROVE  \/ k \in Got(s) \/ k \in Queued
                        \/ listening.message = k /\ s \in listening.targets
                        \/ s \in inCall'[k].targets
                        \/ InDecision(k)' /\ listener = "none"
      BY <1>1 DEF DueIsUnderWay, Queued, Got
    <2>1. /\ s \in room /\ k \in RoomMessages
          /\ \/ k \in Got(s) \/ k \in Queued
             \/ listening.message = k /\ s \in listening.targets
             \/ s \in inCall[k].targets
             \/ InDecision(k) /\ listener = "none"
      BY <1>1, RoomParts DEF DueIsUnderWay, RoomInOrder
    <2>2. CASE k = m
      BY <1>1, <1>2, <1>3, <2>1, <2>2
    <2>3. CASE k # m
      BY <1>3, <2>1, <2>3 DEF InDecision
    <2>4. QED
      BY <2>2, <2>3
  <1>11. QED
    BY <1>4, <1>5, <1>6, <1>9, <1>10 DEF RoomInv

\* A socket gets a message.
LEMMA GetsMeans ==
  ASSUME RoomInv, NEW m \in RoomMessages, NEW s \in Members, Gets(s, m)
  PROVE  /\ got' \in [Members -> Seq(RoomMessages)] /\ Got(s)' = Got(s) \union {m}
         /\ \A t \in Members \ {s} : got'[t] = got[t] /\ Got(t)' = Got(t)
         /\ m \notin Got(s) /\ Injective(got[s]) => Injective(got'[s])
  <1>1. got'[s] = Append(got[s], m) /\ \A t \in Members \ {s} : got'[t] = got[t]
    BY RoomParts DEF Gets
  <1>2. got[s] \in Seq(RoomMessages)
    BY RoomParts
  <1>3. /\ got'[s] \in Seq(RoomMessages) /\ Range(got'[s]) = Range(got[s]) \union {m}
        /\ Injective(got[s]) /\ m \notin Range(got[s]) => Injective(got'[s])
    BY <1>1, <1>2, AppendToRange
  <1>4. got' \in [Members -> Seq(RoomMessages)]
    BY <1>2, AppendToRange, RoomParts DEF Gets
  <1>5. QED
    BY <1>1, <1>3, <1>4 DEF Got

LEMMA SendRaisedMeans ==
  ASSUME RoomInv, SendRaised
  PROVE  faulty' \in 0..MaxSendFaults /\ disturbed' = TRUE
  <1>1. faulty \in 0..MaxSendFaults /\ faulty < MaxSendFaults /\ faulty' = faulty + 1
    BY RoomParts DEF SendRaised, ManagerTypeOK
  <1>2. faulty' \in 0..MaxSendFaults
    BY <1>1, ManagerAssumption
  <1>3. QED
    BY <1>2 DEF SendRaised

LEMMA RoomCallSendsKeeps ==
  ASSUME RoomInv, NEW m \in RoomMessages, CallSends(m)
  PROVE  RoomInv'
  <1>1. UNCHANGED <<room, roomKnown, configured, listener, queue, listening, broadcasts, due>>
    BY DEF CallSends, roomVars, callHistory
  <1>2. PICK s \in inCall[m].targets :
          \/ Gets(s, m) /\ Sending(m, inCall[m].targets \ {s}) /\ UNCHANGED <<faulty, disturbed>>
          \/ SendRaised /\ Sending(m, {}) /\ UNCHANGED got
    BY DEF CallSends
  <1>3. inCall[m].targets \in SUBSET Members /\ s \in Members /\ m \in Past /\ ~InDecision(m)
    BY RoomParts DEF Calls, OnlyPast, RoomInOrder
  <1>4. /\ inCall' \in [RoomMessages -> Calls] /\ inCall'[m].targets \subseteq inCall[m].targets
        /\ ~InDecision(m)' /\ (inCall'[m].at = "none" => inCall'[m].targets = {})
        /\ \A k \in RoomMessages \ {m} : inCall'[k] = inCall[k]
    BY <1>2, <1>3, SendingMeans
  <1>5. /\ got' \in [Members -> Seq(RoomMessages)]
        /\ \A t \in Members : Got(t)' \subseteq Got(t) \union {m}
    BY <1>2, <1>3, GetsMeans, RoomParts DEF Got
  <1>6. RoomTypeOK'
    <2>1. faulty' \in 0..MaxSendFaults /\ disturbed' \in BOOLEAN
      BY <1>2, SendRaisedMeans, RoomParts DEF ManagerTypeOK
    <2>2. QED
      BY <1>1, <1>4, <1>5, <2>1, RoomParts DEF RoomTypeOK, ManagerTypeOK, Calls
  <1>7. RoomInOrder'
    BY <1>1, <1>4, RoomParts DEF RoomInOrder, Queued, InDecision
  <1>8. OnlyPast'
    BY <1>1, <1>3, <1>4, <1>5, RoomParts DEF OnlyPast, Queued, Past, InDecision
  <1>9. ASSUME ~disturbed'
        PROVE  /\ ~disturbed /\ Gets(s, m) /\ inCall'[m].targets = inCall[m].targets \ {s}
               /\ m \notin Got(s) /\ m \notin Queued /\ listening.message # m
    <2>1. ~disturbed /\ Gets(s, m) /\ inCall'[m].targets = inCall[m].targets \ {s}
      BY <1>2, <1>3, <1>9, SendingMeans DEF SendRaised
    <2>2. QED
      BY <1>3, <2>1, RoomParts DEF OneWay
  <1>10. OneWay'
    <2> SUFFICES ASSUME ~disturbed'
                 PROVE  /\ Injective(queue) /\ \A t \in Members : Injective(got'[t])
                        /\ \A k \in RoomMessages, t \in Members :
                              /\ InDecision(k)' /\ listener = "none" => k \notin Got(t)'
                              /\ inCall'[k].targets # {} => k \notin Queued /\ listening.message # k
                              /\ t \in inCall'[k].targets => k \notin Got(t)'
                              /\ k \in Queued => k \notin Got(t)' /\ listening.message # k
                              /\ t \in listening.targets => listening.message \notin Got(t)'
      BY <1>1 DEF OneWay, Queued
    <2>1. Injective(queue) /\ \A t \in Members : Injective(got'[t])
      BY <1>3, <1>9, GetsMeans, RoomParts DEF OneWay
    <2>2. ASSUME NEW k \in RoomMessages, NEW t \in Members
          PROVE  /\ InDecision(k)' /\ listener = "none" => k \notin Got(t)'
                 /\ inCall'[k].targets # {} => k \notin Queued /\ listening.message # k
                 /\ t \in inCall'[k].targets => k \notin Got(t)'
                 /\ k \in Queued => k \notin Got(t)' /\ listening.message # k
                 /\ t \in listening.targets => listening.message \notin Got(t)'
      <3>1. Got(t)' = IF t = s THEN Got(t) \union {m} ELSE Got(t)
        BY <1>3, <1>9, GetsMeans
      <3>2. k # m => inCall'[k] = inCall[k] /\ (InDecision(k)' <=> InDecision(k))
        BY <1>4 DEF InDecision
      <3>3. /\ InDecision(k) /\ listener = "none" => k \notin Got(t)
            /\ inCall[k].targets # {} => k \notin Queued /\ listening.message # k
            /\ t \in inCall[k].targets => k \notin Got(t)
            /\ k \in Queued => k \notin Got(t) /\ listening.message # k
            /\ t \in listening.targets => listening.message \notin Got(t)
        BY <1>9, RoomParts DEF OneWay
      <3>4. QED
        BY <1>4, <1>9, <3>1, <3>2, <3>3
    <2>3. QED
      BY <2>1, <2>2
  <1>11. DueIsUnderWay'
    <2> SUFFICES ASSUME ~disturbed', NEW t \in Members, NEW k \in due[t]
                 PROVE  \/ k \in Got(t)' \/ k \in Queued
                        \/ listening.message = k /\ t \in listening.targets
                        \/ t \in inCall'[k].targets
                        \/ InDecision(k)' /\ listener = "none"
      BY <1>1 DEF DueIsUnderWay, Queued
    <2>1. /\ k \in RoomMessages
          /\ \/ k \in Got(t) \/ k \in Queued
             \/ listening.message = k /\ t \in listening.targets
             \/ t \in inCall[k].targets
             \/ InDecision(k) /\ listener = "none"
      BY <1>9, RoomParts DEF DueIsUnderWay
    <2>2. Got(t)' = IF t = s THEN Got(t) \union {m} ELSE Got(t)
      BY <1>3, <1>9, GetsMeans
    <2>3. k # m => inCall'[k] = inCall[k] /\ (InDecision(k)' <=> InDecision(k))
      BY <1>4, <2>1 DEF InDecision
    <2>4. QED
      BY <1>3, <1>9, <2>1, <2>2, <2>3
  <1>12. QED
    BY <1>6, <1>7, <1>8, <1>10, <1>11 DEF RoomInv

\* The listener takes the first message of its queue and sends it to those who are
\* there then; nobody else has it.
LEMMA RoomTakesKeeps ==
  ASSUME RoomInv, ListenerTakes
  PROVE  RoomInv'
  <1>0. PICK m : m = Head(queue)
    OBVIOUS
  <1>1. /\ listener = "subscribed" /\ listening = NoTargets /\ queue # <<>> /\ queue' = Tail(queue)
        /\ listening' = IF room = {} THEN NoTargets ELSE [message |-> m, targets |-> room]
        /\ UNCHANGED <<room, roomKnown, configured, listener, inCall, broadcasts, due, faulty, got, disturbed>>
    BY <1>0 DEF ListenerTakes, roomVars, callHistory
  <1>2. /\ m \in RoomMessages /\ m \in Queued /\ queue' \in Seq(RoomMessages)
        /\ Queued = Queued' \union {m}
        /\ Injective(queue) => Injective(queue') /\ m \notin Queued'
    BY <1>0, <1>1, TailOfRange, RoomParts DEF Queued
  <1>3. m \in Past /\ m # 0
    BY <1>2, RoomParts DEF OnlyPast, Past
  <1>4. /\ listening'.targets = room
        /\ room # {} => listening'.message = m
        /\ room = {} => listening'.message = 0
    BY <1>1 DEF NoTargets
  <1>5. RoomTypeOK'
    <2>1. listening' \in [message : 0..MaxPublished, targets : SUBSET Members]
      <3>1. m \in 0..MaxPublished /\ 0 \in 0..MaxPublished
        BY <1>2, ManagerAssumption DEF RoomMessages
      <3>2. QED
        BY <1>1, <3>1, RoomParts DEF NoTargets
    <2>2. QED
      BY <1>1, <1>2, <1>4, <2>1, RoomParts DEF RoomTypeOK, ManagerTypeOK
  <1>6. RoomInOrder'
    BY <1>1, RoomParts DEF RoomInOrder, InDecision
  <1>7. OnlyPast'
    BY <1>1, <1>2, <1>3, <1>4, RoomParts DEF OnlyPast, Past, Got, InDecision
  <1>8. OneWay'
    <2> SUFFICES ASSUME ~disturbed
                 PROVE  /\ Injective(queue') /\ \A t \in Members : Injective(got[t])
                        /\ \A k \in RoomMessages, t \in Members :
                              /\ InDecision(k) /\ listener = "none" => k \notin Got(t)
                              /\ inCall[k].targets # {} => k \notin Queued' /\ listening'.message # k
                              /\ t \in inCall[k].targets => k \notin Got(t)
                              /\ k \in Queued' => k \notin Got(t) /\ listening'.message # k
                              /\ t \in listening'.targets => listening'.message \notin Got(t)
      BY <1>1 DEF OneWay, InDecision, Got
    <2>1. Injective(queue') /\ m \notin Queued' /\ \A t \in Members : Injective(got[t])
      BY <1>2, RoomParts DEF OneWay
    <2>2. \A k \in RoomMessages : k # 0
      BY DEF RoomMessages
    <2>3. \A k \in RoomMessages, t \in Members :
            /\ InDecision(k) /\ listener = "none" => k \notin Got(t)
            /\ inCall[k].targets # {} => k \notin Queued
            /\ t \in inCall[k].targets => k \notin Got(t)
            /\ k \in Queued => k \notin Got(t)
      BY RoomParts DEF OneWay
    <2>4. QED
      BY <1>2, <1>4, <2>1, <2>2, <2>3
  <1>9. DueIsUnderWay'
    <2> SUFFICES ASSUME ~disturbed, NEW t \in Members, NEW k \in due[t]
                 PROVE  \/ k \in Got(t) \/ k \in Queued'
                        \/ listening'.message = k /\ t \in listening'.targets
                        \/ t \in inCall[k].targets
                        \/ InDecision(k) /\ listener = "none"
      BY <1>1 DEF DueIsUnderWay, Got, InDecision
    <2>1. /\ t \in room /\ listening.targets = {}
          /\ \/ k \in Got(t) \/ k \in Queued
             \/ listening.message = k /\ t \in listening.targets
             \/ t \in inCall[k].targets
             \/ InDecision(k) /\ listener = "none"
      BY <1>1, RoomParts DEF DueIsUnderWay, RoomInOrder, NoTargets
    <2>2. QED
      BY <1>2, <1>4, <2>1
  <1>10. QED
    BY <1>5, <1>6, <1>7, <1>8, <1>9 DEF RoomInv

LEMMA RoomListenerSendsKeeps ==
  ASSUME RoomInv, ListenerSends
  PROVE  RoomInv'
  <1>0. PICK m : m = listening.message
    OBVIOUS
  <1>1. PICK s \in listening.targets :
          \/ /\ Gets(s, m)
             /\ listening' = IF listening.targets = {s} THEN NoTargets
                             ELSE [listening EXCEPT !.targets = @ \ {s}]
             /\ UNCHANGED <<listener, queue, faulty, disturbed>>
          \/ /\ SendRaised
             /\ listener' = "dead" /\ queue' = <<>> /\ listening' = NoTargets
             /\ UNCHANGED got
    BY <1>0 DEF ListenerSends
  <1>2. UNCHANGED <<room, roomKnown, configured, inCall, broadcasts, due>>
    BY DEF ListenerSends, roomVars, callHistory
  <1>3. /\ s \in Members /\ m \in Past /\ m \in RoomMessages /\ m # 0 /\ listener = "subscribed"
        /\ 0 \notin RoomMessages
    BY <1>0, RoomParts DEF OnlyPast, RoomInOrder, NoTargets, Past, RoomMessages
  <1>4. /\ listening'.targets = listening.targets \ {s} \/ listening' = NoTargets
        /\ listening'.message = m \/ listening' = NoTargets
        /\ listening' \in [message : 0..MaxPublished, targets : SUBSET Members]
    BY <1>0, <1>1, RoomParts, ManagerAssumption DEF NoTargets
  <1>5. NoTargets.message = 0 /\ NoTargets.targets = {}
    BY DEF NoTargets
  <1>6. got' \in [Members -> Seq(RoomMessages)] /\ \A t \in Members : Got(t)' \subseteq Got(t) \union {m}
    BY <1>1, <1>3, GetsMeans, RoomParts DEF Got
  <1>7. queue' \in Seq(RoomMessages) /\ Queued' \subseteq Queued
    <2>1. CASE queue' = queue
      BY <2>1, RoomParts DEF Queued
    <2>2. CASE queue' = <<>>
      <3>1. DOMAIN queue' = {}
        BY <2>2
      <3>2. QED
        BY <2>2, <3>1 DEF Queued, Range
    <2>3. QED
      BY <1>1, <2>1, <2>2
  <1>8. RoomTypeOK'
    <2>1. /\ faulty' \in 0..MaxSendFaults /\ disturbed' \in BOOLEAN
          /\ listener' \in {"none", "created", "subscribed", "dead"}
      BY <1>1, SendRaisedMeans, RoomParts DEF ManagerTypeOK
    <2>2. QED
      BY <1>2, <1>4, <1>6, <1>7, <2>1, RoomParts DEF RoomTypeOK, ManagerTypeOK
  <1>9. RoomInOrder'
    <2>1. listener' = "subscribed" \/ (Queued' = {} /\ listening' = NoTargets /\ listener' # "none")
      BY <1>1, <1>3 DEF Queued, Range
    <2>2. configured
      BY <1>3, RoomParts DEF RoomInOrder
    <2>3. QED
      BY <1>2, <2>1, <2>2, RoomParts DEF RoomInOrder, InDecision
  <1>10. OnlyPast'
    BY <1>0, <1>2, <1>3, <1>4, <1>5, <1>6, <1>7, RoomParts DEF OnlyPast, Past, InDecision
  <1>11. ASSUME ~disturbed'
         PROVE  /\ ~disturbed /\ Gets(s, m) /\ UNCHANGED <<listener, queue>>
                /\ \/ listening.targets = {s} /\ listening' = NoTargets
                   \/ listening'.message = m /\ listening'.targets = listening.targets \ {s}
                /\ m \notin Got(s) /\ m \notin Queued /\ inCall[m].targets = {}
    <2>1. /\ ~disturbed /\ Gets(s, m) /\ UNCHANGED <<listener, queue>>
          /\ listening' = IF listening.targets = {s} THEN NoTargets
                          ELSE [listening EXCEPT !.targets = @ \ {s}]
      BY <1>1, <1>11 DEF SendRaised
    <2>2. m \notin Got(s) /\ m \notin Queued /\ inCall[m].targets = {}
      BY <1>0, <1>3, <2>1, RoomParts DEF OneWay
    <2>3. QED
      BY <1>0, <2>1, <2>2, RoomParts
  <1>12. ASSUME ~disturbed', NEW t \in Members
         PROVE  Got(t)' = IF t = s THEN Got(t) \union {m} ELSE Got(t)
    BY <1>3, <1>11, <1>12, GetsMeans
  <1>13. OneWay'
    <2> SUFFICES ASSUME ~disturbed'
                 PROVE  /\ Injective(queue) /\ \A t \in Members : Injective(got'[t])
                        /\ \A k \in RoomMessages, t \in Members :
                              /\ InDecision(k) /\ listener = "none" => k \notin Got(t)'
                              /\ inCall[k].targets # {} => k \notin Queued /\ listening'.message # k
                              /\ t \in inCall[k].targets => k \notin Got(t)'
                              /\ k \in Queued => k \notin Got(t)' /\ listening'.message # k
                              /\ t \in listening'.targets => listening'.message \notin Got(t)'
      BY <1>2, <1>11 DEF OneWay, Queued, InDecision
    <2>1. Injective(queue) /\ \A t \in Members : Injective(got'[t])
      BY <1>3, <1>11, GetsMeans, RoomParts DEF OneWay
    <2>2. ASSUME NEW k \in RoomMessages, NEW t \in Members
          PROVE  /\ inCall[k].targets # {} => k \notin Queued /\ listening.message # k
                 /\ t \in inCall[k].targets => k \notin Got(t)
                 /\ k \in Queued => k \notin Got(t) /\ listening.message # k
                 /\ t \in listening.targets => listening.message \notin Got(t)
      BY <1>11, RoomParts DEF OneWay
    <2>3. QED
      BY <1>0, <1>3, <1>5, <1>11, <1>12, <2>1, <2>2
  <1>14. DueIsUnderWay'
    <2> SUFFICES ASSUME ~disturbed', NEW t \in Members, NEW k \in due[t]
                 PROVE  \/ k \in Got(t)' \/ k \in Queued
                        \/ listening'.message = k /\ t \in listening'.targets
                        \/ t \in inCall[k].targets
                        \/ InDecision(k) /\ listener = "none"
      BY <1>2, <1>11 DEF DueIsUnderWay, Queued, InDecision
    <2>1. \/ k \in Got(t) \/ k \in Queued
          \/ listening.message = k /\ t \in listening.targets
          \/ t \in inCall[k].targets
          \/ InDecision(k) /\ listener = "none"
      BY <1>11, RoomParts DEF DueIsUnderWay
    <2>2. QED
      BY <1>0, <1>11, <1>12, <2>1
  <1>15. QED
    BY <1>8, <1>9, <1>10, <1>13, <1>14 DEF RoomInv

LEMMA RoomStarts == ManagerInit => RoomInv
  <1> SUFFICES ASSUME ManagerInit PROVE RoomInv
    OBVIOUS
  <1>1. /\ room = {} /\ listener = "none" /\ queue = <<>> /\ listening = NoTargets /\ broadcasts = 0
        /\ faulty = 0 /\ roomKnown = FALSE /\ configured = FALSE /\ disturbed = FALSE
        /\ \A s \in Members : got[s] = <<>> /\ due[s] = {}
        /\ \A m \in RoomMessages : inCall[m].at = "none" /\ inCall[m].targets = {}
    BY DEF ManagerInit
  <1>2. Queued = {} /\ NoTargets.targets = {} /\ NoTargets.message = 0 /\ \A s \in Members : Got(s) = {}
    BY <1>1 DEF Queued, Got, Range, NoTargets
  <1>3. RoomTypeOK
    <2>1. /\ got \in [Members -> Seq(RoomMessages)] /\ due \in [Members -> SUBSET RoomMessages]
          /\ queue \in Seq(RoomMessages) /\ inCall \in [RoomMessages -> Calls]
          /\ listener \in {"none", "created", "subscribed", "dead"}
      BY DEF ManagerInit, Calls
    <2>2. roomKnown \in BOOLEAN /\ configured \in BOOLEAN /\ disturbed \in BOOLEAN
      BY <1>1
    <2>3. broadcasts \in 0..MaxPublished /\ faulty \in 0..MaxSendFaults /\ 0 \in 0..MaxPublished
      BY <1>1, ManagerAssumption
    <2>4. listening \in [message : 0..MaxPublished, targets : SUBSET Members]
      BY <1>1, <2>3 DEF NoTargets
    <2>5. QED
      BY <1>1, <1>2, <2>1, <2>2, <2>3, <2>4 DEF RoomTypeOK, ManagerTypeOK, Calls
  <1>4. RoomInOrder /\ OnlyPast
    BY <1>1, <1>2 DEF RoomInOrder, OnlyPast, InDecision
  <1>5. OneWay /\ DueIsUnderWay
    <2>1. Injective(queue) /\ \A s \in Members : Injective(got[s])
      BY <1>1 DEF Injective
    <2>2. QED
      BY <1>1, <1>2, <2>1 DEF OneWay, DueIsUnderWay, InDecision
  <1>6. QED
    BY <1>3, <1>4, <1>5 DEF RoomInv

LEMMA AlwaysRoomInv == ManagerSpec => []RoomInv
  <1>1. RoomInv /\ [ManagerNext]_socketManagerVars => RoomInv'
    BY RoomQuietStepsKeep, RoomCloseKeeps, RoomPublishKeeps, RoomDecidesKeeps, RoomCallSendsKeeps,
       RoomTakesKeeps, RoomListenerSendsKeeps
    DEF ManagerNext
  <1>2. QED
    BY RoomStarts, <1>1, PTL DEF ManagerSpec

\* The room, the listener, the calls and what was sent keep their types.
THEOREM RoomTypeCorrect == ManagerSpec => []ManagerTypeOK
  <1>1. RoomInv => ManagerTypeOK
    BY DEF RoomInv, RoomTypeOK
  <1>2. QED
    BY AlwaysRoomInv, <1>1, PTL

\* Until a send raises or the listener comes or goes in between, a socket gets no
\* message twice, by the call and by the listener, and when nothing is under way it
\* has got everything that was due to it.
THEOREM RoomsHearOnce == ManagerSpec => []RoomHearsOnce
  <1>1. RoomInv => RoomHearsOnce
    <2> SUFFICES ASSUME RoomInv, ~disturbed, NEW s \in Members
                 PROVE  /\ \A m \in RoomMessages : Cardinality({i \in DOMAIN got[s] : got[s][i] = m}) <= 1
                        /\ Quiet => due[s] \subseteq Range(got[s])
      BY DEF RoomHearsOnce
    <2>1. ASSUME NEW m \in RoomMessages
          PROVE  Cardinality({i \in DOMAIN got[s] : got[s][i] = m}) <= 1
      <3> DEFINE I == {i \in DOMAIN got[s] : got[s][i] = m}
      <3>1. \A i, k \in I : i = k
        BY RoomParts DEF OneWay, Injective
      <3>2. I = {} \/ \E i \in I : I = {i}
        BY <3>1
      <3>3. Cardinality(I) = 0 \/ Cardinality(I) = 1
        BY <3>2, FS_EmptySet, FS_Singleton
      <3>4. QED
        BY <3>3
    <2>2. ASSUME Quiet PROVE due[s] \subseteq Range(got[s])
      <3>1. listening.targets = {} /\ Queued = {}
        BY <2>2 DEF Quiet, NoTargets, Queued, Range
      <3>2. \A m \in RoomMessages : ~InDecision(m) /\ inCall[m].targets = {}
        BY <2>2, RoomParts DEF Quiet, InDecision, RoomInOrder
      <3>3. QED
        BY <3>1, <3>2, RoomParts DEF DueIsUnderWay, Got
    <2>3. QED
      BY <2>1, <2>2
  <1>2. QED
    BY AlwaysRoomInv, <1>1, PTL
=============================================================================
