------------------------------ MODULE Broadcast ------------------------------
(***************************************************************************)
(* One channel of flaxon's BroadcastManager over a MemoryBroadcaster       *)
(* (websocket/broadcaster.py): the sockets registered for the channel, and *)
(* the listener tasks that read the channel's messages, each from a queue  *)
(* of its own, and send them to the sockets one after the other.           *)
(*                                                                         *)
(* The manager starts a listener when it adds the channel to its table and *)
(* keeps no track of it: a listener ends by itself, at the first message   *)
(* for which it finds nobody registered.  The locks are never held across  *)
(* a suspension, so that each call is one action and only the sends, the   *)
(* wait for a message and the start of a task separate two of them.        *)
(***************************************************************************)
EXTENDS Integers, Sequences, FiniteSets

CONSTANTS Sockets,      \* the WebSocket connections
          MaxListeners, \* bound: listener tasks started in a behaviour
          MaxMessages,  \* bound: messages published
          MaxFaults     \* bound: sends that raise

ASSUME BroadcastAssumption ==
    /\ IsFiniteSet(Sockets)
    /\ MaxListeners \in Nat /\ MaxMessages \in Nat /\ MaxFaults \in Nat

VARIABLES
    known,     \* the channel is a key of _connections
    sockets,   \* and its value
    pc,        \* of each listener
    inbox,     \* the queue of each listener's subscription
    todo,      \* the sockets a listener has still to send its message to
    failed,    \* those whose send raised
    message,   \* the message it is sending
    published, \* how many messages were published; they are numbered
    faults,
    heard,     \* history: the messages each socket was sent
    owed,      \* history: the messages published, with a listener subscribed,
               \* since each socket registered
    emptied,   \* history: a listener dropped the last socket of the channel
    doubled    \* history: a listener was started beside another one

managerVars == <<known, sockets>>
listenerVars == <<pc, inbox, todo, failed, message>>
historyVars == <<heard, owed, emptied, doubled>>
vars == <<managerVars, listenerVars, published, faults, historyVars>>

Listeners == 1..MaxListeners
Messages == 1..MaxMessages

TypeOK ==
    /\ known \in BOOLEAN
    /\ sockets \subseteq Sockets
    /\ pc \in [Listeners -> {"unborn", "starting", "waiting", "sending", "ended"}]
    /\ inbox \in [Listeners -> Seq(Messages)]
    /\ todo \in [Listeners -> SUBSET Sockets]
    /\ failed \in [Listeners -> SUBSET Sockets]
    /\ message \in [Listeners -> 0..MaxMessages]
    /\ published \in 0..MaxMessages
    /\ faults \in 0..MaxFaults
    /\ heard \in [Sockets -> Seq(Messages)]
    /\ owed \in [Sockets -> SUBSET Messages]
    /\ emptied \in BOOLEAN /\ doubled \in BOOLEAN

Init ==
    /\ known = FALSE /\ sockets = {}
    /\ pc = [l \in Listeners |-> "unborn"]
    /\ inbox = [l \in Listeners |-> <<>>]
    /\ todo = [l \in Listeners |-> {}]
    /\ failed = [l \in Listeners |-> {}]
    /\ message = [l \in Listeners |-> 0]
    /\ published = 0 /\ faults = 0
    /\ heard = [s \in Sockets |-> <<>>]
    /\ owed = [s \in Sockets |-> {}]
    /\ emptied = FALSE /\ doubled = FALSE

Subscribed == {l \in Listeners : pc[l] \in {"waiting", "sending"}}
Alive == {l \in Listeners : pc[l] = "starting"} \union Subscribed

-----------------------------------------------------------------------------
\* create_task: the listener subscribes when the event loop gets to it.
StartsListener(l) ==
    /\ pc[l] = "unborn"
    /\ pc' = [pc EXCEPT ![l] = "starting"]
    /\ doubled' = (doubled \/ Alive # {})

\* register(): a listener is started with the channel, and only then.
Register(s) ==
    /\ s \notin sockets
    /\ sockets' = sockets \union {s}
    /\ known' = TRUE
    /\ IF known THEN UNCHANGED <<pc, doubled>>
       ELSE \E l \in Listeners : StartsListener(l) /\ \A k \in 1..l-1 : pc[k] # "unborn"
    /\ UNCHANGED <<inbox, todo, failed, message, published, faults, heard, owed, emptied>>

\* The socket is owed nothing any more.
Leave(S) == owed' = [s \in Sockets |-> IF s \in S THEN {} ELSE owed[s]]

\* Mutant of Unregister: the empty channel is kept.
UnregisterKeepsChannel(s) ==
    /\ known
    /\ s \in sockets \/ sockets = {}
    /\ sockets' = sockets \ {s}
    /\ Leave({s})
    /\ UNCHANGED <<known, listenerVars, published, faults, heard, emptied, doubled>>

\* unregister() drops an empty channel, whoever emptied it.
Unregister(s) ==
    /\ known
    /\ s \in sockets \/ sockets = {}
    /\ sockets' = sockets \ {s}
    /\ known' = (sockets' # {})
    /\ Leave({s})
    /\ UNCHANGED <<listenerVars, published, faults, heard, emptied, doubled>>

\* broadcast(): the message goes into the queues of the subscribed listeners.
Publish ==
    /\ published < MaxMessages
    /\ published' = published + 1
    /\ inbox' = [l \in Listeners |->
                    IF l \in Subscribed THEN Append(inbox[l], published') ELSE inbox[l]]
    /\ owed' = [s \in Sockets |->
                   IF s \in sockets /\ Subscribed # {} THEN owed[s] \union {published'} ELSE owed[s]]
    /\ UNCHANGED <<managerVars, pc, todo, failed, message, faults, heard, emptied, doubled>>

-----------------------------------------------------------------------------
(* A listener *)

Subscribe(l) ==
    /\ pc[l] = "starting"
    /\ pc' = [pc EXCEPT ![l] = "waiting"]
    /\ UNCHANGED <<managerVars, inbox, todo, failed, message, published, faults, historyVars>>

\* The next message: it will be sent to those registered now.  Without any the
\* listener ends, and its subscription with it.
Receive(l) ==
    /\ pc[l] = "waiting" /\ inbox[l] # <<>>
    /\ inbox' = [inbox EXCEPT ![l] = IF sockets = {} THEN <<>> ELSE Tail(@)]
    /\ message' = [message EXCEPT ![l] = IF sockets = {} THEN 0 ELSE Head(inbox[l])]
    /\ todo' = [todo EXCEPT ![l] = sockets]
    /\ pc' = [pc EXCEPT ![l] = IF sockets = {} THEN "ended" ELSE "sending"]
    /\ UNCHANGED <<managerVars, failed, published, faults, historyVars>>

\* Mutant of Finishes: a failed send is the listener's failure too.
FinishesFailed(l, dropped) ==
    /\ sockets' = sockets \ dropped
    /\ Leave(sockets \intersect dropped)
    /\ emptied' = (emptied \/ (sockets # {} /\ sockets' = {}))
    /\ failed' = [failed EXCEPT ![l] = {}]
    /\ message' = [message EXCEPT ![l] = 0]
    /\ pc' = [pc EXCEPT ![l] = IF dropped = {} THEN "waiting" ELSE "failed"]

\* After the last send the sockets that failed are dropped, not the channel.
Finishes(l, dropped) ==
    /\ sockets' = sockets \ dropped
    /\ Leave(sockets \intersect dropped)
    /\ emptied' = (emptied \/ (sockets # {} /\ sockets' = {}))
    /\ failed' = [failed EXCEPT ![l] = {}]
    /\ message' = [message EXCEPT ![l] = 0]
    /\ pc' = [pc EXCEPT ![l] = "waiting"]

\* Mutant of SendEnds: the first failure ends the loop over the sockets.
SendEndsTheLoop(l, s, nowFailed) ==
    /\ pc[l] = "sending" /\ s \in todo[l]
    /\ IF nowFailed # {} \/ todo[l] = {s}
       THEN /\ todo' = [todo EXCEPT ![l] = {}]
            /\ Finishes(l, nowFailed)
       ELSE /\ todo' = [todo EXCEPT ![l] = @ \ {s}]
            /\ UNCHANGED <<sockets, failed, pc, message, owed, emptied>>
    /\ UNCHANGED <<known, inbox, published, doubled>>

SendEnds(l, s, nowFailed) ==
    /\ pc[l] = "sending" /\ s \in todo[l]
    /\ todo' = [todo EXCEPT ![l] = @ \ {s}]
    /\ IF todo[l] = {s} THEN Finishes(l, nowFailed)
       ELSE /\ failed' = [failed EXCEPT ![l] = nowFailed]
            /\ UNCHANGED <<sockets, pc, message, owed, emptied>>
    /\ UNCHANGED <<known, inbox, published, doubled>>

Send(l, s) ==
    /\ SendEnds(l, s, failed[l])
    /\ heard' = [heard EXCEPT ![s] = Append(@, message[l])]
    /\ UNCHANGED faults

SendRaises(l, s) ==
    /\ faults < MaxFaults
    /\ faults' = faults + 1
    /\ SendEnds(l, s, failed[l] \union {s})
    /\ UNCHANGED heard

-----------------------------------------------------------------------------
Listen(l) ==
    \/ Subscribe(l)
    \/ Receive(l)
    \/ \E s \in Sockets : Send(l, s) \/ SendRaises(l, s)

Next ==
    \/ \E s \in Sockets : Register(s) \/ Unregister(s)
    \/ Publish
    \/ \E l \in Listeners : Listen(l)

Spec == Init /\ [][Next]_vars

\* The event loop runs every listener, and a send returns or raises.
FairSpec == Spec /\ \A l \in Listeners : WF_vars(Listen(l))

-----------------------------------------------------------------------------
\* As long as no listener was started beside a living one, a socket is sent
\* every message at most once and in the order of publication, whichever
\* listeners come and go and whenever the socket leaves and comes back.
OnceInOrder ==
    ~doubled => \A s \in Sockets : \A i, k \in DOMAIN heard[s] : i < k => heard[s][i] < heard[s][k]

\* As long as no listener dropped the channel's last socket, whoever registers
\* has a listener: none ends between a register() that relies on it and the
\* messages to come.
HeardUnlessEmptied == ~emptied /\ sockets # {} => Alive # {}

\* Registered sockets have a listener, and hear messages once and in order.
SocketsAreServed == OnceInOrder /\ HeardUnlessEmptied

\* The sockets a message was published for that have neither got it nor left.
Waiting(m) == {s \in Sockets : m \in owed[s] /\ \A i \in DOMAIN heard[s] : heard[s][i] # m}

\* A message published when a listener was subscribed is sent to every socket
\* that was registered then and stays, through the failures of others.
Delivered == \A m \in Messages : Waiting(m) # {} ~> Waiting(m) = {}

\* Whoever is registered to receive broadcasts has a listener.
RegisteredIsHeard == sockets # {} => Alive # {}
=============================================================================
