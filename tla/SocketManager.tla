---------------------------- MODULE SocketManager -----------------------------
(***************************************************************************)
(* WebSocketManager (websocket/manager.py) of one worker process, for one  *)
(* room: its members, broadcasts to them, and the listener that brings     *)
(* what is published to the room here or in other workers.  The pub/sub    *)
(* backend is external: it gives a message to whoever is subscribed by     *)
(* then, in order.                                                         *)
(*                                                                         *)
(* A broadcast is published first; then, when the answer is there, it is   *)
(* left to the listener if the room has one, and sent to the members if    *)
(* not.  Both send to one socket after the other, and what one send raises *)
(* ends them.                                                              *)
(***************************************************************************)
EXTENDS Naturals, Sequences, FiniteSets, SequencesExt

CONSTANTS Members,      \* the sockets that may join the room
          MaxPublished, \* bound: messages
          MaxSendFaults \* bound: sends that raise

ASSUME ManagerAssumption == IsFiniteSet(Members) /\ MaxPublished \in Nat /\ MaxSendFaults \in Nat

VARIABLES
    room,       \* rooms[room]
    roomKnown,  \* whether the room is a key of rooms
    configured, \* whether there is a broadcaster
    listener,   \* where the room's listener is, "none" if it is not in _listeners
    queue,      \* what its subscription holds
    listening,  \* the message it sends, and the members it has yet to send it to
    inCall,     \* the calls of broadcast_json(), by message
    broadcasts,  \* messages so far
    faulty,     \* sends that raised
    got,        \* history: what each socket was sent
    due,        \* history: messages for a socket that has been a member since
    disturbed   \* history: a send raised, or the listener came or went in between

socketManagerVars ==
    <<room, roomKnown, configured, listener, queue, listening, inCall, broadcasts,
     faulty, got, due, disturbed>>
roomVars == <<room, roomKnown>>
callHistory == <<broadcasts, due>>

RoomMessages == 1..MaxPublished
NoTargets == [message |-> 0, targets |-> {}]

ManagerTypeOK ==
    /\ room \subseteq Members /\ roomKnown \in BOOLEAN /\ configured \in BOOLEAN
    /\ listener \in {"none", "created", "subscribed", "dead"}
    /\ queue \in Seq(RoomMessages) /\ listening.targets \subseteq Members
    /\ \A m \in RoomMessages : /\ inCall[m].at \in {"none", "published", "sending"}
                               /\ inCall[m].targets \subseteq Members
    /\ broadcasts \in 0..MaxPublished /\ faulty \in 0..MaxSendFaults
    /\ got \in [Members -> Seq(RoomMessages)] /\ due \in [Members -> SUBSET RoomMessages]
    /\ disturbed \in BOOLEAN

ManagerInit ==
    /\ room = {} /\ roomKnown = FALSE /\ configured = FALSE
    /\ listener = "none" /\ queue = <<>> /\ listening = NoTargets
    /\ inCall = [m \in RoomMessages |-> [at |-> "none", targets |-> {}]]
    /\ broadcasts = 0 /\ faulty = 0
    /\ got = [s \in Members |-> <<>>] /\ due = [s \in Members |-> {}]
    /\ disturbed = FALSE

-----------------------------------------------------------------------------
JoinRoom(s) ==
    /\ s \notin room
    /\ room' = room \union {s} /\ roomKnown' = TRUE
    /\ UNCHANGED <<configured, listener, queue, listening, inCall, broadcasts, faulty, got, due, disturbed>>

\* leave() and disconnect()
LeaveRoom(s) ==
    /\ s \in room
    /\ room' = room \ {s} /\ due' = [due EXCEPT ![s] = {}]
    /\ UNCHANGED <<roomKnown, configured, listener, queue, listening, inCall, broadcasts, faulty, got, disturbed>>

Undecided == \E m \in RoomMessages : inCall[m].at = "published"

\* configure_broadcaster(): rooms that are named, or all rooms known by now, get
\* a listener if they have none.
Configure(named) ==
    /\ configured' = TRUE
    /\ \/ /\ listener = "none" /\ (named \/ roomKnown)
          /\ listener' = "created" /\ disturbed' = (disturbed \/ Undecided)
       \/ /\ ~(listener = "none" /\ (named \/ roomKnown))
          /\ UNCHANGED <<listener, disturbed>>
    /\ UNCHANGED <<roomVars, queue, listening, inCall, callHistory, faulty, got>>

\* close_broadcaster()
CloseBroadcaster ==
    /\ listener # "none"
    /\ listener' = "none" /\ queue' = <<>> /\ listening' = NoTargets
    /\ disturbed' = (disturbed \/ Undecided \/ queue # <<>> \/ listening # NoTargets)
    /\ UNCHANGED <<roomVars, configured, inCall, callHistory, faulty, got>>

\* The listener's task has come to subscribe.
SubscribeRoom ==
    /\ listener = "created" /\ listener' = "subscribed"
    /\ UNCHANGED <<roomVars, configured, queue, listening, inCall, callHistory, faulty, got, disturbed>>

-----------------------------------------------------------------------------
\* A message is published: it is due to the members if `reaches`.
PublishToRoom(reaches) ==
    /\ broadcasts < MaxPublished /\ broadcasts' = broadcasts + 1
    /\ queue' = IF listener = "subscribed" THEN Append(queue, broadcasts') ELSE queue
    /\ due' = IF reaches THEN [s \in Members |-> IF s \in room THEN due[s] \union {broadcasts'} ELSE due[s]]
              ELSE due

Sending(m, targets) ==
    inCall' = [inCall EXCEPT ![m] = IF targets = {} THEN [at |-> "none", targets |-> {}]
                                  ELSE [at |-> "sending", targets |-> targets]]

\* broadcast_json(): it is published, or without a broadcaster sent at once.
BroadcastJson ==
    /\ PublishToRoom(configured => listener \in {"none", "subscribed"})
    /\ IF configured THEN inCall' = [inCall EXCEPT ![broadcasts'].at = "published"]
       ELSE Sending(broadcasts', room)
    /\ UNCHANGED <<roomVars, configured, listener, listening, faulty, got, disturbed>>

\* Another worker's broadcast.
PublishedElsewhere ==
    /\ PublishToRoom(listener = "subscribed")
    /\ UNCHANGED <<roomVars, configured, listener, listening, inCall, faulty, got, disturbed>>

\* Mutant of Decides: the members are sent the message, listener or not.
DecidesToSend(m) ==
    /\ inCall[m].at = "published"
    /\ Sending(m, room)
    /\ UNCHANGED <<roomVars, configured, listener, queue, listening, callHistory, faulty, got, disturbed>>

\* The message is published: a listener will send it, or the call does.
Decides(m) ==
    /\ inCall[m].at = "published"
    /\ Sending(m, IF listener # "none" THEN {} ELSE room)
    /\ UNCHANGED <<roomVars, configured, listener, queue, listening, callHistory, faulty, got, disturbed>>

Gets(s, m) == got' = [got EXCEPT ![s] = Append(@, m)]
SendRaised == faulty < MaxSendFaults /\ faulty' = faulty + 1 /\ disturbed' = TRUE

\* The call's next send ends; one that raises ends the call.
CallSends(m) ==
    /\ \E s \in inCall[m].targets :
          \/ Gets(s, m) /\ Sending(m, inCall[m].targets \ {s}) /\ UNCHANGED <<faulty, disturbed>>
          \/ SendRaised /\ Sending(m, {}) /\ UNCHANGED got
    /\ UNCHANGED <<roomVars, configured, listener, queue, listening, callHistory>>

\* The listener takes the next message and looks who is there.
ListenerTakes ==
    /\ listener = "subscribed" /\ listening = NoTargets /\ queue # <<>>
    /\ queue' = Tail(queue)
    /\ listening' = IF room = {} THEN NoTargets ELSE [message |-> Head(queue), targets |-> room]
    /\ UNCHANGED <<roomVars, configured, listener, inCall, callHistory, faulty, got, disturbed>>

\* Its next send ends; one that raises ends the listener, which stays in
\* _listeners.
ListenerSends ==
    /\ \E s \in listening.targets :
          \/ /\ Gets(s, listening.message)
             /\ listening' = IF listening.targets = {s} THEN NoTargets
                             ELSE [listening EXCEPT !.targets = @ \ {s}]
             /\ UNCHANGED <<listener, queue, faulty, disturbed>>
          \/ /\ SendRaised
             /\ listener' = "dead" /\ queue' = <<>> /\ listening' = NoTargets
             /\ UNCHANGED got
    /\ UNCHANGED <<roomVars, configured, inCall, callHistory>>

ManagerNext ==
    \/ \E s \in Members : JoinRoom(s) \/ LeaveRoom(s)
    \/ \E named \in BOOLEAN : Configure(named)
    \/ CloseBroadcaster \/ SubscribeRoom
    \/ BroadcastJson \/ PublishedElsewhere
    \/ \E m \in RoomMessages : Decides(m) \/ CallSends(m)
    \/ ListenerTakes \/ ListenerSends

ManagerSpec == ManagerInit /\ [][ManagerNext]_socketManagerVars

-----------------------------------------------------------------------------
Quiet == /\ queue = <<>> /\ listening = NoTargets
         /\ \A m \in RoomMessages : inCall[m].at = "none"

\* Until a send raises, or the listener comes or goes while a message is on its
\* way, no socket is sent a message twice, by the listener and by the broadcast;
\* and when all is sent, a socket that has been in the room since was sent what
\* was broadcast here, or published anywhere while the listener was subscribed:
\* all but what was broadcast here between the listener's creation and its
\* subscription.
RoomHearsOnce ==
    ~disturbed =>
        \A s \in Members :
            /\ \A m \in RoomMessages : Cardinality({i \in DOMAIN got[s] : got[s][i] = m}) <= 1
            /\ Quiet => due[s] \subseteq Range(got[s])
===============================================================================
