----------------------------- MODULE Heartbeat ------------------------------
(***************************************************************************)
(* Heartbeats of WebSocket connections (websocket/heartbeat.py): the       *)
(* middleware that starts one with a connection and stops it at its end,   *)
(* and the task that sends pings and closes a connection whose peer has    *)
(* been silent for too long.                                               *)
(*                                                                         *)
(* Both sides call stop(), the task on itself: it then cancels and awaits  *)
(* itself with the lock held, which asyncio answers with the cancellation. *)
(* The lock is held across a suspension there and where the middleware     *)
(* awaits the task it has cancelled, and nowhere else.                     *)
(***************************************************************************)
EXTENDS Integers, FiniteSets

CONSTANTS Peers,       \* the connections
          Patience,    \* timeout, in intervals
          MaxPongs,    \* bound: pongs of a peer
          MaxStops     \* bound: calls of stop() per connection, the last one included

ASSUME HeartbeatAssumption ==
    IsFiniteSet(Peers) /\ Patience \in Nat \ {0} /\ MaxPongs \in Nat /\ MaxStops \in Nat \ {0}

VARIABLES
    conn,      \* where the middleware of each connection is
    beat,      \* where each connection's task is
    lock,      \* the holder of the lock: a connection's middleware or its task
    cancelled, \* tasks that have been cancelled and not run since
    tasks,     \* the keys of _tasks
    lastPong,  \* the keys of _last_pong
    silent,    \* intervals since the last pong
    pongs, stops,
    cutOff     \* history: connections whose last stop() was cancelled at the lock

heartbeatVars == <<conn, beat, lock, cancelled, tasks, lastPong, silent, pongs, stops, cutOff>>
tables == <<tasks, lastPong>>
counts == <<pongs, stops>>

Free == [by |-> "nobody"]
Middleware(s) == [by |-> "middleware", of |-> s]
Task(s) == [by |-> "task", of |-> s]

HeartbeatTypeOK ==
    /\ conn \in [Peers -> {"new", "starting", "running", "stopping", "awaiting", "gone"}]
    /\ beat \in [Peers -> {"none", "sleeping", "closing", "pinging", "stopping", "stopped", "ended"}]
    /\ lock \in {Free} \union {Middleware(s) : s \in Peers} \union {Task(s) : s \in Peers}
    /\ cancelled \subseteq Peers /\ tasks \subseteq Peers /\ lastPong \subseteq Peers
    /\ silent \in [Peers -> 0..Patience + 1]
    /\ cutOff \subseteq Peers
    /\ pongs \in [Peers -> 0..MaxPongs] /\ stops \in [Peers -> 0..MaxStops]

HeartbeatInit ==
    /\ conn = [s \in Peers |-> "new"] /\ beat = [s \in Peers |-> "none"]
    /\ lock = Free /\ cancelled = {} /\ tasks = {} /\ lastPong = {}
    /\ silent = [s \in Peers |-> 0]
    /\ pongs = [s \in Peers |-> 0] /\ stops = [s \in Peers |-> 0] /\ cutOff = {}

Conn(s, at) == conn' = [conn EXCEPT ![s] = at]
Beat(s, at) == beat' = [beat EXCEPT ![s] = at]

-----------------------------------------------------------------------------
(* The middleware *)

Connect(s) ==
    /\ conn[s] = "new"
    /\ Conn(s, "starting")
    /\ UNCHANGED <<beat, lock, cancelled, tables, silent, counts, cutOff>>

\* start()
Start(s) ==
    /\ conn[s] = "starting" /\ lock = Free
    /\ Conn(s, "running") /\ Beat(s, "sleeping")
    /\ tasks' = tasks \union {s} /\ lastPong' = lastPong \union {s}
    /\ UNCHANGED <<lock, cancelled, silent, counts, cutOff>>

\* pong_received(), whether a heartbeat is there or not.
Pong(s) ==
    /\ conn[s] = "running" /\ pongs[s] < MaxPongs
    /\ pongs' = [pongs EXCEPT ![s] = @ + 1]
    /\ lastPong' = lastPong \union {s}
    /\ silent' = [silent EXCEPT ![s] = 0]
    /\ UNCHANGED <<conn, beat, lock, cancelled, tasks, stops, cutOff>>

\* stop() is called: for a disconnect, after which the application may receive
\* again, and at the end, which is the last of these calls; being cancelled in
\* start() or in the application leads there, too.
CallStop(s) ==
    /\ conn[s] \in {"starting", "running"}
    /\ \E n \in stops[s] + 1..MaxStops :
          /\ conn[s] = "starting" => n = MaxStops
          /\ stops' = [stops EXCEPT ![s] = n]
    /\ Conn(s, "stopping")
    /\ UNCHANGED <<beat, lock, cancelled, tables, silent, pongs, cutOff>>

Returns(s) == Conn(s, IF stops[s] = MaxStops THEN "gone" ELSE "running")

\* Mutant of Forgets: the time of the last pong is left to whoever had the task.
ForgetsWithTask(s) == lastPong' = IF s \in tasks THEN lastPong \ {s} ELSE lastPong

Forgets(s) == lastPong' = lastPong \ {s}

\* stop() has the lock; without a task there is nothing to wait for.
StopTask(s) ==
    /\ conn[s] = "stopping" /\ lock = Free
    /\ tasks' = tasks \ {s}
    /\ IF s \in tasks
       THEN /\ lock' = Middleware(s) /\ cancelled' = cancelled \union {s}
            /\ Conn(s, "awaiting")
            /\ UNCHANGED lastPong
       ELSE /\ Forgets(s)
            /\ Returns(s)
            /\ UNCHANGED <<lock, cancelled>>
    /\ UNCHANGED <<beat, silent, counts, cutOff>>

\* The task has ended, and the lock is released.
TaskStopped(s) ==
    /\ conn[s] = "awaiting" /\ beat[s] = "ended"
    /\ lock' = Free
    /\ lastPong' = lastPong \ {s}
    /\ Returns(s)
    /\ UNCHANGED <<beat, cancelled, tasks, silent, counts, cutOff>>

\* The server cancels the middleware while it waits for the lock.
CancelStop(s) ==
    /\ conn[s] = "stopping" /\ lock # Free /\ stops[s] = MaxStops
    /\ Conn(s, "gone")
    /\ cutOff' = cutOff \union {s}
    /\ UNCHANGED <<beat, lock, cancelled, tables, silent, counts>>

-----------------------------------------------------------------------------
(* The task *)

\* The interval is over.  A sleep may end a little late, so that in the
\* interval in which the timeout falls it has passed or not.
WakesToPing(s) ==
    /\ beat[s] = "sleeping" /\ s \notin cancelled /\ silent[s] + 1 <= Patience
    /\ silent' = [silent EXCEPT ![s] = @ + 1]
    /\ Beat(s, "pinging")
    /\ UNCHANGED <<conn, lock, cancelled, tables, counts, cutOff>>

WakesToClose(s) ==
    /\ beat[s] = "sleeping" /\ s \notin cancelled /\ silent[s] + 1 >= Patience
    /\ silent' = [silent EXCEPT ![s] = IF @ > Patience THEN @ ELSE @ + 1]
    /\ Beat(s, "closing")
    /\ UNCHANGED <<conn, lock, cancelled, tables, counts, cutOff>>

\* close() returns or raises; both are followed by stop().
CloseEnds(s) ==
    /\ beat[s] = "closing" /\ s \notin cancelled
    /\ Beat(s, "stopping")
    /\ UNCHANGED <<conn, lock, cancelled, tables, silent, counts, cutOff>>

\* Mutant of PingEnds: a ping that raises ends the task and nothing else.
PingEndsAnyway(s, raises) ==
    /\ beat[s] = "pinging" /\ s \notin cancelled
    /\ Beat(s, IF raises THEN "ended" ELSE "sleeping")
    /\ UNCHANGED <<conn, lock, cancelled, tables, silent, counts, cutOff>>

PingEnds(s, raises) ==
    /\ beat[s] = "pinging" /\ s \notin cancelled
    /\ Beat(s, IF raises THEN "stopping" ELSE "sleeping")
    /\ UNCHANGED <<conn, lock, cancelled, tables, silent, counts, cutOff>>

\* Within stop(): if it still is in the table, the task cancels itself.
StopItself(s) ==
    /\ beat[s] = "stopping" /\ s \notin cancelled /\ lock = Free
    /\ tasks' = tasks \ {s}
    /\ IF s \in tasks
       THEN lock' = Task(s) /\ Beat(s, "stopped") /\ UNCHANGED lastPong
       ELSE lastPong' = lastPong \ {s} /\ Beat(s, "ended") /\ UNCHANGED lock
    /\ UNCHANGED <<conn, cancelled, silent, counts, cutOff>>

\* Its own cancellation arrives, and is suppressed.
StoppedItself(s) ==
    /\ beat[s] = "stopped"
    /\ lastPong' = lastPong \ {s}
    /\ lock' = Free
    /\ Beat(s, "ended")
    /\ UNCHANGED <<conn, cancelled, tasks, silent, counts, cutOff>>

\* The middleware's cancellation arrives, wherever the task was.
CancelledEnds(s) ==
    /\ s \in cancelled
    /\ cancelled' = cancelled \ {s}
    /\ Beat(s, "ended")
    /\ UNCHANGED <<conn, lock, tables, silent, counts, cutOff>>

-----------------------------------------------------------------------------
BeatStep(s) ==
    \/ WakesToPing(s) \/ WakesToClose(s) \/ CloseEnds(s)
    \/ \E raises \in BOOLEAN : PingEnds(s, raises)
    \/ StopItself(s) \/ StoppedItself(s) \/ CancelledEnds(s)

StopStep(s) == StopTask(s) \/ TaskStopped(s)

HeartbeatNext ==
    \E s \in Peers :
        \/ Connect(s) \/ Start(s) \/ Pong(s) \/ CallStop(s) \/ StopStep(s) \/ CancelStop(s)
        \/ BeatStep(s)

\* The event loop runs the tasks, sleeps end, sends and closes return or raise.
HeartbeatFairness ==
    \A s \in Peers : WF_heartbeatVars(BeatStep(s)) /\ WF_heartbeatVars(StopStep(s))

HeartbeatSpec == HeartbeatInit /\ [][HeartbeatNext]_heartbeatVars /\ HeartbeatFairness

-----------------------------------------------------------------------------
\* When the middleware of a connection has ended, no task of it is running and
\* none of the tables knows it, however its stop() and that of the task came
\* together, unless it was cancelled at the lock.
NothingKept ==
    \A s \in Peers : conn[s] = "gone" /\ s \notin cutOff =>
        s \notin tasks /\ s \notin lastPong /\ beat[s] \in {"none", "ended"}

\* Every heartbeat ends: with its connection, by closing one whose peer is
\* silent, and after the middleware was cancelled without stopping it.  In
\* particular nobody waits for ever for the lock that stop() holds.
BeatsEnd ==
    \A s \in Peers : conn[s] \in {"stopping", "awaiting", "gone"} \/ silent[s] >= Patience
                         ~> silent[s] = 0 \/ (s \notin tasks /\ lock # Task(s) /\ lock # Middleware(s))
=============================================================================
