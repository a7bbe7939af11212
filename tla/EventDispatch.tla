---------------------------- MODULE EventDispatch ----------------------------
(***************************************************************************)
(* The listeners of one event and the dispatches of it (events/registry.py *)
(* and events/dispatcher.py).  A dispatch goes through the registry's list *)
(* itself, not a copy, and calls, or awaits, one listener after the other; *)
(* the listeners called, and others during an await, register and remove   *)
(* listeners.  register() changes the list in place; all that removes      *)
(* replaces it, so that dispatches under way keep the old one.             *)
(*                                                                         *)
(* dispatch_async() makes a task for each listener before any of them runs.*)
(* Whether a listener raises makes no difference.                          *)
(***************************************************************************)
EXTENDS Integers, Sequences, FiniteSets, SequencesExt

CONSTANTS Callbacks,       \* functions to register
          Priorities,      \* priorities to register them with
          Dispatches,      \* dispatches under way at a time
          MaxRegistrations \* bound: calls of register()

ASSUME EventAssumption == Priorities \subseteq Int /\ MaxRegistrations \in Nat

VARIABLES
    listeners,    \* the event's list in the registry, empty when it has none
    dispatches,   \* for each dispatch its list, how many of it were taken, the calls made
    registrations \* calls of register() so far

eventVars == <<listeners, dispatches, registrations>>

EventListener == [callback : Callbacks, priority : Priorities, number : 1..MaxRegistrations]

\* `shared` is whether the list is still the registry's, `own` the list if not;
\* `todo` are tasks to run.  History: `stayed`, what was registered all the time,
\* and `overtaken`, that register() moved what had been taken already.
NotDispatching == [at |-> "ended", shared |-> FALSE, own |-> <<>>, taken |-> 0, todo |-> {},
          called |-> <<>>, stayed |-> {}, overtaken |-> FALSE]

ListOf(d) == IF dispatches[d].shared THEN listeners ELSE dispatches[d].own

EventTypeOK ==
    /\ listeners \in Seq(EventListener) /\ registrations \in 0..MaxRegistrations
    /\ \A d \in Dispatches :
          /\ dispatches[d].at \in {"calling", "gathering", "ended"}
          /\ dispatches[d].own \in Seq(EventListener) /\ dispatches[d].taken \in 0..Len(ListOf(d))
          /\ dispatches[d].called \in Seq(EventListener)
          /\ dispatches[d].todo \union dispatches[d].stayed \subseteq EventListener

EventInit ==
    /\ listeners = <<>> /\ registrations = 0
    /\ dispatches = [d \in Dispatches |-> NotDispatching]

-----------------------------------------------------------------------------
\* sort() is stable: a new listener comes after those of its priority.
PlaceOf(l) == 1 + Cardinality({i \in DOMAIN listeners : listeners[i].priority >= l.priority})

\* A list that there was not before is no dispatch's.
RegisterListener ==
    /\ registrations < MaxRegistrations /\ registrations' = registrations + 1
    /\ \E callback \in Callbacks, priority \in Priorities :
          LET l == [callback |-> callback, priority |-> priority, number |-> registrations']
          IN  /\ listeners' = InsertAt(listeners, PlaceOf(l), l)
              /\ dispatches' = [d \in Dispatches |->
                    IF dispatches[d].shared /\ PlaceOf(l) <= dispatches[d].taken
                    THEN [dispatches[d] EXCEPT !.overtaken = TRUE] ELSE dispatches[d]]

\* Mutant of Detached: the listeners are removed from the list in place.
RemovedInPlace(d, removed) ==
    LET left == Len(listeners) - Cardinality(removed)
    IN  [dispatches[d] EXCEPT !.stayed = @ \ removed, !.taken = IF @ > left THEN left ELSE @]

\* A dispatch goes on with the list that was the registry's.
Detached(d, removed) ==
    [dispatches[d] EXCEPT !.shared = FALSE, !.own = ListOf(d), !.stayed = @ \ removed]

\* What is left of a list, gone through from its beginning.
Filtered(list, removed) ==
    LET left[n \in 0..Len(list)] ==
            IF n = 0 THEN <<>>
            ELSE IF list[n] \in removed THEN left[n - 1] ELSE Append(left[n - 1], list[n])
    IN  left[Len(list)]

WithoutListeners(removed) ==
    /\ listeners # <<>>
    /\ listeners' = Filtered(listeners, removed)
    /\ dispatches' = [d \in Dispatches |-> IF dispatches[d].at = "ended" THEN dispatches[d]
                                                                       ELSE Detached(d, removed)]
    /\ UNCHANGED registrations

\* remove(): every listener with the callback, if there is any.
RemoveListeners(callback) == WithoutListeners({l \in Range(listeners) : l.callback = callback})

\* remove_all() and clear()
RemoveAllListeners == WithoutListeners(Range(listeners))

-----------------------------------------------------------------------------
\* dispatch(), dispatch_sync(), dispatch_with_response(); the list of an event
\* that nobody listens to is nobody's.
DispatchEvent(d) ==
    /\ dispatches[d].at = "ended"
    /\ dispatches' = [dispatches EXCEPT ![d] = [NotDispatching EXCEPT !.at = "calling",
                          !.shared = listeners # <<>>, !.stayed = Range(listeners)]]
    /\ UNCHANGED <<listeners, registrations>>

\* The next listener is called, or there is none.
CallListener(d) ==
    LET dispatch == dispatches[d]
        next == IF dispatch.taken < Len(ListOf(d))
                THEN [dispatch EXCEPT !.taken = @ + 1,
                                      !.called = Append(@, ListOf(d)[dispatch.taken + 1])]
                ELSE [dispatch EXCEPT !.at = "ended", !.shared = FALSE, !.own = <<>>, !.taken = 0]
    IN  /\ dispatch.at = "calling"
        /\ dispatches' = [dispatches EXCEPT ![d] = next]
        /\ UNCHANGED <<listeners, registrations>>

\* dispatch_async()
DispatchAsync(d) ==
    /\ dispatches[d].at = "ended"
    /\ dispatches' = [dispatches EXCEPT ![d] = [NotDispatching EXCEPT !.at = "gathering",
                          !.todo = Range(listeners), !.stayed = Range(listeners)]]
    /\ UNCHANGED <<listeners, registrations>>

\* Its tasks run, in threads some of them, and gather() waits for all.
RunListener(d) ==
    /\ dispatches[d].at = "gathering"
    /\ \/ \E l \in dispatches[d].todo :
             dispatches' = [dispatches EXCEPT ![d].todo = @ \ {l}, ![d].called = Append(@, l)]
       \/ /\ dispatches[d].todo = {}
          /\ dispatches' = [dispatches EXCEPT ![d].at = "ended"]
    /\ UNCHANGED <<listeners, registrations>>

EventNext ==
    \/ RegisterListener \/ RemoveAllListeners \/ \E callback \in Callbacks : RemoveListeners(callback)
    \/ \E d \in Dispatches : DispatchEvent(d) \/ CallListener(d) \/ DispatchAsync(d) \/ RunListener(d)

EventSpec == EventInit /\ [][EventNext]_eventVars

-----------------------------------------------------------------------------
\* Whatever listeners register and remove while they are called: each listener
\* that was there all the time is called; and the more important ones first,
\* unless they run as tasks, and none twice, unless a listener was registered with
\* a higher priority than one that had been called already.
EachListenerHears ==
    \A d \in Dispatches :
        LET dispatch == dispatches[d]
        IN  /\ dispatch.at = "ended" => dispatch.stayed \subseteq Range(dispatch.called)
            /\ ~dispatch.overtaken => IsInjective(dispatch.called)
            /\ dispatch.at = "calling" /\ ~dispatch.overtaken =>
                  \A i, k \in DOMAIN dispatch.called :
                      i < k => dispatch.called[i].priority >= dispatch.called[k].priority
=============================================================================
