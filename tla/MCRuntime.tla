------------------------------ MODULE MCRuntime ------------------------------
(***************************************************************************)
(* The components of a running application that keep state of their own,   *)
(* in one run.  They share no variable, and a property of one speaks of no *)
(* other, so that it is enough to let one of them run in each behaviour:   *)
(* `focus` says which.                                                     *)
(***************************************************************************)
EXTENDS Broadcast, Heartbeat, RateLimiter, Lifespan, Cache, Migrations, Routing, Exchange,
        EventDispatch, ContentStore

VARIABLE focus

\* Routes: the texts "a", "b", "1" and "a1" between slashes, templates of each kind
\* of segment, and a router created with the prefix /b.
Piece(kind, texts) == [kind |-> kind, texts |-> texts]
Words == {"a", "b", "1", "a1"}
A == Piece("literal", {"a"})
B == Piece("literal", {"b"})
A1 == Piece("mixed", {"a1"})
AnyText == Piece("parameter", Words)
Number == Piece("parameter", {"1"})
Rest == Piece("path", {})
MCTemplates == {<<A>>, <<A1>>, <<AnyText>>, <<Number>>, <<A, AnyText>>, <<AnyText, A>>, <<A, Rest>>, <<Rest, B>>}
MCPaths == UNION {[1..n -> Words \union {""}] : n \in 1..2}
MCIncluded == <<<<B>>, <<B, Number>>>>
MCSourcePrefix == <<B>>
MCMounts == {<<>>, <<A>>}

\* Middleware in every order, with the limit outside of it, inside,
\* or as in the complete example of docs/guides/middleware.md.
Orders(layers, n) == {order \in [1..n -> layers] : IsInjective(order)}
MCStacks ==
    UNION {Orders({"recovery", "timeout", "compression"}, n) : n \in 0..3}
    \union {<<"limit", "recovery", "compression">>, <<"compression", "recovery", "limit">>,
            <<"recovery", "compression", "limit", "timeout">>}

\* Requests that save a draft and that schedule a record, at a fit or an unfit time.
MCBodies == [status : {"draft"}, publishAt : {"same"}]
            \union [status : {"scheduled"}, publishAt : {"future", "unfit"}]

\* Each component keeps the types of its variables: the broadcaster's channel, the
\* heartbeats, the rate limiters, the lifespan, the cache, the migrations, the routes,
\* the request and its response, the dispatches of events, the content of the CMS.
RuntimeTypeOK ==
    /\ focus = "broadcast" => TypeOK
    /\ focus = "heartbeat" => HeartbeatTypeOK
    /\ focus = "rate limit" => RateTypeOK
    /\ focus = "lifespan" => LifespanTypeOK
    /\ focus = "cache" => CacheTypeOK
    /\ focus = "migrations" => MigrationsTypeOK
    /\ focus = "routing" => RoutingTypeOK
    /\ focus = "exchange" => ExchangeTypeOK
    /\ focus = "events" => EventTypeOK
    /\ focus = "content" => ContentTypeOK

RuntimeInit ==
    /\ focus \in {"broadcast", "heartbeat", "rate limit", "lifespan", "cache", "migrations", "routing",
                  "exchange", "events", "content"}
    /\ Init /\ HeartbeatInit /\ RateInit /\ LifespanInit /\ CacheInit /\ MigrationsInit
    /\ RoutingInit /\ ExchangeInit /\ EventInit /\ ContentInit
    /\ focus # "exchange" => request = CHOOSE r \in Requests : r.stack = <<>> /\ r.understated

RuntimeNext ==
    /\ UNCHANGED focus
    /\ \/ /\ focus = "broadcast" /\ Next
          /\ UNCHANGED <<heartbeatVars, rateVars, lifespanVars, cacheVars,
                       migrationVars, routingVars, exchangeVars, eventVars, contentVars>>
       \/ /\ focus = "heartbeat" /\ HeartbeatNext
          /\ UNCHANGED <<vars, rateVars, lifespanVars, cacheVars,
                       migrationVars, routingVars, exchangeVars, eventVars, contentVars>>
       \/ /\ focus = "rate limit" /\ RateNext
          /\ UNCHANGED <<vars, heartbeatVars, lifespanVars, cacheVars,
                       migrationVars, routingVars, exchangeVars, eventVars, contentVars>>
       \/ /\ focus = "lifespan" /\ LifespanNext
          /\ UNCHANGED <<vars, heartbeatVars, rateVars, cacheVars,
                       migrationVars, routingVars, exchangeVars, eventVars, contentVars>>
       \/ /\ focus = "cache" /\ CacheNext
          /\ UNCHANGED <<vars, heartbeatVars, rateVars, lifespanVars,
                       migrationVars, routingVars, exchangeVars, eventVars, contentVars>>
       \/ /\ focus = "migrations" /\ MigrationsNext
          /\ UNCHANGED <<vars, heartbeatVars, rateVars, lifespanVars,
                       cacheVars, routingVars, exchangeVars, eventVars, contentVars>>
       \/ /\ focus = "routing" /\ RoutingNext
          /\ UNCHANGED <<vars, heartbeatVars, rateVars, lifespanVars,
                       cacheVars, migrationVars, exchangeVars, eventVars, contentVars>>
       \/ /\ focus = "exchange" /\ ExchangeNext
          /\ UNCHANGED <<vars, heartbeatVars, rateVars, lifespanVars,
                       cacheVars, migrationVars, routingVars, eventVars, contentVars>>
       \/ /\ focus = "events" /\ EventNext
          /\ UNCHANGED <<vars, heartbeatVars, rateVars, lifespanVars,
                       cacheVars, migrationVars, routingVars, exchangeVars, contentVars>>
       \/ /\ focus = "content" /\ ContentNext
          /\ UNCHANGED <<vars, heartbeatVars, rateVars, lifespanVars,
                       cacheVars, migrationVars, routingVars, exchangeVars, eventVars>>

runtimeVars ==
    <<focus, vars, heartbeatVars, rateVars, lifespanVars, cacheVars, migrationVars,
      routingVars, exchangeVars, eventVars, contentVars>>

\* The listeners of broadcasts, the tasks of heartbeats and the publisher of the CMS
\* have fairness conditions; in the behaviours of other components they never start.
RuntimeSpec ==
    /\ RuntimeInit /\ [][RuntimeNext]_runtimeVars
    /\ \A l \in Listeners : WF_vars(Listen(l))
    /\ HeartbeatFairness
    /\ ContentFairness
=============================================================================
