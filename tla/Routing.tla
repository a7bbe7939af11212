------------------------------- MODULE Routing -------------------------------
(***************************************************************************)
(* Registration and matching of HTTP routes (routing/router.py, route.py). *)
(* Routes without parameters are found by their path; the others are kept  *)
(* in a tree by the literal segments before their first parameter, sorted  *)
(* by priority in each node, and the nodes on the way of a path are merged.*)
(*                                                                         *)
(* A path is the sequence of texts between its slashes, "" after a slash   *)
(* at its end.  A template is a sequence of segments: literals, literals   *)
(* with a parameter in them ("mixed"), parameters, and parameters of the   *)
(* path converter, which may span slashes.  `texts` are the texts that a   *)
(* segment's regular expression matches.                                   *)
(***************************************************************************)
EXTENDS Integers, Sequences, FiniteSets, SequencesExt

CONSTANTS Templates,    \* the templates to register
          Methods,      \* HTTP methods
          Paths,        \* the paths of requests
          Included,     \* the templates of a router to include, in its order
          SourcePrefix, \* the prefix that this router was created with
          Mounts,       \* the prefixes to include it under
          MaxRoutes     \* bound: routes

\* STRING, of which the provers do not know that "" is in it.
Text == STRING \union {""}

Segment == [kind : {"literal", "mixed", "parameter", "path"}, texts : SUBSET Text]

\* A literal matches one text.
Template == {t \in Seq(Segment) :
                \A i \in 1..Len(t) : t[i].kind = "literal" => \A x, y \in t[i].texts : x = y}

ASSUME RoutingAssumption ==
    /\ Templates \union Mounts \union {SourcePrefix} \subseteq Template
    /\ Included \in Seq(Template) /\ Paths \subseteq Seq(Text)
    /\ MaxRoutes \in Nat /\ IsFiniteSet(Methods) /\ IsFiniteSet(Paths)

\* routes in the order of registration, their numbers in _static_routes, and in
\* the nodes of _dynamic_prefixes.
VARIABLE router
routingVars == <<router>>

Parameterised(template) == \E i \in DOMAIN template : template[i].kind # "literal"

RoutingTypeOK ==
    LET numbers == DOMAIN router.routes
    IN  /\ \A r \in numbers : router.routes[r].methods \subseteq Methods
        /\ router.static \in Seq(numbers)
        /\ \A prefix \in DOMAIN router.nodes :
              ~Parameterised(prefix) /\ router.nodes[prefix] \in Seq(numbers)

RoutingInit == router = [routes |-> <<>>, static |-> <<>>, nodes |-> <<>>]

-----------------------------------------------------------------------------
(* What a template matches, and how it ranks *)

\* After how many texts of a path the first i segments of a template may end.
Reach(template, path) ==
    LET reach[i \in 0..Len(template)] ==
            IF i = 0 THEN {0}
            ELSE {k \in 1..Len(path) : \E j \in reach[i - 1] :
                     IF template[i].kind = "path" THEN j < k /\ SubSeq(path, j + 1, k) # <<"">>
                     ELSE k = j + 1 /\ path[k] \in template[i].texts}
    IN  reach

\* Route.match(): the regular expression of the template matches the path.
Matches(template, path) == Len(path) \in Reach(template, path)[Len(template)]

\* Route.specificity: the literal segments, and all segments.
Segments(template) == {i \in DOMAIN template : template[i].texts # {""}}
Literals(template) == {i \in Segments(template) : template[i].kind \in {"literal", "mixed"}}

\* Whether one template is more specific than another: by literal segments, then
\* by all segments.
MoreSpecific(t, u) ==
    \/ Cardinality(Literals(t)) > Cardinality(Literals(u))
    \/ /\ Cardinality(Literals(t)) = Cardinality(Literals(u))
       /\ Cardinality(Segments(t)) > Cardinality(Segments(u))

\* _priority(): the more specific route, then the older one.
Precedes(rs, r, q) ==
    \/ MoreSpecific(rs[r].template, rs[q].template)
    \/ ~MoreSpecific(rs[q].template, rs[r].template) /\ r < q

-----------------------------------------------------------------------------
(* Registration *)

\* insort(): the group with a route behind those that precede it.
Inserted(rs, group, r) ==
    InsertAt(group, Cardinality({i \in DOMAIN group : Precedes(rs, group[i], r)}) + 1, r)

\* The literal segments before the first parameter.
Prefix(template) ==
    LET first == CHOOSE i \in DOMAIN template :
            /\ template[i].kind # "literal"
            /\ \A j \in 1..i - 1 : template[j].kind = "literal"
    IN  SubSeq(template, 1, first - 1)

\* Mutant of Registered: a new route goes to the end of its node.
RegisteredLast(rt, route) ==
    LET rs == Append(rt.routes, route)
        prefix == Prefix(route.template)
        group == IF prefix \in DOMAIN rt.nodes THEN rt.nodes[prefix] ELSE <<>>
    IN  IF ~Parameterised(route.template)
        THEN [routes |-> rs, static |-> Append(rt.static, Len(rs)), nodes |-> rt.nodes]
        ELSE [routes |-> rs, static |-> rt.static,
              nodes |-> [p \in DOMAIN rt.nodes \union {prefix} |->
                            IF p # prefix THEN rt.nodes[p] ELSE Append(group, Len(rs))]]

\* The router with one route more, which _index_route() puts into the index.
Registered(rt, route) ==
    LET rs == Append(rt.routes, route)
        prefix == Prefix(route.template)
        group == IF prefix \in DOMAIN rt.nodes THEN rt.nodes[prefix] ELSE <<>>
    IN  IF ~Parameterised(route.template)
        THEN [routes |-> rs, static |-> Append(rt.static, Len(rs)), nodes |-> rt.nodes]
        ELSE [routes |-> rs, static |-> rt.static,
              nodes |-> [p \in DOMAIN rt.nodes \union {prefix} |->
                            IF p # prefix THEN rt.nodes[p] ELSE Inserted(rs, group, Len(rs))]]

\* route()
AddRoute ==
    /\ Len(router.routes) < MaxRoutes
    /\ \E template \in Templates, methods \in SUBSET Methods \ {{}} :
          router' = Registered(router, [template |-> template, methods |-> methods])

\* mounted_path(): without a prefix a path stays what it is, with one it takes
\* the place of the prefix of the source.
Mounted(template, remount, mount) ==
    LET bare == IF SourcePrefix # <<>> /\ IsPrefix(SourcePrefix, template)
                THEN SubSeq(template, Len(SourcePrefix) + 1, Len(template)) ELSE template
        slash == [kind |-> "literal", texts |-> {""}]
    IN  IF ~remount THEN template
        ELSE mount \o (IF bare = <<>> THEN <<slash>> ELSE bare)

\* The router with the first n routes of another one.
Including(remount, mount) ==
    LET including[n \in 0..Len(Included)] ==
            IF n = 0 THEN router
            ELSE Registered(including[n - 1],
                            [template |-> Mounted(Included[n], remount, mount), methods |-> Methods])
    IN  including

\* include_router()
IncludeRouter ==
    /\ Len(router.routes) + Len(Included) <= MaxRoutes
    /\ \E remount \in BOOLEAN, mount \in Mounts :
          router' = Including(remount, mount)[Len(Included)]

RoutingNext == AddRoute \/ IncludeRouter

RoutingSpec == RoutingInit /\ [][RoutingNext]_routingVars

-----------------------------------------------------------------------------
(* Matching *)

Spells(template, path) ==
    Len(template) = Len(path) /\ \A i \in DOMAIN path : path[i] \in template[i].texts

\* _candidates(): the nodes that a path goes through.
Candidates(path) ==
    {p \in DOMAIN router.nodes : Len(p) <= Len(path) /\ Spells(p, SubSeq(path, 1, Len(p)))}

\* The first of a group that is wanted, if there is one.
First(group, wanted) ==
    {group[i] : i \in {k \in DOMAIN group :
                          group[k] \in wanted /\ \A j \in 1..k - 1 : group[j] \notin wanted}}

NotFound == "not found"
MethodNotAllowed == "method not allowed"
Answer(number, error) == [route |-> number, error |-> error]

\* match(): the first route without parameters; then, of what each node on the way
\* gives first, what merge() gives first.
Match(path, method) ==
    LET rs == router.routes
        exact == {r \in Range(router.static) : Spells(rs[r].template, path)}
        reached == UNION {Range(router.nodes[p]) : p \in Candidates(path)}
        matching == {r \in reached : Matches(rs[r].template, path)}
        Allowed(S) == {r \in S : method \in rs[r].methods}
        static == First(router.static, Allowed(exact))
        heads == UNION {First(router.nodes[p], Allowed(matching)) : p \in Candidates(path)}
    IN  IF static # {} THEN Answer(CHOOSE r \in static : TRUE, "none")
        ELSE IF heads # {}
        THEN Answer(CHOOSE r \in heads : \A q \in heads \ {r} : Precedes(rs, r, q), "none")
        ELSE Answer(0, IF exact \union matching # {} THEN MethodNotAllowed ELSE NotFound)

-----------------------------------------------------------------------------
\* Whatever was registered in whatever order, and included under whatever prefix,
\* the index finds what a look at all routes would find: among the routes that
\* match path and method, one without parameters before all others, then the most
\* specific ones, and the oldest of these; and if there are none, whether another
\* method would be allowed.
MatchIsBest ==
    \A path \in Paths, method \in Methods :
        LET rs == router.routes
            hits == {r \in DOMAIN rs : Matches(rs[r].template, path)}
            fit == {r \in hits : method \in rs[r].methods}
            Dynamic(r) == Parameterised(rs[r].template)
            Before(r, q) == IF Dynamic(r) = Dynamic(q) THEN Precedes(rs, r, q) ELSE Dynamic(q)
        IN  Match(path, method) =
                IF fit # {} THEN Answer(CHOOSE r \in fit : \A q \in fit \ {r} : Before(r, q), "none")
                ELSE Answer(0, IF hits # {} THEN MethodNotAllowed ELSE NotFound)
===============================================================================
