------------------------------- MODULE Routing -------------------------------
(***************************************************************************)
(* The list of routes of a process and the search of the route of a        *)
(* request.  A path is the sequence of what stands between its slashes: "/" *)
(* is <<"">>, "/a/" is <<"a", "">>; a segment "{}" of a route is a          *)
(* parameter.  A route belongs to the page (module) that declares it.      *)
(***************************************************************************)
EXTENDS Naturals, Sequences, FiniteSets, FiniteSetsExt

CONSTANTS
    Paths,      \* paths of requests
    Methods,    \* methods of requests, HEAD and OPTIONS among them
    OwnRouter   \* pages that declare their routes on a router of their own

VARIABLES
    routes,     \* _fastapi_routes
    fallback    \* methods of the routes for 404, 405 and preflight requests

Fallbacks == {"not_found", "not_allowed", "preflight"}

-----------------------------------------------------------------------------
(* Lists.                                                                  *)

\* A function on 1..n as the sequence it is: TLC evaluates it once.
Tuple(f) == <<>> \o f

\* The elements of a finite set in the order that less, a set of pairs, gives.
Listed(S, less) ==
    LET ranked == {<<x, Cardinality({y \in S : <<y, x>> \in less})>> : x \in S}
    IN Tuple([k \in 1..Cardinality(S) |-> CHOOSE x \in S : <<x, k - 1>> \in ranked])

\* The elements of a sequence at some of its positions.
At(list, positions) ==
    LET order == Listed(positions, {x \in positions \X positions : x[1] < x[2]})
    IN Tuple([k \in DOMAIN order |-> list[order[k]]])

-----------------------------------------------------------------------------
(* The order of the routes.                                                *)

\* path.rstrip('/') of every path but "/".
Strip(path) ==
    IF path = <<"">> THEN path
    ELSE SubSeq(path, 1, Max({0} \cup {i \in DOMAIN path : path[i] # ""}))

is_param_segment(s) == s = "{}"

\* What is not empty between the slashes.
Segments(path) == At(path, {i \in DOMAIN path : path[i] # ""})

\* Mutant of get_route_sort_key: the position of parameters is not looked at.
SortKeyByLength(r) ==
    LET segments == Segments(r.path)
    IN IF r.kind # "api" THEN [class |-> 3, len |-> 0, flags |-> <<>>]
       ELSE [class |-> IF \E i \in DOMAIN segments : is_param_segment(segments[i])
                       THEN 2 ELSE 1, len |-> Len(segments), flags |-> <<>>]

\* Routes without parameters, then those with, then what is no APIRoute; longer
\* ones first, then by where the parameters are.
get_route_sort_key(r) ==
    LET segments == Segments(r.path)
        flags == [i \in DOMAIN segments |-> is_param_segment(segments[i])]
    IN IF r.kind # "api" THEN [class |-> 3, len |-> 0, flags |-> <<>>]
       ELSE IF TRUE \in {flags[i] : i \in DOMAIN flags}
       THEN [class |-> 2, len |-> Len(segments), flags |-> flags]
       ELSE [class |-> 1, len |-> Len(segments), flags |-> <<>>]

\* The comparison of two keys: at the first difference of the flags, False,
\* which is a name, comes before True, which is a parameter.
KeyLess(k, l) ==
    LET differ == {i \in DOMAIN k.flags : k.flags[i] # l.flags[i]} IN
    \/ k.class < l.class
    \/ k.class = l.class /\ k.len > l.len
    \/ k.class = l.class /\ k.len = l.len /\ differ # {} /\ ~k.flags[Min(differ)]

\* list.sort(key=...) is stable.
Sorted(list) ==
    LET key == Tuple([i \in DOMAIN list |-> get_route_sort_key(list[i])])
        before(i, j) == \/ KeyLess(key[i], key[j])
                        \/ ~KeyLess(key[j], key[i]) /\ i < j
        order == Listed(DOMAIN list, {x \in (DOMAIN list) \X (DOMAIN list) : before(x[1], x[2])})
    IN Tuple([k \in DOMAIN order |-> list[order[k]]])

-----------------------------------------------------------------------------
(* Registration.                                                           *)

\* add_api_route, add_route (stripped) and mount (as it is) of a page's routes.
Declared(page, decls) ==
    [i \in DOMAIN decls |-> [kind |-> decls[i].kind, page |-> page,
        path |-> IF decls[i].kind = "api" THEN Strip(decls[i].path) ELSE decls[i].path,
        methods |-> decls[i].methods]]

\* FrontikApplication includes every router but the default one: its routes, not
\* its mounts, are registered once more, behind the sorted list.
IncludeRouters(list) ==
    list \o At(list, {i \in DOMAIN list : list[i].page \in OwnRouter /\ list[i].kind = "api"})

-----------------------------------------------------------------------------
(* The search.                                                             *)

\* route.matches, methods aside: a parameter is one non-empty segment, a mount
\* takes what lies below it.
Matches(r, path) ==
    LET fits(i) == r.path[i] = path[i] \/ (is_param_segment(r.path[i]) /\ path[i] # "")
    IN /\ IF r.kind = "api" THEN Len(path) = Len(r.path) ELSE Len(path) > Len(r.path)
       /\ \A i \in DOMAIN r.path : fits(i)

\* _find_fastapi_route_exact: the place of the first route that matches.
FindExact(list, path, method) ==
    LET hits == {i \in DOMAIN list : /\ list[i].kind = "api" => method \in list[i].methods
                                     /\ Matches(list[i], path)}
    IN IF hits = {} THEN 0 ELSE Min(hits)

\* _find_fastapi_route_partial, get_allowed_methods.
get_allowed_methods(list, path) ==
    UNION {list[i].methods : i \in {j \in DOMAIN list :
        /\ list[j].kind = "api"
        /\ "OPTIONS" \notin list[j].methods
        /\ Matches(list[j], path)}}

\* Which route a request gets: the place of one in the list, or a fallback.
\* HEAD falls back on what GET gets, fallbacks included.
Choice(list, path, method) ==
    LET p == Strip(path)
        exact == FindExact(list, p, method)
        place == IF exact = 0 /\ method = "HEAD" THEN FindExact(list, p, "GET") ELSE exact
    IN IF place # 0 THEN [place |-> place, fallback |-> "none"]
       ELSE [place |-> 0, fallback |->
            IF method = "OPTIONS" THEN "preflight"
            ELSE IF get_allowed_methods(list, p) # {} THEN "not_allowed" ELSE "not_found"]

\* Mutant of Widen: a GET route that serves HEAD is left as it is.
WidenFallbackOnly(list, c, method) ==
    /\ routes' = list
    /\ fallback' = IF c.fallback = "none" THEN fallback
                   ELSE [fallback EXCEPT ![c.fallback] =
                           @ \cup {method} \cup (IF method = "HEAD" THEN {"GET"} ELSE {})]

\* The route found takes on the method it does not have, as Route.handle checks
\* it again: HEAD on GET routes, any method on the fallbacks.
Widen(list, c, method) ==
    /\ routes' = IF c.place # 0 /\ list[c.place].kind = "api" /\ method = "HEAD"
                 THEN [list EXCEPT ![c.place].methods = @ \cup {"HEAD"}] ELSE list
    /\ fallback' = IF c.fallback = "none" THEN fallback
                   ELSE [fallback EXCEPT ![c.fallback] =
                           @ \cup {method} \cup (IF method = "HEAD" THEN {"GET"} ELSE {})]

\* The page whose endpoint answers.
PageOf(list, c) == IF c.place = 0 THEN c.fallback ELSE list[c.place].page

=============================================================================
