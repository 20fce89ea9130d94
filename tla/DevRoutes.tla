------------------------------ MODULE DevRoutes ------------------------------
(***************************************************************************)
(* How the pages of an application become its list of routes: all imported *)
(* at the start, or, in the development mode ON_DEMAND_ROUTING, only those *)
(* that changed since the routes map file was written, the others when a   *)
(* request needs them.  Pages are edited between and during runs of the    *)
(* process; the routes map file survives it.                               *)
(***************************************************************************)
EXTENDS Routing

CONSTANTS
    Pages,      \* modules of the pages package, in the order of the walk
    Decls,      \* Decls[page][v]: routes the page declares in its v-th variant
    Builtin,    \* routes of frontik.app itself, always imported
    MaxChanged, \* MAX_CHANGED_FILES_COUNT_TO_INVALIDATE
    MaxEdits    \* bound: edits of pages

PageSet == {Pages[i] : i \in DOMAIN Pages}
Declarations == [kind : {"api", "mount"}, path : Seq(STRING), methods : SUBSET Methods]

ASSUME RoutesAssumption ==
    /\ MaxChanged \in Nat /\ MaxEdits \in Nat
    /\ {"GET", "HEAD", "OPTIONS"} \subseteq Methods
    /\ Paths \subseteq Seq(STRING)
    /\ Pages \in Seq(STRING) /\ "app" \notin PageSet
    /\ OwnRouter \subseteq PageSet
    /\ Builtin \in Seq(Declarations) /\ \A i \in DOMAIN Builtin : Builtin[i].kind = "api"
    /\ Decls \in [PageSet -> Seq(Seq(Declarations)) \ {<<>>}]

VARIABLES
    dev,       \* dev_mode = ON_DEMAND_ROUTING
    fs,        \* variant of each page in the file system, 0 if there is none
    mtime,     \* time of the last edit of each page
    clock,     \* edits so far
    up,        \* the process: down, up, failed
    files,     \* py_files_mtime of the process
    imported,  \* pages in sys.modules
    fake,      \* fake_routes
    cache,     \* the routes map file: entries and pages without routes
    accepted   \* the route of the last request takes its method

fsVars == <<fs, mtime, clock>>
procVars == <<routes, fallback, up, files, imported, fake>>
vars == <<dev, fsVars, procVars, cache, accepted>>

Routes == [kind : {"api", "mount"}, page : PageSet \cup {"app"}, path : Seq(STRING),
           methods : SUBSET Methods]
Entries == [method : Methods, path : Seq(STRING), page : PageSet \cup {"app"},
            mtime : 0..MaxEdits]
NoCache == [exists |-> FALSE, entries |-> {}, exclude |-> {}]

TypeOK ==
    /\ dev \in BOOLEAN
    /\ fs \in [PageSet -> Nat] /\ \A p \in PageSet : fs[p] <= Len(Decls[p])
    /\ mtime \in [PageSet -> 0..MaxEdits]
    /\ clock \in 0..MaxEdits
    /\ up \in {"down", "up", "failed"}
    /\ routes \in Seq(Routes)
    /\ \A i \in DOMAIN routes : routes[i].page \in imported \cup {"app"}
    /\ fallback \in [Fallbacks -> SUBSET Methods]
    /\ files \in UNION {[S -> 0..MaxEdits] : S \in SUBSET PageSet}
    /\ imported \subseteq PageSet
    /\ accepted \in BOOLEAN
    /\ fake \subseteq Entries
    /\ cache \in [exists : BOOLEAN, entries : SUBSET Entries, exclude : SUBSET PageSet]
    \* one entry per method and path, as routes_map_module is a dict
    /\ \A d, e \in cache.entries : d.method = e.method /\ d.path = e.path => d = e

Init ==
    /\ dev \in BOOLEAN
    /\ fs \in [PageSet -> {0, 1}] /\ mtime = [p \in PageSet |-> 0] /\ clock = 0
    /\ up = "down" /\ routes = <<>> /\ imported = {} /\ fake = {}
    /\ fallback = [f \in Fallbacks |-> {IF f = "preflight" THEN "OPTIONS" ELSE "GET"}]
    /\ files = <<>>
    /\ cache = NoCache
    /\ accepted = TRUE

-----------------------------------------------------------------------------
(* Importing.                                                              *)

RoutesOf(page) == Declared(page, Decls[page][fs[page]])
BuiltinRoutes == Declared("app", Builtin)

\* importlib.import_module of pages, in the order of the walk; pages imported
\* already are in sys.modules.
Import(list, done, pages) ==
    LET new == {i \in DOMAIN Pages : Pages[i] \in pages \ done}
        places == UNION {{<<i, j>> : j \in DOMAIN RoutesOf(Pages[i])} : i \in new}
        before(x, y) == x[1] < y[1] \/ (x[1] = y[1] /\ x[2] < y[2])
        order == Listed(places, {z \in places \X places : before(z[1], z[2])})
    IN list \o [k \in DOMAIN order |-> RoutesOf(Pages[order[k][1]])[order[k][2]]]

Existing == {p \in PageSet : fs[p] # 0}

\* map_py_files_mtime of the pages folder.
FilesNow == [p \in Existing |-> mtime[p]]

\* convert_fastapi_route_to_cache: one method of the route, whichever its set
\* yields first (pref, if it has it), and the time its page had at the start.
EntryMethods(r) == IF r.methods = {} THEN {"GET"} ELSE r.methods

Entry(r, pref, times) ==
    [method |-> IF pref \in EntryMethods(r) THEN pref ELSE CHOOSE m \in EntryMethods(r) : TRUE,
     path |-> r.path, page |-> r.page,
     mtime |-> IF r.page \in DOMAIN times THEN times[r.page] ELSE 0]

\* proccess_fastapi_routes_to_dev_route: an entry for every route.
EntriesOf(list, pref, times) == Tuple([i \in DOMAIN list |-> Entry(list[i], pref, times)])

SameKey(d, e) == d.method = e.method /\ d.path = e.path

\* routes_map_module.update, one entry after the other: an entry takes the place
\* of one with its key.
Merge(old, new) ==
    {e \in old : \A i \in DOMAIN new : ~SameKey(e, new[i])}
    \cup {new[i] : i \in {j \in DOMAIN new : \A k \in DOMAIN new : k > j => ~SameKey(new[j], new[k])}}

\* get_diff_cache_and_fs; what is not a file of the pages folder is "app".
NeedDelete(entries, times) == {e.page : e \in entries} \ (DOMAIN times \cup {"app"})
NeedAdd(entries, times, exclude) == DOMAIN times \ ({e.page : e \in entries} \cup exclude)

\* Mutant of Changed: only pages with a later time are taken as changed.
ChangedToLater(times) == {e \in cache.entries : e.page \in DOMAIN times
                                              /\ times[e.page] > e.mtime + 1}

\* Entries of pages that were edited since.
Changed(times) == {e \in cache.entries : e.page \in DOMAIN times /\ times[e.page] # e.mtime}

\* create_route_map_module, with the entries gathered so far.
CreateRouteMap(entries, pref) ==
    LET all == Sorted(Import(BuiltinRoutes, {}, Existing))
        new == EntriesOf(all, pref, FilesNow)
        made == Merge(entries, new)
    IN /\ routes' = IncludeRouters(all)
       /\ imported' = Existing
       /\ fake' = entries \cup {new[i] : i \in DOMAIN new}
       /\ cache' = [exists |-> TRUE, entries |-> made, exclude |-> NeedAdd(made, FilesNow, {})]

-----------------------------------------------------------------------------
(* The process.                                                            *)

\* routing.import_all_pages and the rest of FrontikApplication.__init__.
StartAll ==
    /\ routes' = IncludeRouters(Sorted(Import(BuiltinRoutes, {}, Existing)))
    /\ imported' = Existing
    /\ UNCHANGED <<fake, cache>>

\* DevRouteManager.import_all_pages with a routes map file: entries of pages
\* that did not change become fake routes, new and changed pages are imported,
\* all of them if there are too many.
StartFromCache(pref) ==
    LET times == FilesNow
        kept == {e \in cache.entries \ Changed(times) :
                   e.page \notin NeedDelete(cache.entries, times)}
        new == NeedAdd(cache.entries, times, cache.exclude)
        add == new \cup {e.page : e \in Changed(times)}
        count == Cardinality(new) + Cardinality(Changed(times))
        list == Import(BuiltinRoutes, {}, add)
        made == IF count = 0 THEN <<>> ELSE EntriesOf(list, pref, times)
    IN IF count > MaxChanged THEN CreateRouteMap(kept, pref)
       ELSE /\ routes' = IncludeRouters(Sorted(list))
            /\ imported' = add
            /\ fake' = kept \cup {made[i] : i \in DOMAIN made}
            /\ cache' = [cache EXCEPT !.entries = Merge(kept, made)]

\* A mount has no endpoint, which convert_fastapi_route_to_cache asks for.
HasMount(pages) == \E p \in pages : \E i \in DOMAIN RoutesOf(p) : RoutesOf(p)[i].kind # "api"

Start ==
    /\ up = "down"
    /\ up' = IF dev /\ HasMount(Existing) THEN "failed" ELSE "up"
    /\ files' = FilesNow
    /\ IF up' = "failed" THEN UNCHANGED <<routes, imported, fake, cache>>
       ELSE IF ~dev THEN StartAll
       ELSE \E pref \in Methods : IF cache.exists THEN StartFromCache(pref)
                                  ELSE CreateRouteMap({}, pref)
    /\ fallback' = [f \in Fallbacks |-> {IF f = "preflight" THEN "OPTIONS" ELSE "GET"}]
    /\ accepted' = TRUE
    /\ UNCHANGED <<dev, fsVars>>

\* The process ends; a failed one may be started again.
Stop ==
    /\ up # "down"
    /\ up' = "down"
    /\ routes' = <<>> /\ imported' = {} /\ fake' = {} /\ files' = <<>>
    /\ accepted' = TRUE
    /\ UNCHANGED <<dev, fsVars, fallback, cache>>

\* A developer changes a page to its next variant, creates or removes it.
Edit(p) ==
    /\ clock < MaxEdits
    /\ clock' = clock + 1
    /\ mtime' = [mtime EXCEPT ![p] = clock + 1]
    /\ fs' = [fs EXCEPT ![p] = IF @ = Len(Decls[p]) THEN 0 ELSE @ + 1]
    /\ UNCHANGED <<dev, procVars, cache, accepted>>

\* The pages of the fake routes that a request matches best, more than one only
\* where pages declare the same method and path: the code takes the one that was
\* added first.  The HEAD fallback of find_route looks without the prefix and
\* finds none.
FakeHit(path, method) ==
    LET hits == {e \in fake : e.method = method
                   /\ Matches([kind |-> "api", path |-> e.path], Strip(path))}
        key(e) == get_route_sort_key([kind |-> "api", path |-> e.path])
    IN {e.page : e \in {h \in hits : \A d \in hits : ~KeyLess(key(d), key(h))}}

\* The page import_route imports; the module of frontik.app always is.
Targets(path, method) ==
    IF dev /\ FakeHit(path, method) # {} THEN FakeHit(path, method) ELSE {"app"}

\* Mutant of OnDemand: the list is not sorted after the import.
OnDemandUnsorted(page) == IF dev THEN Import(routes, imported, {page}) ELSE routes

\* import_route: the page of the fake route is imported, the list sorted.
OnDemand(page) == IF dev THEN Sorted(Import(routes, imported, {page})) ELSE routes

\* Mutant of Needed: pages imported on demand are not remembered.
NeededNone(page) == {}

\* What is imported now, if it was not before.
Needed(page) == {page} \ (imported \cup {"app"})

\* process_request up to the handler of the route found.
Request(path, method) ==
    \E page \in Targets(path, method) :
        LET list == OnDemand(page)
            c == Choice(list, path, method)
        IN /\ up = "up"
           /\ Needed(page) \subseteq Existing
           /\ Widen(list, c, method)
           /\ imported' = imported \cup Needed(page)
           /\ accepted' = IF c.place = 0 THEN method \in fallback'[c.fallback]
                          ELSE list[c.place].kind = "api" => method \in routes'[c.place].methods
           /\ UNCHANGED <<dev, fsVars, up, files, fake, cache>>

\* The page was removed since the start: the import raises.
RequestFails(path, method) ==
    /\ up = "up"
    /\ \E page \in Targets(path, method) : ~(Needed(page) \subseteq Existing)
    /\ UNCHANGED vars

-----------------------------------------------------------------------------
Next == \/ Start \/ Stop
        \/ \E p \in PageSet : Edit(p)
        \/ \E path \in Paths, method \in Methods :
              Request(path, method) \/ RequestFails(path, method)

Spec == Init /\ [][Next]_vars

-----------------------------------------------------------------------------
(* Properties.                                                             *)

\* One pattern is as specific as another at the first place they differ.
AtLeastAsSpecific(q, r) ==
    LET differ == {i \in DOMAIN q.path : q.path[i] # r.path[i]}
    IN differ = {} \/ ~is_param_segment(q.path[Min(differ)])

\* The search, which takes the first match of a list that is sorted at the
\* start, then extended by routers and imports, finds the most specific route
\* that matches, and prefers any route to a mount.
FirstIsMostSpecific ==
    up = "up" => \A path \in Paths, m \in Methods :
        LET p == Strip(path)  found == FindExact(routes, p, m) IN
        found # 0 => \A i \in DOMAIN routes :
            routes[i].kind = "api" /\ m \in routes[i].methods /\ Matches(routes[i], p)
            => /\ routes[found].kind = "api"
               /\ AtLeastAsSpecific(routes[found], routes[i])

\* The handler of the route found never refuses the method it was found for.
HandlerAccepts == accepted

\* What the comments of get_route_sort_key say: "Exact routes first", "Routes with
\* params come after exact routes", for HEAD as for the GET it falls back on.
ExactRoutesFirst ==
    up = "up" => \A path \in Paths, m \in Methods :
        LET c == Choice(routes, path, m) IN
        c.place # 0 /\ get_route_sort_key(routes[c.place]).class = 2
        => ~\E i \in DOMAIN routes :
              /\ get_route_sort_key(routes[i]).class = 1
              /\ Matches(routes[i], Strip(path))
              /\ m \in routes[i].methods \/ (m = "HEAD" /\ "GET" \in routes[i].methods)

\* The list as it would be if all pages were imported now.
FullList == Sorted(Import(BuiltinRoutes, {}, Existing))
\* No page has been edited since the process started, and none that the cache
\* excludes has got routes since.
Settled == /\ files = FilesNow
           /\ \A p \in cache.exclude \cap Existing : RoutesOf(p) = <<>>

\* No two pages ever declare the same method and path, in whatever variant.
DeclaredBy(p) == UNION {{Declared(p, Decls[p][v])[i] : i \in DOMAIN Decls[p][v]} :
                           v \in DOMAIN Decls[p]}
EverDeclared == {BuiltinRoutes[i] : i \in DOMAIN BuiltinRoutes}
                \cup UNION {DeclaredBy(p) : p \in PageSet}
Distinct == \A r, s \in EverDeclared :
    r.path = s.path /\ EntryMethods(r) \cap EntryMethods(s) # {} => r.page = s.page

\* On demand the same page answers as if all were imported, whatever was edited
\* between earlier runs: the routes map never hides a page.  Routes with one
\* method, and requests that a page serves; HEAD is left out (its fallback does
\* not look among the fake routes).
OnDemandAgrees ==
    LET all == FullList
        single == \A i \in DOMAIN all : \E x \in Methods : all[i].methods = {x}
    IN up = "up" /\ dev /\ Settled /\ single /\ Distinct =>
        \A path \in Paths, m \in Methods \ {"HEAD"} :
            LET full == Choice(all, path, m) IN
            full.place # 0 =>
                \A page \in Targets(path, m) :
                    LET list == OnDemand(page)
                    IN PageOf(list, Choice(list, path, m)) = PageOf(all, full)

=============================================================================
