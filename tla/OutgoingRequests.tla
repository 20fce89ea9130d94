-------------------------- MODULE OutgoingRequests --------------------------
(***************************************************************************)
(* Requests that call other services: the time left is handed down in the  *)
(* X-Deadline-Timeout-Ms header, the debug mode in X-Hh-Debug, and what    *)
(* happened to a call decides what its caller answers (balancing_client,   *)
(* timeout_tracking, auth, DebugMode).  Every service of the tree runs     *)
(* frontik; a client outside sends the roots.  Time is counted in half     *)
(* milliseconds, so that the roundings of the headers show; headers hold   *)
(* whole milliseconds.                                                     *)
(***************************************************************************)
EXTENDS Integers, Sequences, FiniteSets

CONSTANTS
    Clients,     \* the headers and parameters a client may send
    Services,    \* the options of the services: decrease, debug, access
    OwnTimeouts, \* request_timeout of a call, in half milliseconds
    Codes,       \* statuses a handler answers of its own accord
    Threshold,   \* TimeoutChecker's threshold_ms, in half milliseconds
    MaxRoots,    \* bound: requests of clients
    MaxRequests, \* bound: requests in all
    MaxChildren, \* bound: requests whose handler creates a task, one each
    Horizon      \* bound: the clock

VARIABLES
    now,      \* the clock
    reqs,     \* every request, in the order they were sent
    tasks,    \* the tasks of each request, with what their context variables hold
    overruns  \* TimeoutCounter: calls that may outlast their caller's timeout

vars == <<now, reqs, tasks, overruns>>

-----------------------------------------------------------------------------
Absent == -1                     \* a header that was not sent, a time not reached
INSUFFICIENT_TIMEOUT == 477
SERVER_TIMEOUT == 577
Passed == {569, 404, 403, 401}   \* NON_CRITICAL_BAD_GATEWAY, not found, forbidden...
Good == "good"
None == "none"

Secrets == {None, Good, "bad"}
Credentials == [direct : Secrets, basic : Secrets]

\* What a request carries: its id, X-Outer-Timeout-Ms, X-Deadline-Timeout-Ms,
\* the debug parameter, notpl (or notrl, noxsl), X-Hh-Debug, and credentials.
Headers ==
    [rid : Int, outer : Nat \cup {Absent}, deadline : Nat \cup {Absent},
     debug : {None, "on", "nopass"}, notpl : BOOLEAN, inherited : BOOLEAN, cred : Credentials]

\* A handler does not answer with the statuses of timeouts on its own.
ASSUME OutgoingAssumption ==
    /\ Clients \subseteq Headers
    /\ Services \subseteq [decrease : BOOLEAN, debug : BOOLEAN,
                       access : {"ask", "granted", "refused"}]
    /\ OwnTimeouts \subseteq Nat \ {0}
    /\ Codes \subseteq Nat \ {INSUFFICIENT_TIMEOUT, SERVER_TIMEOUT, 504}
    /\ Horizon \in Nat

(***************************************************************************)
(* Debug mode                                                              *)
(***************************************************************************)
need_auth(h) == h.debug # None \/ h.inherited \/ h.notpl

\* auth.py: the Frontik-Debug-Auth header decides when it is there.
check_debug_auth(cred) ==
    IF cred.direct # None THEN cred.direct = Good ELSE cred.basic = Good

\* A wrong form: the inherited header alone is taken for a permission.
auth_failed_trusting(svc, h) ==
    /\ svc.access # "granted"
    /\ ~h.inherited
    /\ \/ svc.access = "refused"
       \/ ~svc.debug /\ ~check_debug_auth(h.cred)

\* require_debug_access; access is what the application's own hook decided.
auth_failed(svc, h) ==
    /\ svc.access # "granted"
    /\ \/ svc.access = "refused"
       \/ ~svc.debug /\ ~check_debug_auth(h.cred)

NoDebug == [enabled |-> FALSE, pass_debug |-> FALSE, debug_response |-> FALSE]

\* A wrong form: only a request that gets a debug page is in debug mode.
on_auth_ok_page(h) ==
    [enabled |-> h.debug # None \/ h.inherited,
     pass_debug |-> h.debug # "nopass" \/ h.inherited,
     debug_response |-> h.debug # None \/ h.inherited]

on_auth_ok(h) ==
    [enabled |-> TRUE,
     pass_debug |-> h.debug # "nopass" \/ h.inherited,
     debug_response |-> h.debug # None \/ h.inherited]

make_debug_mode(h) == IF need_auth(h) THEN on_auth_ok(h) ELSE NoDebug

(***************************************************************************)
(* Time left                                                               *)
(***************************************************************************)
\* f'{x:.0f}' of x half milliseconds: the nearest whole one, a half to the
\* even neighbour.
Rounded(x) ==
    LET m == x \div 2 IN IF x % 2 = 1 /\ m % 2 = 1 THEN m + 1 ELSE m

\* int() of x half milliseconds: towards zero.
Truncated(x) == IF x >= 0 THEN x \div 2 ELSE -((-x) \div 2)

HasLimit(h) == h.deadline # Absent \/ h.outer > 0
header_timeout(h) == IF h.deadline # Absent THEN h.deadline ELSE h.outer
Spent(r) == now - r.start

\* A wrong form: the time already spent is forgotten.
BudgetUnspent(r, own) ==
    IF r.svc.decrease /\ HasLimit(r.hdr) /\ 2 * header_timeout(r.hdr) < own
    THEN 2 * header_timeout(r.hdr) ELSE own

\* request_timeout of a call made for r, as the hook leaves it.
Budget(r, own) ==
    IF r.svc.decrease /\ HasLimit(r.hdr)
    THEN LET left == 2 * Truncated(2 * header_timeout(r.hdr) - Spent(r))
         IN  IF left < own THEN left ELSE own
    ELSE own

OutOfTime(budget) == budget <= 0

\* TimeoutChecker.check: the call may take longer than the caller waits.
Overruns(r, budget) ==
    /\ r.hdr.outer > 0
    /\ budget - (2 * r.hdr.outer - Spent(r)) > Threshold

timeout_was_reduced(h) ==
    h.deadline # Absent /\ h.outer # Absent /\ h.deadline < h.outer

\* out_of_request_time_error_handler
out_of_request_time(h) ==
    IF timeout_was_reduced(h) THEN INSUFFICIENT_TIMEOUT ELSE SERVER_TIMEOUT

\* A wrong form: 577 of a callee is handed on as it came.
fail_fast_copied(h, code) ==
    IF code = INSUFFICIENT_TIMEOUT THEN out_of_request_time(h)
    ELSE IF code \in Passed \cup {SERVER_TIMEOUT} THEN code
    ELSE IF code >= 500 THEN 502
    ELSE 500

\* fail_fast_error_handler; 500 for 4xx and for an answer that was not parsed.
fail_fast(h, code) ==
    IF code = INSUFFICIENT_TIMEOUT THEN out_of_request_time(h)
    ELSE IF code = SERVER_TIMEOUT THEN 504
    ELSE IF code \in Passed THEN code
    ELSE IF code >= 500 THEN 502
    ELSE 500

(***************************************************************************)
(* Context variables.  request_context and extra_client_params name the    *)
(* request whose RequestContext and whose hook they hold, 0 none.  A task  *)
(* has a context of its own, a copy of its creator's at the time it was    *)
(* created.                                                                *)
(***************************************************************************)
\* No task; and what the task that reads the connection finds.
NoTask == [live |-> FALSE, rc |-> 0, hook |-> 0]

create_task(creator) == [live |-> TRUE, rc |-> creator.rc, hook |-> creator.hook]

\* The task of process_request, and one the handler created, which may outlive
\* it: gathered by the handler or left behind (as are, for what they find in
\* their context, the background tasks of a response).
NoTasks == [page |-> NoTask, child |-> NoTask]

\* serve_tornado_request, in a task of the connection's, sets request_context
\* and creates the task of process_request.
EnterPage(ts, i) == [ts EXCEPT ![i].page = create_task([create_task(NoTask) EXCEPT !.rc = i])]

\* A wrong form: the hook is kept in a global of the module.
set_extra_client_params_global(ts, i) ==
    [j \in DOMAIN ts |-> [ts[j] EXCEPT !.page.hook = i, !.child.hook = i]]

\* FrontikMiddleware, in the task of process_request.
set_extra_client_params(ts, i) == [ts EXCEPT ![i].page.hook = i]

\* The application has returned: the variable is reset, and the task ends.
Left(ts, i) == [ts EXCEPT ![i].page = [live |-> FALSE, rc |-> @.rc, hook |-> 0]]

\* A request that is denied is answered before the application is called.
Entered(ts, i, denied) ==
    IF denied THEN ts ELSE set_extra_client_params(EnterPage(ts, i), i)

(***************************************************************************)
(* Steps                                                                   *)
(***************************************************************************)
Init == now = 0 /\ reqs = <<>> /\ tasks = <<>> /\ overruns = {}

\* root and until are history: the root of the tree, and when the time of the
\* chain of callers is over.
Fresh(hdr, unwrap, from, root, svc, budget, fast) ==
    [hdr |-> hdr, unwrap |-> unwrap, from |-> from, root |-> root, svc |-> svc,
     budget |-> budget, fast |-> fast, sent |-> now, start |-> Absent, until |-> Absent,
     st |-> "transit", code |-> 0, wrapped |-> FALSE, seen |-> 0, mode |-> NoDebug]

\* The end of r's chain of callers: a caller that takes its own time over
\* starts a new one.  Each hop may add its time on the way and, by rounding,
\* half a millisecond.
ChainEnd(r) ==
    IF r.from # 0 /\ reqs[r.from].svc.decrease /\ HasLimit(reqs[r.from].hdr)
    THEN reqs[r.from].until + (now - r.sent) + 1
    ELSE now + 2 * header_timeout(r.hdr)

Denied(r) == need_auth(r.hdr) /\ auth_failed(r.svc, r.hdr)

\* request_context and make_debug_mode: request i gets its id, and its debug
\* mode or 401.
Arrived(r, i) ==
    LET denied == Denied(r)
    IN  [r EXCEPT !.hdr.rid = IF @ = Absent THEN i ELSE @,
                  !.start = now,
                  !.until = ChainEnd(r),
                  !.mode = IF denied THEN NoDebug ELSE make_debug_mode(r.hdr),
                  !.st = IF denied THEN "answered" ELSE "running",
                  !.code = IF denied THEN 401 ELSE 0]

Roots == {i \in 1..Len(reqs) : reqs[i].from = 0}

\* A client's request; how long it was on the way matters to nobody.
ClientRequest(h, svc) ==
    /\ Len(reqs) < MaxRequests /\ Cardinality(Roots) < MaxRoots
    /\ LET i == Len(reqs) + 1
           r == Fresh(h, FALSE, 0, i, svc, 0, FALSE)
       IN  /\ reqs' = Append(reqs, Arrived(r, i))
           /\ tasks' = Entered(Append(tasks, NoTasks), i, Denied(r))
    /\ UNCHANGED <<now, overruns>>

Arrive(i) ==
    /\ reqs[i].st = "transit"
    /\ reqs' = [reqs EXCEPT ![i] = Arrived(@, i)]
    /\ tasks' = Entered(tasks, i, Denied(reqs[i]))
    /\ UNCHANGED <<now, overruns>>

Parents == {i \in 1..Len(tasks) : tasks[i].child.live}

\* The handler creates a task, for a gather or to be left behind.
CreateTask(i) ==
    /\ reqs[i].st = "running" /\ ~tasks[i].child.live
    /\ Cardinality(Parents) < MaxChildren
    /\ tasks' = [tasks EXCEPT ![i].child = create_task(tasks[i].page)]
    /\ UNCHANGED <<now, reqs, overruns>>

\* The answer of a request, wrapped in a debug page if it asked for one.
Answered(i, code) ==
    [reqs EXCEPT ![i].st = "answered", ![i].code = code,
                 ![i].wrapped = reqs[i].mode.debug_response]

NoCredentials == [direct |-> None, basic |-> None]

\* What modify_http_client_request writes on a call made for r.
Modified(r, rid, own) ==
    [rid |-> rid,
     outer |-> Rounded(own),
     deadline |-> Rounded(Budget(r, own)),
     inherited |-> r.mode.pass_debug,
     cred |-> IF r.mode.pass_debug THEN r.hdr.cred ELSE NoCredentials,
     debug |-> None, notpl |-> FALSE]

\* A call without a hook goes out as it is.
Unmodified ==
    [rid |-> Absent, outer |-> Absent, deadline |-> Absent, inherited |-> FALSE,
     cred |-> NoCredentials, debug |-> None, notpl |-> FALSE]

\* get_request_id of the calling task; the hook is called with its headers.
RequestId(c) == IF c.rc = 0 THEN Absent ELSE reqs[c.rc].hdr.rid
Hooked(c, own) == IF c.hook = 0 THEN Unmodified ELSE Modified(reqs[c.hook], RequestId(c), own)
BudgetIn(c, own) == IF c.hook = 0 THEN own ELSE Budget(reqs[c.hook], own)
debug_enabled(c) == c.hook # 0 /\ reqs[c.hook].mode.enabled

\* A call of request i by its task t, with what t finds in its context.
\* Without time it is not made, and the handler answers for it.
Call(i, t, own, svc, fast) ==
    /\ tasks[i][t].live
    /\ Len(reqs) < MaxRequests
    /\ LET c == tasks[i][t]
           budget == BudgetIn(c, own)
       IN  /\ ~OutOfTime(budget)
           /\ reqs' = Append(reqs, Fresh(Hooked(c, own), debug_enabled(c), i, reqs[i].root,
                                         svc, budget, fast))
           /\ overruns' = IF c.hook # 0 /\ Overruns(reqs[c.hook], budget)
                           THEN overruns \cup {<<reqs[c.hook].hdr.outer, budget>>}
                           ELSE overruns
    /\ tasks' = Append(tasks, NoTasks)
    /\ UNCHANGED now

\* Raised in the handler, by a call of its own or of a task it gathers.
OutOfRequestTime(i, own) ==
    /\ reqs[i].st = "running"
    /\ OutOfTime(BudgetIn(tasks[i].page, own))
    /\ reqs' = Answered(i, out_of_request_time(reqs[i].hdr))
    /\ tasks' = Left(tasks, i)
    /\ UNCHANGED <<now, overruns>>

Answer(i, code) ==
    /\ reqs[i].st = "running"
    /\ reqs' = Answered(i, code)
    /\ tasks' = Left(tasks, i)
    /\ UNCHANGED <<now, overruns>>

\* Call c is awaited by its handler; once that has answered, what becomes of
\* the call changes nothing.
Awaited(c) ==
    reqs[c].from # 0 /\ reqs[c].seen = 0 /\ reqs[reqs[c].from].st = "running"

\* The client library's result of call c.  A failed one raises in the handler
\* if the call was made with fail_fast.
Result(c, code, parsed) ==
    LET i == reqs[c].from
        told == [reqs EXCEPT ![c].seen = code]
        fails == reqs[c].fast /\ (code >= 400 \/ ~parsed)
    IN  /\ reqs' = IF fails
                   THEN [told EXCEPT ![i].st = "answered",
                                     ![i].code = fail_fast(reqs[i].hdr, code),
                                     ![i].wrapped = reqs[i].mode.debug_response]
                   ELSE told
        /\ tasks' = IF fails THEN Left(tasks, i) ELSE tasks

\* The answer reaches the caller.  A call made with debug_enabled unwraps a debug
\* page, any other takes the page, whose status is 200, for the answer.
Receive(c, parsed) ==
    /\ Awaited(c) /\ reqs[c].st = "answered"
    /\ parsed \/ reqs[c].fast       \* only a fail-fast caller acts on it
    /\ LET code == IF reqs[c].wrapped /\ ~reqs[c].unwrap THEN 200 ELSE reqs[c].code
       IN  Result(c, code, parsed)
    /\ UNCHANGED <<now, overruns>>

\* The client library gives up: 477 if the call had less than its own timeout.
CallTimeout(c) ==
    /\ Awaited(c)
    /\ now - reqs[c].sent >= reqs[c].budget
    /\ Result(c, out_of_request_time(reqs[c].hdr), TRUE)
    /\ UNCHANGED <<now, overruns>>

Tick ==
    /\ now < Horizon
    /\ now' = now + 1
    /\ UNCHANGED <<reqs, tasks, overruns>>

Next ==
    \/ \E h \in Clients, svc \in Services : ClientRequest(h, svc)
    \/ \E i \in 1..Len(reqs) :
          \/ Arrive(i)
          \/ CreateTask(i)
          \/ \E t \in {"page", "child"}, own \in OwnTimeouts, svc \in Services, fast \in BOOLEAN :
                Call(i, t, own, svc, fast)
          \/ \E own \in OwnTimeouts : OutOfRequestTime(i, own)
          \/ \E code \in Codes : Answer(i, code)
          \/ \E parsed \in BOOLEAN : Receive(i, parsed)
          \/ CallTimeout(i)
    \/ Tick

Spec == Init /\ [][Next]_vars

(***************************************************************************)
(* Properties                                                              *)
(***************************************************************************)
Started(i) == reqs[i].start # Absent
Children(i) == {c \in 1..Len(reqs) : reqs[c].from = i}

Request ==
    [hdr : Headers, unwrap : BOOLEAN, from : Nat, root : Nat, svc : Services, budget : Nat,
     fast : BOOLEAN,
     sent : Nat, start : Nat \cup {Absent}, until : Int, st : {"transit", "running", "answered"},
     code : Nat, wrapped : BOOLEAN, seen : Nat,
     mode : [enabled : BOOLEAN, pass_debug : BOOLEAN, debug_response : BOOLEAN]]

Task == [live : BOOLEAN, rc : Nat, hook : Nat]

\* Every request is well formed, was sent before it was started and is called
\* by an earlier one, with time left.
TypeOK ==
    /\ now \in 0..Horizon
    /\ overruns \subseteq (Nat \X Nat)
    /\ reqs \in Seq(Request)
    /\ tasks \in Seq([page : Task, child : Task]) /\ Len(tasks) = Len(reqs)
    /\ \A i \in 1..Len(reqs) :
          /\ reqs[i].from \in 0..(i - 1)
          /\ reqs[i].from # 0 => reqs[i].budget > 0
          /\ reqs[i].sent <= now
          /\ reqs[i].start # Absent => reqs[i].start \in reqs[i].sent..now

\* However deep the calls go, whoever makes them and however late: a service is
\* never given time past the end of its callers', but for the time its request
\* and theirs were on the way and half a millisecond per hop for the rounding
\* of the header (modify_http_client_request).
NestedDeadlines ==
    \A i \in 1..Len(reqs) :
        Started(i) /\ HasLimit(reqs[i].hdr)
            => reqs[i].start + 2 * header_timeout(reqs[i].hdr) <= reqs[i].until

\* A timeout is blamed on the one who set it: 477 is answered only by a service
\* whose time its caller had cut, 577 only by one that had the whole timeout,
\* and 504 only by one that gave some callee the whole timeout in vain.
BlameFitsBudget ==
    \A i \in 1..Len(reqs) : reqs[i].st = "answered" =>
        /\ reqs[i].code = INSUFFICIENT_TIMEOUT => timeout_was_reduced(reqs[i].hdr)
        /\ reqs[i].code = SERVER_TIMEOUT => ~timeout_was_reduced(reqs[i].hdr)
        /\ reqs[i].code = 504 => \E c \in Children(i) : ~timeout_was_reduced(reqs[c].hdr)

\* A debug page goes only to a call that unwraps it: no service takes the page
\* of another for its answer (DebugMode.pass_debug, and debug_enabled as the
\* calling task finds it).
PagesAreUnwrapped ==
    \A c \in 1..Len(reqs) :
        reqs[c].from # 0 /\ reqs[c].st = "answered" /\ reqs[c].wrapped => reqs[c].unwrap

\* However far down the tree: a service that asks for credentials runs in debug
\* mode only if the client at the root gave the right ones (require_debug_access).
DebugNeedsCredentials ==
    \A i \in 1..Len(reqs) :
        reqs[i].mode.enabled /\ ~reqs[i].svc.debug /\ reqs[i].svc.access # "granted"
            => check_debug_auth(reqs[reqs[i].root].hdr.cred)

\* What a call carries is its own request's, though others are served at once
\* and the task that makes it may have outlived the reset of the variables: the
\* id of its root, the debug mode of its caller, and no credentials but those
\* the client of this tree gave (set_extra_client_params, request_context).
CarriesItsOwn ==
    \A i \in 1..Len(reqs) : reqs[i].from # 0 =>
        LET p == reqs[reqs[i].from]
            root == reqs[reqs[i].root]
        IN  /\ reqs[i].hdr.rid = root.hdr.rid
            /\ reqs[i].hdr.inherited = p.mode.pass_debug
            /\ reqs[i].unwrap = p.mode.enabled
            /\ reqs[i].hdr.cred \in {NoCredentials, root.hdr.cred}

=============================================================================
