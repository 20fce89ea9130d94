---------------------------- MODULE RequestServing ----------------------------
(***************************************************************************)
(* How one worker serves HTTP requests: TornadoConnectionHandler feeds the *)
(* body of a request into a bounded queue, serve_tornado_request takes a   *)
(* slot of the active-handlers limit and awaits the task process_request,  *)
(* which runs the ASGI application, and the close callback of the          *)
(* connection cancels that task when the client goes away.                 *)
(*                                                                         *)
(* Everything runs on one asyncio loop, so an action is the code between   *)
(* two awaits.  The loop may run the ready callbacks in any order here,    *)
(* which covers every order asyncio can produce.  Tornado (reading the     *)
(* body, noticing a closed socket) and the ASGI application are external   *)
(* and modelled by what they may do to the code of the repository.         *)
(***************************************************************************)
EXTENDS Integers, Sequences, FiniteSets

CONSTANTS
    Requests,           \* requests, each the current one of its connection
    MaxActiveHandlers,  \* options.max_active_handlers
    NChunks,            \* bound: body chunks a client sends at most, by request
    QueueMax            \* maxsize of body_chunks (100000 in the code)

ASSUME ServingAssumption ==
    /\ IsFiniteSet(Requests)
    /\ MaxActiveHandlers \in Nat
    /\ NChunks \in [Requests -> Nat]
    /\ QueueMax \in Nat \ {0}

VARIABLES
    count,           \* ActiveHandlersLimit.count, shared by all requests
    acquired,        \* ActiveHandlersLimit.acquired of the request's limiter
    serve,           \* where serve_tornado_request is
    task,            \* where process_request_task is
    cancelling,      \* process_request_task.cancel() called, not yet delivered
    debug,           \* debug_mode.debug_response
    status,          \* response.status_code
    headers_written, \* response.headers_written
    response_done,   \* tornado_request.response_done
    queue,           \* tornado_request.body_chunks
    finished,        \* tornado_request.finished
    canceled,        \* tornado_request.canceled
    phase,           \* what tornado did with the body
    arrived,         \* chunks delivered to data_received
    seen,            \* chunks the application has received
    bodyEnd,         \* how the body ended for the application
    open,            \* the socket is open
    wired,           \* the stream's close callback is registered by tornado
    closeCb,         \* set_close_callback(_on_connection_close) is in force
    write_finished,  \* connection.finish() was called
    dto,             \* the response the integrations hold
    logged,          \* statuses written to the access log
    wire             \* response header blocks written to the socket

respVars == <<debug, status, headers_written, response_done>>
bodyVars == <<queue, finished, canceled, phase, arrived, seen, bodyEnd>>
connVars == <<open, wired, closeCb, write_finished>>
obsVars  == <<dto, logged, wire>>
slotVars == <<count, acquired>>

vars == <<count, acquired, serve, task, cancelling, debug, status,
          headers_written, response_done, queue, finished, canceled, phase,
          arrived, seen, bodyEnd, open, wired, closeCb, write_finished,
          dto, logged, wire>>

EOF == 0        \* the marker put behind the last chunk; chunk i is i

NoStatus == 0
OK == 200
Unauthorized == 401
ClientClosedRequest == 499
ServerError == 500
ServiceUnavailable == 503

Statuses == {NoStatus, OK, Unauthorized, ClientClosedRequest, ServerError,
             ServiceUnavailable}

ServeStates == {"none", "created", "awaiting", "writing", "done"}
TaskDone    == {"finished", "cancelled", "raised"}
TaskStates  == {"none", "created", "running", "receiving", "starting",
                "chunking"} \cup TaskDone

TypeResp ==
    /\ debug \in [Requests -> BOOLEAN]
    /\ status \in [Requests -> Statuses]
    /\ headers_written \in [Requests -> BOOLEAN]
    /\ response_done \in [Requests -> BOOLEAN]

TypeBody ==
    /\ queue \in [Requests -> Seq(Nat)]
    /\ finished \in [Requests -> BOOLEAN]
    /\ canceled \in [Requests -> BOOLEAN]
    /\ phase \in [Requests -> {"reading", "read", "aborted", "broken"}]
    /\ arrived \in [Requests -> Nat]
    /\ \A r \in Requests : arrived[r] <= NChunks[r]
    /\ seen \in [Requests -> Seq(Nat)]
    /\ bodyEnd \in [Requests -> {"no", "complete", "disconnect"}]

TypeConn ==
    /\ open \in [Requests -> BOOLEAN]
    /\ wired \in [Requests -> BOOLEAN]
    /\ closeCb \in [Requests -> BOOLEAN]
    /\ write_finished \in [Requests -> BOOLEAN]

TypeObs ==
    /\ dto \in [Requests -> {"none", "response", "closed"}]
    /\ logged \in [Requests -> Seq(Statuses)]
    /\ wire \in [Requests -> Nat]

TypeTask ==
    /\ acquired \in [Requests -> BOOLEAN]
    /\ serve \in [Requests -> ServeStates]
    /\ task \in [Requests -> TaskStates]
    /\ cancelling \in [Requests -> BOOLEAN]

TypeOK == count \in Nat /\ TypeTask /\ TypeResp /\ TypeBody /\ TypeConn /\ TypeObs

Init ==
    /\ count = 0
    /\ acquired = [r \in Requests |-> FALSE]
    /\ serve = [r \in Requests |-> "none"]
    /\ task = [r \in Requests |-> "none"]
    /\ cancelling = [r \in Requests |-> FALSE]
    /\ debug = [r \in Requests |-> FALSE]
    /\ status = [r \in Requests |-> NoStatus]
    /\ headers_written = [r \in Requests |-> FALSE]
    /\ response_done = [r \in Requests |-> FALSE]
    /\ queue = [r \in Requests |-> <<>>]
    /\ finished = [r \in Requests |-> FALSE]
    /\ canceled = [r \in Requests |-> FALSE]
    /\ phase = [r \in Requests |-> "reading"]
    /\ arrived = [r \in Requests |-> 0]
    /\ seen = [r \in Requests |-> <<>>]
    /\ bodyEnd = [r \in Requests |-> "no"]
    /\ open = [r \in Requests |-> TRUE]
    /\ wired = [r \in Requests |-> FALSE]
    /\ closeCb = [r \in Requests |-> FALSE]
    /\ write_finished = [r \in Requests |-> FALSE]
    /\ dto = [r \in Requests |-> "none"]
    /\ logged = [r \in Requests |-> <<>>]
    /\ wire = [r \in Requests |-> 0]

-----------------------------------------------------------------------------
(* The connection: tornado's reading loop and the delegate it calls.       *)

\* headers_received: the request object is made and its serving task created.
HeadersReceived(r) ==
    /\ serve[r] = "none"
    /\ serve' = [serve EXCEPT ![r] = "created"]
    /\ UNCHANGED <<slotVars, task, cancelling, respVars, bodyVars, connVars,
                   obsVars>>

\* Tornado reads the next chunk only once the put of the last one is done, so
\* a full queue holds the client back.  After connection.finish() the rest of
\* the body is diverted from the delegate.
DataReceived(r) ==
    /\ serve[r] # "none"
    /\ phase[r] = "reading"
    /\ ~write_finished[r]
    /\ arrived[r] < NChunks[r]
    /\ Len(queue[r]) < QueueMax
    /\ arrived' = [arrived EXCEPT ![r] = @ + 1]
    /\ queue' = [queue EXCEPT ![r] = Append(@, arrived[r] + 1)]
    /\ UNCHANGED <<slotVars, serve, task, cancelling, respVars, finished,
                   canceled, phase, seen, bodyEnd, connVars, obsVars>>

\* Mutant of Finish: the reader is not told that the body is over.
FinishWithoutEof(r) ==
    /\ serve[r] # "none"
    /\ phase[r] = "reading"
    /\ ~write_finished[r]
    /\ finished' = [finished EXCEPT ![r] = TRUE]
    /\ phase' = [phase EXCEPT ![r] = "read"]
    /\ wired' = [wired EXCEPT ![r] = open[r]]
    /\ closeCb' = [closeCb EXCEPT ![r] = IF open[r] THEN @ ELSE FALSE]
    /\ UNCHANGED <<slotVars, serve, task, cancelling, respVars, canceled,
                   queue, arrived, seen, bodyEnd, open, write_finished,
                   obsVars>>

\* The whole body is read.  put_nowait(EOF) raises QueueFull on a full queue;
\* tornado answers an exception of the delegate by closing the connection and
\* dropping its callbacks.  Otherwise it waits for the answer and registers
\* the stream's close callback, unless the socket is closed by then.
Finish(r) ==
    /\ serve[r] # "none"
    /\ phase[r] = "reading"
    /\ ~write_finished[r]
    /\ finished' = [finished EXCEPT ![r] = TRUE]
    /\ \/ /\ Len(queue[r]) < QueueMax
          /\ queue' = [queue EXCEPT ![r] = Append(@, EOF)]
          /\ phase' = [phase EXCEPT ![r] = "read"]
          /\ wired' = [wired EXCEPT ![r] = open[r]]
          /\ closeCb' = [closeCb EXCEPT ![r] = IF open[r] THEN @ ELSE FALSE]
          /\ UNCHANGED open
       \/ /\ Len(queue[r]) >= QueueMax
          /\ phase' = [phase EXCEPT ![r] = "broken"]
          /\ open' = [open EXCEPT ![r] = FALSE]
          /\ closeCb' = [closeCb EXCEPT ![r] = FALSE]
          /\ UNCHANGED <<queue, wired>>
    /\ UNCHANGED <<slotVars, serve, task, cancelling, respVars, canceled,
                   arrived, seen, bodyEnd, write_finished, obsVars>>

\* The socket closed before the body was read: the delegate's
\* on_connection_close marks the request and wakes its reader; tornado then
\* drops the callbacks of the connection.
AbortBody(r) ==
    /\ serve[r] # "none"
    /\ phase[r] = "reading"
    /\ ~open[r]
    /\ finished' = [finished EXCEPT ![r] = TRUE]
    /\ canceled' = [canceled EXCEPT ![r] = TRUE]
    /\ queue' = [queue EXCEPT ![r] = IF Len(@) < QueueMax
                                     THEN Append(@, EOF) ELSE @]
    /\ phase' = [phase EXCEPT ![r] = "aborted"]
    /\ closeCb' = [closeCb EXCEPT ![r] = FALSE]
    /\ UNCHANGED <<slotVars, serve, task, cancelling, respVars, arrived, seen,
                   bodyEnd, open, wired, write_finished, obsVars>>

\* The client closes its connection at any moment before the answer is over.
ClientClose(r) ==
    /\ serve[r] # "none"
    /\ open[r]
    /\ ~write_finished[r]
    /\ open' = [open EXCEPT ![r] = FALSE]
    /\ UNCHANGED <<slotVars, serve, task, cancelling, respVars, bodyVars,
                   wired, closeCb, write_finished, obsVars>>

\* Mutants of OnConnectionClose: no log record; integrations not told.
OnConnectionCloseUnlogged(r) ==
    /\ canceled' = [canceled EXCEPT ![r] = TRUE]
    /\ dto' = [dto EXCEPT ![r] = "closed"]
    /\ cancelling' = [cancelling EXCEPT ![r] = task[r] \notin TaskDone]
    /\ UNCHANGED logged

OnConnectionCloseUntold(r) ==
    /\ logged' = [logged EXCEPT ![r] = Append(@, ClientClosedRequest)]
    /\ canceled' = [canceled EXCEPT ![r] = TRUE]
    /\ cancelling' = [cancelling EXCEPT ![r] = task[r] \notin TaskDone]
    /\ UNCHANGED dto

\* _on_connection_close: an access-log record and the integrations' response,
\* then the task is cancelled, which does nothing to a task that is done.
OnConnectionClose(r) ==
    /\ logged' = [logged EXCEPT ![r] = Append(@, ClientClosedRequest)]
    /\ canceled' = [canceled EXCEPT ![r] = TRUE]
    /\ dto' = [dto EXCEPT ![r] = "closed"]
    /\ cancelling' = [cancelling EXCEPT ![r] = task[r] \notin TaskDone]

\* Tornado notices the closed socket while the answer is awaited.
CloseNoticed(r) ==
    /\ wired[r]
    /\ ~open[r]
    /\ wired' = [wired EXCEPT ![r] = FALSE]
    /\ closeCb' = [closeCb EXCEPT ![r] = FALSE]
    /\ \/ closeCb[r] /\ ~response_done[r] /\ OnConnectionClose(r)
       \/ /\ ~closeCb[r] \/ response_done[r]
          /\ UNCHANGED <<logged, canceled, dto, cancelling>>
    /\ UNCHANGED <<slotVars, serve, task, respVars, queue, finished, phase,
                   arrived, seen, bodyEnd, open, write_finished, wire>>

-----------------------------------------------------------------------------
(* serve_tornado_request up to its first await.                            *)

\* Mutant of Limiter: one more request is let in.
LimiterOffByOne(r) ==
    IF count > MaxActiveHandlers + 1
    THEN UNCHANGED slotVars
    ELSE /\ count' = count + 1
         /\ acquired' = [acquired EXCEPT ![r] = TRUE]

\* ActiveHandlersLimit(): the request is let in unless the count is above the
\* limit already.
Limiter(r) ==
    IF count > MaxActiveHandlers
    THEN UNCHANGED slotVars
    ELSE /\ count' = count + 1
         /\ acquired' = [acquired EXCEPT ![r] = TRUE]

\* The finally of request_limiter, on every way out of the ExitStack.
Release(r) ==
    /\ count' = IF acquired[r] THEN count - 1 ELSE count
    /\ acquired' = [acquired EXCEPT ![r] = FALSE]

ServeStart(r) ==
    /\ serve[r] = "created"
    /\ Limiter(r)
    /\ serve' = [serve EXCEPT ![r] = "awaiting"]
    /\ task' = [task EXCEPT ![r] = "created"]
    /\ closeCb' = [closeCb EXCEPT ![r] = TRUE]
    /\ UNCHANGED <<cancelling, respVars, bodyVars, open, wired,
                   write_finished, obsVars>>

-----------------------------------------------------------------------------
(* process_request: the limiter's verdict, debug access, the route, then   *)
(* the ASGI application between receive and send.                          *)

Active(r, where) == task[r] = where /\ ~cancelling[r]

\* Dropped by the limiter, or refused by the debug-mode authentication.
ProcessRefuse(r) ==
    /\ Active(r, "created")
    /\ \/ ~acquired[r] /\ status' = [status EXCEPT ![r] = ServiceUnavailable]
       \/ acquired[r] /\ status' = [status EXCEPT ![r] = Unauthorized]
    /\ task' = [task EXCEPT ![r] = "finished"]
    /\ UNCHANGED <<slotVars, serve, cancelling, debug, headers_written,
                   response_done, bodyVars, connVars, obsVars>>

\* The debug access check, the import of the route or the lookup raises:
\* nothing in process_request catches it.
ProcessRaise(r) ==
    /\ Active(r, "created")
    /\ acquired[r]
    /\ task' = [task EXCEPT ![r] = "raised"]
    /\ UNCHANGED <<slotVars, serve, cancelling, respVars, bodyVars, connVars,
                   obsVars>>

ProcessStart(r) ==
    /\ Active(r, "created")
    /\ acquired[r]
    /\ \E d \in BOOLEAN : debug' = [debug EXCEPT ![r] = d]
    /\ status' = [status EXCEPT ![r] = OK]
    /\ task' = [task EXCEPT ![r] = "running"]
    /\ UNCHANGED <<slotVars, serve, cancelling, headers_written,
                   response_done, bodyVars, connVars, obsVars>>

\* The application awaits receive() until it has seen the end of the body.
Receive(r) ==
    /\ Active(r, "running")
    /\ bodyEnd[r] = "no"
    /\ task' = [task EXCEPT ![r] = "receiving"]
    /\ UNCHANGED <<slotVars, serve, cancelling, respVars, bodyVars, connVars,
                   obsVars>>

\* Mutant of Message: receive() does not look at canceled.
MessageIgnoringCancel(r, chunk) ==
    IF finished[r] /\ chunk = EOF THEN "complete" ELSE "no"

\* What receive() makes of the item it took from body_chunks.
Message(r, chunk) ==
    IF canceled[r] THEN "disconnect"
    ELSE IF finished[r] /\ chunk = EOF THEN "complete"
    ELSE "no"

ReceiveChunk(r) ==
    /\ Active(r, "receiving")
    /\ queue[r] # <<>>
    /\ queue' = [queue EXCEPT ![r] = Tail(@)]
    /\ bodyEnd' = [bodyEnd EXCEPT ![r] = Message(r, Head(queue[r]))]
    /\ seen' = [seen EXCEPT ![r] = IF Message(r, Head(queue[r])) = "no"
                                   THEN Append(@, Head(queue[r])) ELSE @]
    /\ task' = [task EXCEPT ![r] = "running"]
    /\ UNCHANGED <<slotVars, serve, cancelling, respVars, finished, canceled,
                   phase, arrived, connVars, obsVars>>

\* send of http.response.start.
SendStart(r) ==
    /\ Active(r, "running")
    /\ ~headers_written[r]
    /\ \E code \in {OK, ServerError} : status' = [status EXCEPT ![r] = code]
    /\ UNCHANGED <<slotVars, serve, task, cancelling, debug, headers_written,
                   response_done, bodyVars, connVars, obsVars>>

\* write_start_line up to its await.  On a closed socket tornado's future has
\* failed already: the status becomes 499 and nothing is awaited.
WriteStartLine(r) ==
    IF open[r]
    THEN /\ wire' = [wire EXCEPT ![r] = @ + 1]
         /\ UNCHANGED status
    ELSE /\ status' = [status EXCEPT ![r] = ClientClosedRequest]
         /\ UNCHANGED wire

\* send of the first http.response.body.  In debug mode send only collects
\* the body, which changes nothing here.
SendBody(r) ==
    /\ Active(r, "running")
    /\ ~debug[r]
    /\ ~headers_written[r]
    /\ dto' = [dto EXCEPT ![r] = "response"]
    /\ WriteStartLine(r)
    /\ \/ /\ open[r]
          /\ task' = [task EXCEPT ![r] = "starting"]
          /\ UNCHANGED headers_written
       \/ /\ ~open[r]
          /\ headers_written' = [headers_written EXCEPT ![r] = TRUE]
          /\ UNCHANGED task
    /\ UNCHANGED <<slotVars, serve, cancelling, debug, response_done,
                   bodyVars, connVars, logged>>

\* Mutant of StartLineWritten: headers_written is not set.
StartLineForgotten(r) ==
    /\ Active(r, "starting")
    /\ task' = [task EXCEPT ![r] = "running"]
    /\ UNCHANGED <<slotVars, serve, cancelling, respVars, bodyVars, connVars,
                   obsVars>>

\* The flush is over: send goes on.
StartLineWritten(r) ==
    /\ Active(r, "starting")
    /\ headers_written' = [headers_written EXCEPT ![r] = TRUE]
    /\ task' = [task EXCEPT ![r] = "running"]
    /\ UNCHANGED <<slotVars, serve, cancelling, debug, status, response_done,
                   bodyVars, connVars, obsVars>>

\* A further http.response.body: the empty last one ends the answer, others
\* are written.  A write to a closed socket raises into the application, and
\* execute_asgi_page swallows what the application does not handle.
SendLast(r) ==
    /\ Active(r, "running")
    /\ headers_written[r]
    /\ ~response_done[r]
    /\ response_done' = [response_done EXCEPT ![r] = TRUE]
    /\ UNCHANGED <<slotVars, serve, task, cancelling, debug, status,
                   headers_written, bodyVars, connVars, obsVars>>

SendChunk(r) ==
    /\ Active(r, "running")
    /\ headers_written[r]
    /\ ~response_done[r]
    /\ task' = [task EXCEPT ![r] = IF open[r] THEN "chunking" ELSE "finished"]
    /\ UNCHANGED <<slotVars, serve, cancelling, respVars, bodyVars, connVars,
                   obsVars>>

ChunkWritten(r) ==
    /\ Active(r, "chunking")
    /\ task' = [task EXCEPT ![r] = "running"]
    /\ UNCHANGED <<slotVars, serve, cancelling, respVars, bodyVars, connVars,
                   obsVars>>

\* The application returns, or raises what execute_asgi_page swallows.  In
\* debug mode the debug page replaces the response, or fails to render.
AppReturn(r) ==
    /\ Active(r, "running")
    /\ \/ /\ ~debug[r]
          /\ task' = [task EXCEPT ![r] = "finished"]
          /\ UNCHANGED status
       \/ /\ debug[r]
          /\ status' = [status EXCEPT ![r] = OK]
          /\ \E t \in {"finished", "raised"} : task' = [task EXCEPT ![r] = t]
    /\ UNCHANGED <<slotVars, serve, cancelling, debug, headers_written,
                   response_done, bodyVars, connVars, obsVars>>

\* CancelledError reaches the task where it waits; nothing swallows it.
CancelDelivered(r) ==
    /\ cancelling[r]
    /\ cancelling' = [cancelling EXCEPT ![r] = FALSE]
    /\ task' = [task EXCEPT ![r] = "cancelled"]
    /\ UNCHANGED <<slotVars, serve, respVars, bodyVars, connVars, obsVars>>

-----------------------------------------------------------------------------
(* serve_tornado_request after the task.                                   *)

\* The access-log record, the integrations' response and connection.finish(),
\* after which tornado drops its callbacks and closes a connection whose body
\* it has not read.
Conclude(r, code) ==
    /\ logged' = [logged EXCEPT ![r] = Append(@, code)]
    /\ dto' = [dto EXCEPT ![r] = "response"]
    /\ write_finished' = [write_finished EXCEPT ![r] = TRUE]
    /\ open' = [open EXCEPT ![r] = IF phase[r] = "reading" THEN FALSE ELSE @]
    /\ wired' = [wired EXCEPT ![r] = FALSE]
    /\ serve' = [serve EXCEPT ![r] = "done"]
    /\ Release(r)

\* Mutant of ServeInterrupted: the slot is released on a normal end only.
ServeInterruptedLeaks(r) ==
    /\ serve[r] = "awaiting"
    /\ task[r] \in {"cancelled", "raised"}
    /\ serve' = [serve EXCEPT ![r] = "done"]
    /\ UNCHANGED <<slotVars, task, cancelling, respVars, bodyVars, connVars,
                   obsVars>>

\* The await of a cancelled or failed task raises out of the ExitStack.
ServeInterrupted(r) ==
    /\ serve[r] = "awaiting"
    /\ task[r] \in {"cancelled", "raised"}
    /\ serve' = [serve EXCEPT ![r] = "done"]
    /\ Release(r)
    /\ UNCHANGED <<task, cancelling, respVars, bodyVars, connVars, obsVars>>

Responded(r) == serve[r] = "awaiting" /\ task[r] = "finished"

\* The response came after the client was seen to be gone.
ServeCanceled(r) ==
    /\ Responded(r)
    /\ canceled[r]
    /\ closeCb' = [closeCb EXCEPT ![r] = FALSE]
    /\ serve' = [serve EXCEPT ![r] = "done"]
    /\ Release(r)
    /\ UNCHANGED <<task, cancelling, respVars, bodyVars, open, wired,
                   write_finished, obsVars>>

\* Mutant of ServeAnswer: canceled is not checked after the await.
ServeAnswerAnyway(r) ==
    /\ Responded(r)
    /\ ~headers_written[r]
    /\ closeCb' = [closeCb EXCEPT ![r] = FALSE]
    /\ WriteStartLine(r)
    /\ \/ /\ open[r]
          /\ serve' = [serve EXCEPT ![r] = "writing"]
          /\ UNCHANGED <<slotVars, open, wired, write_finished, dto, logged>>
       \/ ~open[r] /\ Conclude(r, ClientClosedRequest)
    /\ UNCHANGED <<task, cancelling, debug, headers_written, response_done,
                   bodyVars>>

\* The headers are not out yet: write them and await the flush, or learn that
\* the socket is closed and conclude with status 499.
ServeAnswer(r) ==
    /\ Responded(r)
    /\ ~canceled[r]
    /\ ~headers_written[r]
    /\ closeCb' = [closeCb EXCEPT ![r] = FALSE]
    /\ WriteStartLine(r)
    /\ \/ /\ open[r]
          /\ serve' = [serve EXCEPT ![r] = "writing"]
          /\ UNCHANGED <<slotVars, open, wired, write_finished, dto, logged>>
       \/ ~open[r] /\ Conclude(r, ClientClosedRequest)
    /\ UNCHANGED <<task, cancelling, debug, headers_written, response_done,
                   bodyVars>>

\* Mutant of ServeStreamed: canceled is not checked after the await.
ServeStreamedAnyway(r) ==
    /\ Responded(r)
    /\ headers_written[r]
    /\ closeCb' = [closeCb EXCEPT ![r] = FALSE]
    /\ Conclude(r, status[r])
    /\ UNCHANGED <<task, cancelling, respVars, bodyVars, wire>>

\* The application has streamed the answer itself.
ServeStreamed(r) ==
    /\ Responded(r)
    /\ ~canceled[r]
    /\ headers_written[r]
    /\ closeCb' = [closeCb EXCEPT ![r] = FALSE]
    /\ Conclude(r, status[r])
    /\ UNCHANGED <<task, cancelling, respVars, bodyVars, wire>>

ServeWritten(r) ==
    /\ serve[r] = "writing"
    /\ Conclude(r, status[r])
    /\ UNCHANGED <<task, cancelling, respVars, bodyVars, closeCb, wire>>

-----------------------------------------------------------------------------
Tornado(r) == HeadersReceived(r) \/ DataReceived(r) \/ Finish(r) \/ AbortBody(r)

Process(r) ==
    \/ ProcessRefuse(r) \/ ProcessRaise(r) \/ ProcessStart(r)
    \/ Receive(r) \/ ReceiveChunk(r)
    \/ SendStart(r) \/ SendBody(r) \/ StartLineWritten(r)
    \/ SendLast(r) \/ SendChunk(r) \/ ChunkWritten(r)
    \/ AppReturn(r) \/ CancelDelivered(r)

Serve(r) ==
    \/ ServeStart(r) \/ ServeInterrupted(r) \/ ServeCanceled(r)
    \/ ServeAnswer(r) \/ ServeStreamed(r) \/ ServeWritten(r)

RequestStep(r) == Tornado(r) \/ ClientClose(r) \/ CloseNoticed(r) \/ Process(r)
                  \/ Serve(r)

Next == \E r \in Requests : RequestStep(r)

Spec == Init /\ [][Next]_vars

\* The loop runs what is ready; the client sends its whole body or goes away;
\* a flush completes or fails; the application returns if it is never stuck
\* in receive().
Fairness ==
    \A r \in Requests :
        /\ WF_vars(Tornado(r))
        /\ WF_vars(CloseNoticed(r))
        /\ WF_vars(Serve(r))
        /\ WF_vars(ProcessRefuse(r) \/ ProcessRaise(r) \/ ProcessStart(r))
        /\ WF_vars(ReceiveChunk(r))
        /\ WF_vars(StartLineWritten(r) \/ ChunkWritten(r))
        /\ WF_vars(CancelDelivered(r))
        /\ SF_vars(AppReturn(r))

FairSpec == Spec /\ Fairness

-----------------------------------------------------------------------------
(* Properties.                                                             *)

Held == {r \in Requests : acquired[r]}

\* The counter the limiter compares is the number of requests that hold a
\* slot, and only requests being served hold one: no way out of
\* serve_tornado_request (answer, cancel, error, early return) leaks a slot or
\* gives one back twice.
LimiterAccounting ==
    /\ count = Cardinality(Held)
    /\ \A r \in Requests : acquired[r] => serve[r] \in {"awaiting", "writing"}

\* request_limiter.py:31 refuses a request only above the limit, so a worker
\* runs at most one handler more than max_active_handlers.
LimitBound == count <= MaxActiveHandlers + 1

\* A client gets at most one response header block, whether the application
\* streams, serve_tornado_request answers, or the socket closes in between.
AtMostOneAnswer == \A r \in Requests : wire[r] <= 1

\* A request is in the access log at most once, whichever of the close
\* callback and serve_tornado_request comes first.
AtMostOneLog == \A r \in Requests : Len(logged[r]) <= 1

\* Why both hold.  The process task lives between the start of
\* serve_tornado_request and its resumption; a record is written either with
\* the close callback spent and canceled set, or at the very end; a header
\* block is out only if the response or the task remembers it.
TaskInv(r) ==
    /\ serve[r] \in {"none", "created"} =>
        task[r] = "none" /\ ~closeCb[r] /\ logged[r] = <<>> /\ wire[r] = 0
    /\ serve[r] = "awaiting" => task[r] # "none"
    /\ serve[r] \in {"writing", "done"} => task[r] \in TaskDone
    /\ cancelling[r] => task[r] \notin TaskDone \cup {"none"}

LogInv(r) ==
    /\ Len(logged[r]) <= 1
    /\ logged[r] # <<>> => ~closeCb[r]
    /\ serve[r] = "writing" => ~closeCb[r] /\ logged[r] = <<>>
    /\ serve[r] = "awaiting" /\ logged[r] # <<>> => canceled[r]

AnswerInv(r) ==
    /\ wire[r] <= 1
    /\ serve[r] = "awaiting" /\ wire[r] # 0 =>
        headers_written[r] \/ task[r] \in {"starting", "cancelled"}

OnceInv == \A r \in Requests : TaskInv(r) /\ LogInv(r) /\ AnswerInv(r)

\* A served request is in the access log unless its body was cut off or
\* process_request failed, and then a client still connected has its answer.
ServedIsLogged ==
    \A r \in Requests :
        /\ serve[r] = "done"
        /\ task[r] # "raised"
        /\ phase[r] # "aborted"
        => /\ Len(logged[r]) = 1
           /\ open[r] => wire[r] = 1

\* The status a request has in the access log is the one its telemetry span
\* reports, also when the status changed after the integrations got it.
LogMatchesTelemetry ==
    \A r \in Requests :
        serve[r] = "done" /\ logged[r] # <<>> =>
            /\ dto[r] # "none"
            /\ logged[r][1] = IF dto[r] = "response" THEN status[r]
                              ELSE ClientClosedRequest

\* The application takes a body for complete only if the client sent all of
\* it, and has then seen every chunk once and in order.
BodyNotTruncated ==
    \A r \in Requests :
        bodyEnd[r] = "complete" =>
            phase[r] = "read" /\ seen[r] = [i \in 1..arrived[r] |-> i]

\* Once the close callback has reported the request as closed by the client,
\* no step writes a response or changes what was reported.
ClosedIsFinal ==
    [][\A r \in Requests :
        dto[r] = "closed" => /\ wire'[r] = wire[r]
                             /\ dto'[r] = "closed"
                             /\ logged'[r] = logged[r]]_vars

\* Every slot of the limiter that is taken is given back, whatever becomes of
\* the client, the body and the task; the one exception is a request whose end
\* marker found body_chunks full (finish raised QueueFull): its handler may wait
\* for the next chunk for ever.
SlotReleased ==
    \A r \in Requests : acquired[r] ~> ~acquired[r] \/ phase[r] = "broken"

-----------------------------------------------------------------------------
(* The limiter as a number of slots, and how this state shows them.        *)

slotOf == [r \in Requests |->
    IF serve[r] \in {"none", "created"} THEN "waiting"
    ELSE IF serve[r] = "done" THEN "left"
    ELSE IF acquired[r] THEN "held" ELSE "refused"]

\* The limiter refuses only above the limit (count > limit), so that there is
\* one slot more than max_active_handlers.
Slots == INSTANCE HandlerSlots WITH slot <- slotOf, Capacity <- MaxActiveHandlers + 1

\* The serving of requests implements HandlerSlots with the slots the code has,
\* one more than it is configured with: each request is admitted or refused
\* once, by the slots held at that moment, and leaves once.
ImplementsSlots == Slots!Spec

\* What docs/configs.md says of max_active_handlers: the limit of the requests
\* that a worker handles at once.  The code goes beyond it by one.
DocumentedLimit == count <= MaxActiveHandlers

=============================================================================
