# A TLA+ model of frontik

frontik is an asyncio web framework: a tornado HTTP server that hands requests
to a FastAPI application, run as one process or as a master with several forked
workers. This directory holds TLA+ modules that model the parts of it where
order, concurrency and failure matter, the TLC configurations that check them,
and proofs that TLAPS checks. Line numbers below are those of `src/frontik/`.

## 1. Inventory

| Component | State | Operations | Interacts with | Module |
|---|---|---|---|---|
| Request serving (`handler_asgi.py`, `tornado_connection_handler.py`, `tornado_request.py`) | body queue, `finished`, `canceled`, `response_done` of a request; its response; the process task | `headers_received`, `data_received`, `finish`, `on_connection_close`; `serve_tornado_request`, `process_request`, `execute_asgi_page` (`receive`, `send`), `_on_connection_close` | tornado calls the delegate and the close callback; the ASGI application awaits `receive`/`send` | `RequestServing` |
| Request limiter (`request_integrations/request_limiter.py`) | `count` of the worker, `acquired` of a request | acquire, release | wraps serving as a context manager | `RequestServing`, `HandlerSlots` |
| Worker processes (`process.py`, `server.py`) | `children`, `write_pipes`, `terminating`, `init_workers_count_down`, `master_done` | `fork_workers`, `_start_child`, `_supervise_workers`, signal handlers, `_init_app`, `server_stop` | `os.wait`, `multiprocessing`, consul, SIGTERM | `WorkerSupervisor` |
| Upstream distribution (`service_discovery.py`, `process.py`) | servers and configuration per upstream, `_upstreams` and its lock, the send hook, `resend_dict` | cache listeners, `_update_upstreams`, `send_updates`, `__resend`; the workers' `update_upstreams` | threads of consul's caches | `UpstreamSync` |
| Shared data pipe (`process.py` 208-304) | bytes in a pipe and its buffered writer, `resend_notification`, the position of the reader | `__send_update`, `__resend`, `_worker_listener` | upstream distribution | `SharedDataPipe` |
| Routing (`routing.py`) | list of routes, their methods | registration, sort, `find_route` | serving | `Routing` |
| Dev route manager (`dev_route_manager.py`) | routes map file, fake routes, imported pages | `import_all_pages`, `import_route`, `update_file_cache` | routing, the file system | `DevRoutes` |
| Outgoing requests (`balancing_client.py`, `timeout_tracking.py`), debug mode (`debug.py`, `auth.py`) | deadline, debug mode and credentials of a request; timeout counters | `modify_http_client_request`, `TimeoutChecker.check`, the error handlers, `DebugMode` | http client library, other services | `OutgoingRequests` |
| Loggers and log level override (`loggers/`) | levels and handlers of loggers, `_loggers_store` | `bootstrap_logger`, `_update_log_level`, `_reset_log_level` | a periodic fetch | `LogLevels` |
| Life of a process (`server.py`, `app.py`, `config_parser.py`, `consul_client.py`, `app_integrations/`, registration in `service_discovery.py`) | options, producers, http client, registration and its weight, gc counters | `parse_configs`, `FrontikApplication.init`/`deinit`, `register_service`, `_update_register`, `deregister_service_and_close`, `server_stop` | consul, kafka, scylla, garbage collector, SIGTERM | `ProcessLife` |
| Utilities, testing helpers | none | conversions, stubs | | not modelled |

What is hard in this code, and what makes each part correct:

* **Serving.** On one event loop the close callback of the connection, the task
  that runs the application, the reading of the body and
  `serve_tornado_request` interleave at every await. Correct means: the slot of
  the limiter always comes back; one answer and one access-log record per
  request, the same status in the log and in telemetry; a body that was cut off
  is never taken for a whole one; nobody waits for ever.
* **Supervision.** Signals interrupt the master between any two statements,
  workers die at any time, and the death of a process may be noticed by
  somebody else. Correct means: readiness is not claimed before all workers
  were up; one process per worker id; dead workers are replaced; SIGTERM leads
  to a complete exit; no orphans.
* **Upstream distribution.** Several cache threads, the main thread and the
  resend thread share dicts, only partly under a lock. Correct means: the master
  loses no update, and workers, restarted ones too, end up with what it has.
* **The pipe.** Writes to a full pipe take part of a message; the reader
  resynchronises on a magic. Correct means: what was cut is made good, nobody
  goes back to older data, and a worker without master ends.
* **Routing.** Requests change the methods of routes, pages are imported late and
  from a map written by an earlier process. Correct means: the most specific
  route answers, and on demand the same page answers as otherwise.
* **Outgoing requests.** Deadlines, debug mode and credentials go down a tree of
  services, statuses come back up, and tasks of several requests interleave.
  Correct means: deadlines nest, a timeout is blamed on the one who set it, debug
  mode needs the client's credentials, and requests do not mix.
* **Loggers.** Overrides come and go in any order. Correct means: they are in force
  when fetched, and leave nothing behind that loses records.
* **A process.** The event loop, consul's watcher thread and SIGTERM interleave,
  consul fails. Correct means: it serves when complete, follows its weight, stops
  when told to and leaves consul.

The hazards, each at its line, are in `PROJECT.json`.

## 2. Modules

### RequestServing, HandlerSlots, MCServing

`RequestServing` models one worker. An action is the code between two awaits;
the event loop may run ready callbacks in any order, which includes every order
asyncio produces. Each request is the current one of a connection of its own.

| Actions | Code |
|---|---|
| `HeadersReceived`, `DataReceived`, `Finish`, `AbortBody` | `TornadoConnectionHandler`; `Finish` includes the `QueueFull` that `put_nowait(EOF)` may raise |
| `ServeStart`, `ServeInterrupted`, `ServeCanceled`, `ServeAnswer`, `ServeStreamed`, `ServeWritten`, `Conclude` | `serve_tornado_request`, with the limiter's context manager as `Limiter` and `Release` |
| `ProcessRefuse`, `ProcessRaise`, `ProcessStart`, `AppReturn` | `process_request` and `make_debug_mode`; the application may return at any time |
| `Receive`, `ReceiveChunk`, `Message` | `receive` of `execute_asgi_page` |
| `SendStart`, `SendBody`, `WriteStartLine`, `StartLineWritten`, `SendLast`, `SendChunk`, `ChunkWritten` | `send` of `execute_asgi_page` |
| `ClientClose`, `CloseNoticed`, `OnConnectionClose`, `CancelDelivered` | the socket (external), `_on_connection_close`, the delivery of `cancel()` |

Data is abstract: chunk *i* is the number *i*, a response is its status, headers
are a counter of header blocks on the wire. `dto` is what the integrations were
told of the response and `logged` the access log.

`HandlerSlots` is a number of slots (`Capacity`): each request is admitted or
refused once, by whether a slot is free, and leaves once. `RequestServing`
implements it through the mapping `slotOf` with a capacity of
`max_active_handlers + 1`, which is what the code has; that this is one more than
the documented limit is the run `serving_documented`.

### WorkerSupervisor

Processes are numbered in the order of their forks. `mpc` is where the master
is; its states separate the statements between which a signal makes a
difference (`os.wait` / `children.pop` / the look at `terminating` / the fork /
the entry in `children`). `proc` is what the kernel knows of a process: `init`,
`up`, `stopping`, dead with or without an error and not waited for (`failed`,
`exited`), or gone. `inherits` holds the write ends of pipes a worker got at its
fork: a worker reads end of file only when the master and all workers forked
after it are gone. Two facts of the environment are modelled because the code
depends on them: `Process.start()` of multiprocessing waits for other dead
children before it forks, and an uncaught exception or `sys.exit` makes
multiprocessing join all children before the master ends.

The handler of SIGTERM is one action: it deregisters (or fails, if
`ConsulFails`), then signals the children in order up to the first that was
already waited for, where `os.kill` raises. A worker that still initialises
drops the signal.

### UpstreamSync, MCUpstreams

Upstreams are abstracted to the versions of their sources (the servers of one
datacenter, or the configuration), each source being one cache thread. `Store`
is the unlocked store of a listener, `Build` the rebuild under the lock, then
`SendUpdate`, `SendNext` and `SendOver` the pass over `write_pipes` under a
second acquisition of the lock. The first upstream of a name is kept by the
master as it is, so what is sent is the object later updates change: `kept`.
`CopyUpstreams`, `RegisterPipe`, `OnWorkerRestart`, `PopPipe` and `SetHook` are
the main thread; a pass over `write_pipes` ends early when the dict has changed
size (`Torn`), the RuntimeError of Python. `ResendGet` to `ResendOver` are the
resend thread. Messages are whole and pipes do not fill up: what happens below
that is `SharedDataPipe`. A worker dies only when the one before has been
replaced; deaths that overlap are in `WorkerSupervisor`.

Two limits of the code shape the properties. Upstreams fed by several cache
threads may be sent in the wrong order (`upstreams_stale`), so agreement with
the master is stated for the upstreams that one thread feeds (`Lone`,
`Agrees`). And the resend thread clears flags it has not listed, so
`NewestAgrees` speaks of the first worker that is restarted.

### SharedDataPipe, MCPipe

The pipe to one worker, as cells: the magic, the size and a few cells of data,
each standing for a run of bytes. `Write` is what a `BufferedWriter` does on a
non-blocking pipe: small data stays in the buffer, the rest goes as far as there
is room, and `BlockingIOError` is raised when something is left over.
`WriteHeader`, `WriteData` and `Flush` are `__send_update` under the lock;
`FlagIf` is the entry in `resend_dict` with `put_nowait` on the queue of one item;
`ResendGet` and `ResendStart` are the resend thread, which writes twice
(`Copies`). `ReadCell` and `ReadEof` are `_worker_listener`: it seeks the magic
(`SeekOn`, with the limit of `readuntil`), takes what follows for a size (`lost`
when it is none, an enormous number) and loads what it takes for data.
`MasterGone` may happen between any two steps.

`RepairedUnlessRefused` has two exceptions, both of them cases in which the code
leaves a worker behind (section 5): a header was refused, so that the worker was
not flagged, or some version is more than two headers larger than a later one
(`Shrunk`), so that the end the reader waits for swallows both copies.

### Routing, DevRoutes, MCRoutes

`Routing` holds operators: the sort key and its order, the stable sort, the
inclusion of routers, and `find_route` as `Choice` (which route) and `Widen` (what
the search changes in the methods of routes). Paths are sequences of segments, a
parameter is `{}`; matching is starlette's (external). Lists are built without
recursion, so that they can be proved about: `Listed` puts the elements of a
finite set at the number of those that come before them, which is how `Sorted`
(by key, then by place: the sort is stable), `At` and `Import` (pages in the
order of the walk, routes in the order of the page) are written. `DevRoutes` is
the process around them: `Start` with everything imported or from the routes
map, `Request`, `Stop`, and `Edit`, a developer. The map keeps one entry per
method and path, pages without routes are excluded for good, and a mount makes
the development mode fail: all as in the code. Where two pages declare the same
method and path the code takes the one it added first; the model takes either,
and `OnDemandAgrees` is about pages that do not (`Distinct`).

### OutgoingRequests, MCOutgoing

A tree of requests: a client sends the roots, every service runs frontik. A
request is a record of what it carried (`hdr`), who called it, its service's
options and its fate. `Arrived` is `request_context` and `make_debug_mode`,
`Call` is `modify_http_client_request` and the timeout checker, `Answered`,
`Receive`, `CallTimeout` and `Result` are the answers and the error handlers
(`fail_fast`, `out_of_request_time`). Time is counted in half milliseconds so that
`Rounded` (half to even) and `Truncated` of the headers make a difference.
`until` is history: the time when the chain of callers is over, plus what each
hop may add.

`tasks` holds the context variables of the tasks of each request: the one that
runs its page and one that the page started. A task has its own copy of
`request_context` (`rc`) and of `extra_client_params` (`hook`), made by
`create_task` from what its creator had. `EnterPage` is the context of a new
request, `set_extra_client_params` the hook of its page, `Left` the reset when the
page is over; a child task keeps what it copied and may outlive the request. A
call is made by a task and carries what that task finds: `RequestId`, `Hooked`
and `debug_enabled` read its copies and nothing else.

### LogLevels, MCLogLevels

`Bootstrap` and `Update` on levels, handlers and the remembered overrides. The
tree of loggers is the constant `Line`: for each logger the sequence of loggers
from it up to the root. `EffectiveLevel`, `Chain` and `Writers` state where the
logging library writes a record, so that properties speak of records and not of
settings. `NothingLost` is about loggers without an override on them or above
them; it leaves out those below a logger with a level or handlers of its own
that frontik did not set (`Suppressed`, `Late`), which lose records by design.

### ProcessLife, MCProcessLife

`pc` is where the event loop is between `parse_configs` and the stop of the loop;
an action ends where it awaits or where another thread can come in. `WatchSees`
and `WatchPut` are the watcher thread of `kvCache` with `_update_register`;
`RegisterRead` and `RegisterPut` are `register_service`; calls to consul give any
of `Results`. `Collect` is the garbage collector, `SendMetrics` the periodic report
with the loss between reading and clearing. A forked worker starts with the hook
of its master and with the collections the master counted and had no loop to
send from (`gc.left`). `Parsed` is the precedence of command line, named file,
files of the directory and environment; a missing `app_class` or one that cannot
be imported ends the process (`Parse`), and so does an upstream without servers
when `fail_start_on_empty_upstream` is on and the upstream is not in the skip list
(`EmptyUpstream`). `raced` is history.

## 3. Runs

| Run | Bounds | Shows |
|---|---|---|
| `serving` | 2 requests, limit 0 (one slot), a body of 1 chunk and one of none, queue of 1 | the count is the number of slots held, and `HandlerSlots` is implemented; one answer, one log record, log and telemetry agree, no truncated body, a closed request stays closed; every slot is released |
| `serving_documented` | the same, limit 1 | *violated*: two handlers run at once |
| `supervisor` | 3 workers, 2 crashes, SIGTERM, consul failures, killed master | readiness, one process per id, no unknown process; a lone crash is repaired, a shutdown completes, no orphans |
| `supervisor_two_crashes` | 2 workers, 2 crashes | *violated*: the second worker to die is never replaced |
| `upstreams_master` | 2 sources of one upstream, 3 updates each, 1 worker | the master is current |
| `upstreams_restart` | 1 source, 3 updates, 2 workers, 1 restart | workers agree when quiet and in the end: all as long as none has died, and the first that is restarted |
| `upstreams_stale` | 2 sources of one upstream, 2 updates each | *violated*: updates are sent in the wrong order |
| `pipe` | data of 3, 7 and 3 cells, pipe of 7, buffer of 2, limit of 3 | no lost wakeup; a cut message is repaired unless a header was refused; no return to older data; a worker without master ends |
| `routes` | 3 pages with 7 variants of overlapping routes, 2 edits | the most specific route is found and takes the method; on demand the same page answers |
| `outgoing` | 3 clients, 2 services, 2 roots, 3 requests, one task started by a page, 3 half milliseconds | deadlines nest, blame fits, pages are unwrapped, credentials are needed, calls carry their own |
| `log_levels` | 5 loggers, overrides on up to two of them | overrides are in force, nothing is lost, handlers do not pile up |
| `process_life` | 15 settings, alone or forked, a kafka and a scylla cluster, 3 weights, 2 collections, 1 request | served with everything, gone from consul, weight followed, SIGTERM stops |

Why the bounds are enough: two requests compete for the one slot, and nothing
else is shared between requests; one chunk in a queue of one makes the end of the
body find the queue full or free, before and after every other event, and the
body of the other request ends at once (the proofs cover every number of chunks
and requests). Three workers give
first, middle and last in the order of forks, two crashes give a crash during the
repair of another. Two sources of one upstream are the smallest case with
concurrent rebuilds. One restart is enough because the properties speak of the
first: a second may miss an update, as the resend thread clears a flag it has
not listed (`process.py` 257-261). In the pipe a message fits once but not twice, the
buffer holds a header and no more, data grows and then shrinks by exactly two
headers, the most that is repaired, and the limit of `readuntil` is not longer
than the data, as 64 KiB are than a pipe of 1 MB. Three
pages overlap in exact, parameterised and mounted routes, on a router of their
own or not; two edits change a page between and within runs. Three requests in
two trees give a chain of three and two trees at once, and one task more than
the handlers' a task that calls while its request is served, after it is over,
and while another request is served; the proofs cover every depth. Two overrides at once act on a logger and on one below it.

Deadlock is not checked: a served request, an exited server and a system
without further updates are legitimate ends.

Fairness. Serving: asyncio runs every ready callback, tornado reads a body
until it ends or the connection closes, and an application that gets the chance
again and again returns (`SF` on `AppReturn`; an application that never returns
is not the framework's to end). Clients need not close. Supervision: the
operating system runs the master and the workers, consul answers; crashes,
signals and failures need not happen. Upstreams: threads are scheduled and get
a lock that is released again and again (`SF`), workers read their pipes;
updates and deaths need not happen. Pipe: the holder of the lock, the resend
thread and the worker's loop run (`WF`); the master need not go. Process: the
loop and the watcher thread run and calls to consul return, with any result
(`WF`); requests, weights, collections and SIGTERM need not come.

## 4. Proofs

All for every value of the constants that satisfies the named assumptions. Each
theorem about an invariant rests on an inductive one; the text says what it adds
and why.

* `RequestServingProofs`
  * `SlotsAreSafe` (types, `LimiterAccounting`, `LimitBound`) assumes only that
    the set of requests is finite and the limit a natural number; the accounting
    is inductive together with the types, as `Limiter` and `Release` are the only
    places that touch the counter and each moves one request in or out of the
    holders. `ServingImplementsSlots` maps every step to a step of `HandlerSlots`
    or a stutter.
  * `AnsweredAndLoggedOnce` needs the strengthening `OnceInv`: where the task can
    be for each state of the serving coroutine, that a record implies a spent
    close callback and, while the task is awaited, `canceled`, and that a header
    block is remembered by the response or by the task that writes it.
  * `RequestsAreLogged` (`ServedIsLogged`), `LogAndTelemetryAgree`
    (`LogMatchesTelemetry`), `BodiesAreWhole` (`BodyNotTruncated`) and the action
    property `ClosedStaysClosed` (`ClosedIsFinal`) rest on `EndInv`, four facts
    about each request on top of `OnceInv`. `ClosedInv`: a request reported as
    closed is one nobody else can report any more, its task being over or about
    to be cancelled. `RecordInv`: a record is that of the close callback or the
    one written last, with the status the response still has. `ServedInv`:
    whoever gave a request up left a record or found the body cut off, and a
    client still connected has its header block when it is due. `BodyInv`: what
    the application has seen and what waits in the queue are together the chunks
    that arrived, in order and with the end marker once the body is read, so that
    an end marker taken from the queue means nothing is missing. `OthersEnd` and
    `Frame` reduce every step to the one request it is about.
* `WorkerSupervisorProofs`: `SupervisorTypes`, `ReadyOnlyWhenAllUp` and
  `WorkersUniqueAndKnown`, with crashes, signals, consul failures and a killed
  master all allowed, from `SupervisorInv`: ids are unique among the processes
  not yet waited for (not only the running ones: a dead one keeps its id until
  it is replaced), nobody has the id of the process being buried, and until
  `master_done` the countdown is the number of workers minus those that came
  up, because a worker id has one process during the startup.
* `UpstreamSyncProofs`
  * `MasterStaysCurrent`, for any number of cache threads and upstreams: a store
    concerns only the upstream whose rebuild it makes due, and a rebuild reads
    everything stored by then.
  * `UpdatesReachAll` (`AgreeUntilDeath`) and `RestartMissesNothing`
    (`NewestAgrees`), for any number of workers, sources, upstreams and restarts.
    The heart is `SyncInv`: for every worker the claim is about (`Tracked`) and
    every upstream of one thread, what the master has is what the worker will
    have after reading its messages (`Heard`), or it is still to be sent to it
    (`Due`) by somebody: the main thread before the end of its startup or
    restart, the cache thread between build and send, the loop under way if it
    has not passed the worker and is not torn, or the resend thread. When
    everything is quiet nothing is due and nothing is unread. It is inductive
    together with `LockInv` (who holds the lock, and whose loop it is), `ForkInv`
    and `DeathInv` (how far the main thread is, and that the dead are the replaced
    ones and at most one more), `ResendInv` (nothing is asked of the resend thread
    before the first restart) and `ValueInv` (a message under way is not older
    than the master's). `SyncTypes` (`TypeOK`) needs `DeathInv` too: it is why a
    process id is left for every fork.
  * The proof showed what the run could not: with several sources or several
    restarts both properties were false as first written, which is how `Lone` and
    the count of the dead came into them.
* `SharedDataPipeProofs`: `PipeTypes` (pipe and buffer never hold more than they
  can; needs `Busy`, that a writer under way has copies left), `NoLostWakeup`
  from the stronger `Heard`: a flagged worker means an item in the queue or a
  resend thread that has taken it and has yet to list; and the action property
  `NeverBackwards` (`NeverOlder`) from `AgeInv`: the versions of data cells never
  fall along the pipe and then the buffer, all lie between what the worker has
  and the latest, and who holds the lock writes the latest. What is cut off or
  swallowed only removes cells, so the order survives. `TwoCopiesRepair`
  (`RepairedUnlessRefused`) holds for any pipe, buffer, limit and sizes of data;
  its exceptions, a refused header and data that shrank by more than two headers
  (four cells), are part of the property, and the second is tight: TLC finds a
  worker left behind one cell beyond it (section 5). The idea of
  `RepairInv` is to look at the reader that will have read all that is in the pipe
  and the buffer (`Leads`): reading does not change it, and a writer extends it by
  a message (`HeaderRun`, `DataRun`) or the beginning of one (`WriteStream`). It may
  owe the end of a message that was cut off, at most that of the latest version,
  or that of an older one less a header it has swallowed since (`Debt`); so the
  first copy with its header pays the debt (`FirstCopy`), and where nobody is
  going to send again the reader to come is idle with the latest version
  (`Counted`). A reader that spins leaves what it does not have in the pipe
  (`SpinInv`).
* `OutgoingRequestsProofs`: all five properties of the run `outgoing`, for trees of
  any size and depth and any options of the services. `Tree` ties every request
  to its caller and its root by `Linked` (same root and id, debug header from the
  caller's mode, right credentials only from a root that had them) and `Timed`
  (what was sent plus the deadline is at most the end of the caller's chain plus
  half a millisecond). `LinksKept` shows that whatever leaves the headers and
  what a started request has fixed alone (`Kept`) preserves both, so that each
  action has to be looked at for the one request it adds or changes.
  `CallsCarryTheirOwn` (`CarriesItsOwn`) rests besides on `Contexts`: a live task
  finds the request it works for in both of its context variables.
  Every copy, set and reset of a variable has to preserve that, in whatever
  order the tasks of several requests run. The arithmetic rests on
  `RoundedBound`, `TruncatedBound` and `BudgetBound`.
  Assumed of the constants: the shape of headers and options, positive timeouts,
  and handlers that do not answer with the statuses of timeouts on their own.
* `DevRoutesProofs`: all four invariants of the run `routes`, for any pages, routes,
  methods and number of edits; `RoutesAssumption` gives the constants their
  shapes.
  * `RoutesTypes` (`TypeOK`) and `HandlersAccept` (`HandlerAccepts`) need no more
    than the types. `ListedIs`, on which everything rests, shows that counting
    predecessors in a strict total order enumerates the set in that order, and
    `SortedIs` that the keys of routes with the place as a tie-break are such an
    order.
  * `MostSpecificFirst` (`FirstIsMostSpecific`) from `CoverInv`: the list is no
    longer sorted once routers are included behind it and HEAD was added to
    routes, but every route has one like it, with its methods or more, that
    no route with a greater key precedes.
  * `OnDemandIsTheSame` (`OnDemandAgrees`) from `DevInv`. `TimeInv`: no time in the
    map is later than the clock, so that an edit makes every entry of its page
    out of date. `EntryInv`: an entry with the time its page has now is that of a
    route the page declares now. `MapInv`: of a page of which the map has one
    entry that is up to date it has all, which is why a page whose entries are
    unchanged need not be imported. `RunInv`: of a page not edited since the
    start, an imported one has its routes in the list, and another one is
    excluded or has all of them among the fake routes.
* `LogLevelsProofs`: `StoreIsTrue`, what is remembered of an override is the level
  the logger has; `HandlersDoNotPileUp`, from `OneSet`: a logger has no handlers or
  one set; and for any tree of loggers `OverridesAreInForce` (`OverrideInForce`)
  and `RecordsAreNotLost` (`NothingLost`), from `ForceInv`: the store is what was
  fetched last and in force on the loggers themselves (`WantedInv`), a logger that
  stops its records has handlers, handlers reach every output from the level
  that is due, and loggers nobody overrides have no level but
  `options.log_level` (`HandlersInv`). `LeastNat` gives the nearest logger with a
  level or with handlers, by well-founded induction.
* `ProcessLifeProofs`: `GoneFromConsul` from `RegInv` (before the stop only the
  loop registers, after it only a callback that was under way can),
  `RequestsFindEverything` from `ServeInv`, `CommandLineDecides`,
  `GcCountsAreBounded` (no more is reported than the hooks have seen and, in a
  forked worker, the master had left) and `ProcessTypes`. The last three are not
  in the run: they are proved.

Every safety invariant of the passing runs is proved. Only model-checked is
liveness under fairness, which is out of the prover's reach: `EventuallyAgree`,
`LoneCrashRepaired`, `NoOrphans`, `OrphanExits`, `ShutdownCompletes`,
`SigtermStops`, `SlotReleased`, `WeightFollows`.

## 5. Where code and documents disagree

Findings, each with a run:

* one handler more than `max_active_handlers` runs, which `docs/configs.md` 22 gives
  as the limit (`serving_documented`);
* two workers that die close together: the second is never restarted
  (`supervisor_two_crashes`);
* updates of one upstream sent in the opposite order (`upstreams_stale`).

The models show more, each by a definition that TLC finds violated with the
constants given here:

| Definition | Constants | What happens |
|---|---|---|
| `SlotReleased` without its exception `phase[r] = "broken"` | those of `MCServing.cfg` | a full body queue refuses the end of the body: the reader waits for ever |
| `TermEndsServer` | `NWorkers = 2`, no crashes, `Signals = TRUE`, no other faults, `FairSpec` | SIGTERM during the startup is dropped by a worker, and the master waits for it |
| `WorkersAgree` | `OneSource`, `NWorkers = 2`, `MaxRestarts = 1`, `MaxVersion = 2` | a pass over `write_pipes` is cut short by a restart |
| `DeliveredWhenQuiet` | those of `MCPipe.cfg` | a worker whose header was refused is not flagged and keeps the old upstreams |
| `RepairedUnlessRefused` without its exception `Shrunk` | sizes 3, 8 and 3, the rest as in `MCPipe.cfg` | `process.py` 269: "writing 2 times to ensure fix of client reading pattern"; after data that shrank by more than two headers the first copy and the magic of the second are swallowed, and nobody sends again |
| `ExactRoutesFirst` | those of `MCRoutes.cfg` | after HEAD was answered by a parameterised route, that route is found first for HEAD where an exact one answers GET |
| `LogLevelNotInLoggers` | those of `MCLogLevels.cfg` | a rollback sets the logger to `options.log_level`, which `docs/logging.md` puts only into the handlers |

Met while modelling, without a property: `_finish_span` reads the status of a
response that may be missing (`request_integrations/telemetry.py` 86); an
application that raises before it starts its response gives an empty 200
(`handler_asgi.py` 179); the statistics of timeouts are never sent, as the
periodic callback is never created (`timeout_tracking.py` 44); loggers and the gc
hook set up in the master are set up again in a forked worker
(`loggers/__init__.py` 198, `gc_metrics_collector.py` 36), and a restarted worker
reports the collections of its master (`process.py` 84); with
`consul_self_register` off `register_service` raises (`service_discovery.py` 210);
an on-demand page answers no HEAD before its first GET (`routing.py` 166), is not
found by all of its methods (`dev_route_manager.py` 134) and, once excluded, not
at all (66); an entry of the routes map replaced by that of another page with the
same method and path (247) does not come back when the conflict is gone; a `ConsulException` is counted by both of its handlers
(`consul_client.py` 205); files read by `parse_configs` are not watched for
autoreload, as the filter is exhausted (`config_parser.py` 55).

## 6. Not modelled

The XML and XSLT of the debug page and the formats of log records, metrics and
spans: conversions without state that steps share. The slow callback tracker,
which measures time. The metrics of requests to consul. The conversion of option
values. The asynchronous consul
client, which nothing uses. Utilities, openapi and the testing helpers. The
middleware of FastAPI, the http client's balancing and retries, kafka, scylla
and sentry belong to libraries; they appear by what frontik asks of them. Time
is abstract except in `OutgoingRequests`: a timeout may happen whenever the code
waits for one.
