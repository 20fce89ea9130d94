---------------------------- MODULE ProcessLife -----------------------------
(***************************************************************************)
(* The life of a process that serves requests (server._run_worker): its    *)
(* options are parsed, service discovery and integrations are set up, it   *)
(* listens and registers in consul, follows its weight there, and on       *)
(* SIGTERM deregisters, waits, closes and stops.  It is the only process   *)
(* (workers = 1), or a worker forked from a master that has installed the  *)
(* integrations once already.  The event loop, the watcher thread of       *)
(* kvCache and the garbage collector interleave; metrics of the collector  *)
(* are on (gc_metrics_send_interval_ms).                                   *)
(***************************************************************************)
EXTENDS Integers, Sequences, FiniteSetsExt

CONSTANTS
    Settings,    \* where node_name may come from: cmd, env, files, named; app_class
                 \* and fail_start_on_empty_upstream
    Upstreams,   \* options.upstreams and those of the clusters
    Skipped,     \* options.skip_empty_upstream_check_for_upstreams
    Kafka,       \* options.kafka_clusters: upstreams with a producer to start
    Scylla,      \* options.scylla_clusters: upstreams with a cluster to create
    Requests,    \* requests that are served
    MaxWeight,   \* bound: changes of the weight in consul
    MaxGc        \* bound: garbage collections, of the process and of its master

ASSUME ProcessAssumption ==
    /\ Kafka \cup Scylla \subseteq Upstreams
    /\ MaxWeight \in Nat \ {0} /\ MaxGc \in Nat
    /\ \A s \in Settings : {s.named, s.files} \subseteq Seq(STRING)

VARIABLES
    setting,     \* the command line, the environment and the config files
    forked,      \* a forked worker, or the only process
    selfRegister,\* options.consul_self_register
    health,      \* what consul has told of each upstream: unknown, empty, some
    pc,          \* where the event loop is
    node_name,   \* the option
    started,     \* kafka producers that have started
    session,     \* the http client: none, open, closed
    weight,      \* the weight of the host in consul
    agent,       \* the weight the service is registered with, or no
    watch,       \* kvCache: off, on, stopped
    callback,    \* the weight the watcher thread is registering, or no
    seen,        \* the weight the watcher saw last
    sigterm,     \* SIGTERM was received
    active,      \* requests in the process
    fate,        \* how the loop ended up stopping: drained, hurried
    gc,          \* GC_STATS.count as it was inherited and as it is; history:
                 \* the collections so far, the counts sent
    hooks,       \* how often gc_metrics_collector is in gc.callbacks
    raced        \* history: kvCache was stopped while its callback ran; consul failed

conf == <<setting, forked, selfRegister, health>>
consul == <<weight, agent, watch, callback, seen, raced>>
gcv == <<gc, hooks>>
vars == <<conf, pc, node_name, started, session, consul, sigterm, active, fate, gcv>>

None == "none"
no == -1         \* not registered, nothing to register

(***************************************************************************)
(* Options                                                                 *)
(***************************************************************************)
LastGiven(values) ==
    LET given == {i \in 1..Len(values) : values[i] # None}
    IN  IF given = {} THEN None ELSE values[Max(given)]

\* The arguments that are read, up to the first that is no option.  One is the
\* value it gives to node_name, unknown, or bare: the name without a value.
Options(args) ==
    LET ends == {i \in DOMAIN args : args[i] = "--"}
    IN  SubSeq(args, 1, IF ends = {} THEN Len(args) ELSE Min(ends) - 1)

\* parse_command_line raises on an option without a value, skips one that is
\* not known, and otherwise the last value stays.
Raises(args) == \E i \in DOMAIN Options(args) : Options(args)[i] = "bare"
parse_command_line(args) == LastGiven(SelectSeq(Options(args), LAMBDA v : v # "unknown"))

\* parse_configs: the command line, the files (those it names, or the given
\* ones), the environment, the command line again; a later value stays.
Parsed(s) ==
    LET cmd == parse_command_line(s.cmd)
    IN  LastGiven(<<cmd>> \o (IF s.named # <<>> THEN s.named ELSE s.files)
                          \o <<s.env>> \o <<cmd>>)

\* A forked worker starts with the hook and the count of its master, which may
\* have collected since it forked the first ones (enable_gc) and sends nothing.
Init ==
    /\ setting \in Settings
    /\ forked \in BOOLEAN
    /\ selfRegister \in BOOLEAN
    /\ health \in [Upstreams -> {"unknown", "empty", "some"}]
    /\ pc = "parse"
    /\ node_name = None
    /\ started = {}
    /\ session = None
    /\ weight = 1
    /\ agent = no /\ watch = "off" /\ callback = no /\ seen = no
    /\ sigterm = FALSE
    /\ active = {}
    /\ fate = None
    /\ \E left \in IF forked THEN 0..MaxGc ELSE {0} :
          gc = [left |-> left, n |-> 0, count |-> left, sent |-> 0]
    /\ hooks = IF forked THEN 1 ELSE 0
    /\ raced = [stop |-> FALSE, failed |-> FALSE]

Fail ==
    /\ pc' = "failed"
    /\ UNCHANGED <<conf, node_name, started, session, consul, sigterm, active, fate, gcv>>

\* main: without any config file parse_configs raises; then the application
\* must be named and its module be found.
Parse ==
    /\ pc = "parse"
    /\ IF \/ Raises(setting.cmd)
          \/ setting.named = <<>> /\ setting.files = <<>>
          \/ setting.app_class \in {None, "broken"}
       THEN Fail
       ELSE /\ node_name' = Parsed(setting)
            /\ pc' = "discover"
            /\ UNCHANGED <<conf, started, session, consul, sigterm, active, fate, gcv>>

(***************************************************************************)
(* Start                                                                   *)
(***************************************************************************)
NoHostname == selfRegister /\ node_name = None

\* fail_start_on_empty_upstream: an upstream it has heard of has no servers.
EmptyUpstream ==
    setting.fail_on_empty /\ \E u \in Upstreams \ Skipped : health[u] = "empty"

\* MasterServiceDiscovery.__init__ raises in both cases.  A forked worker is
\* handed the upstreams.
Discover ==
    /\ pc = "discover"
    /\ IF ~forked /\ (NoHostname \/ EmptyUpstream)
       THEN Fail
       ELSE /\ pc' = "load"
            /\ UNCHANGED <<conf, node_name, started, session, consul, sigterm, active, fate, gcv>>

\* KafkaIntegration needs the upstream of each cluster, ScyllaIntegration a
\* server of it (a cluster whose upstream is unknown is skipped).
KafkaReady == \A u \in Kafka : health[u] # "unknown"
ScyllaReady == \A u \in Scylla : health[u] # "empty"

\* GCMetricsCollectorIntegration adds its hook to those that are there.
HooksAdded == hooks + 1

LoadIntegrations ==
    /\ pc = "load"
    /\ IF ~KafkaReady \/ ~ScyllaReady THEN Fail
       ELSE /\ pc' = "gather"
            /\ hooks' = HooksAdded
            /\ UNCHANGED <<conf, node_name, started, session, consul, sigterm, active, fate, gc>>

ProducerStarts(u) ==
    /\ pc = "gather" /\ u \in Kafka \ started /\ health[u] = "some"
    /\ started' = started \cup {u}
    /\ UNCHANGED <<conf, pc, node_name, session, consul, sigterm, active, fate, gcv>>

ProducerFails(u) == pc = "gather" /\ u \in Kafka \ started /\ Fail

\* A wrong form: the futures of the integrations are not awaited.
AwaitedNone == {}

\* asyncio.gather of the futures that load_integrations returned
Awaited == Kafka

\* install_integrations goes on when all have started; the http client; the
\* server listens and handles SIGTERM (run_server).
Listen ==
    /\ pc = "gather" /\ Awaited \subseteq started
    /\ session' = "open"
    /\ pc' = IF forked THEN "serving" ELSE "register"
    /\ UNCHANGED <<conf, node_name, started, consul, sigterm, active, fate, gcv>>

(***************************************************************************)
(* Consul                                                                  *)
(***************************************************************************)
\* What a request to consul ends in (_SyncConsulHttpClient._request): done,
\* answered with false, or an exception, ConsulException or another.
Results == {"ok", "false", "raised"}

\* register_service: the weight is read from consul.  Without consul_self_register
\* there is no kvCache to read it from.
RegisterRead ==
    /\ pc = "register"
    /\ IF ~selfRegister THEN Fail
       ELSE /\ seen' = weight
            /\ pc' = "put"
            /\ UNCHANGED <<conf, node_name, started, session, weight, agent, watch, callback,
                           raced, sigterm, active, fate, gcv>>

\* _sync_register, then kvCache.start(); anything but success ends the process.
RegisterPut(res) ==
    /\ pc = "put"
    /\ agent' = IF res = "ok" THEN seen ELSE agent
    /\ watch' = IF res = "ok" THEN "on" ELSE watch
    /\ pc' = IF res = "ok" THEN "serving" ELSE "failed"
    /\ UNCHANGED <<conf, node_name, started, session, weight, callback, seen, raced,
                   sigterm, active, fate, gcv>>

WeightChanges ==
    /\ weight < MaxWeight
    /\ weight' = weight + 1
    /\ UNCHANGED <<conf, pc, node_name, started, session, agent, watch, callback, seen, raced,
                   sigterm, active, fate, gcv>>

Alive == pc \notin {"failed", "stopped"}

\* The watcher thread has a new value and calls _update_register.
WatchSees ==
    /\ Alive /\ watch = "on" /\ callback = no /\ seen # weight
    /\ callback' = weight
    /\ seen' = weight
    /\ UNCHANGED <<conf, pc, node_name, started, session, weight, agent, watch, raced,
                   sigterm, active, fate, gcv>>

\* A wrong form: the weight registered is always the default.
NewWeightDefault == 1

\* _update_register: the weight from the value that the callback was given.
NewWeight == callback

WatchPut(res) ==
    /\ Alive /\ callback # no
    /\ agent' = IF res = "ok" THEN NewWeight ELSE agent
    /\ raced' = [raced EXCEPT !.failed = @ \/ res # "ok"]
    /\ callback' = no
    /\ UNCHANGED <<conf, pc, node_name, started, session, weight, watch, seen, sigterm, active,
                   fate, gcv>>

(***************************************************************************)
(* Requests, garbage collection                                            *)
(***************************************************************************)
Serves == pc \in {"serving", "stopwatch", "deregister", "draining", "deinit"}

\* After the server has stopped listening, connections that are open go on.
Accept(r) ==
    /\ Serves /\ r \notin active
    /\ active' = active \cup {r}
    /\ UNCHANGED <<conf, pc, node_name, started, session, consul, sigterm, fate, gcv>>

Respond(r) ==
    /\ Serves /\ r \in active
    /\ active' = active \ {r}
    /\ UNCHANGED <<conf, pc, node_name, started, session, consul, sigterm, fate, gcv>>

\* Every hook in gc.callbacks counts the collection.
Collect ==
    /\ Alive /\ hooks > 0 /\ gc.n < MaxGc
    /\ gc' = [left |-> gc.left, n |-> gc.n + 1, count |-> gc.count + hooks, sent |-> gc.sent]
    /\ UNCHANGED <<conf, pc, node_name, started, session, consul, sigterm, active, fate, hooks>>

\* GCStats.clear
Cleared(count) == 0

\* send_metrics; a collection between reading the counters and clearing them
\* is lost.
SendMetrics(lost) ==
    /\ Serves /\ gc.count > 0 /\ gc.n + lost <= MaxGc
    /\ gc' = [left |-> gc.left, n |-> gc.n + lost, count |-> Cleared(gc.count),
              sent |-> gc.sent + gc.count]
    /\ UNCHANGED <<conf, pc, node_name, started, session, consul, sigterm, active, fate, hooks>>

(***************************************************************************)
(* Stop                                                                    *)
(***************************************************************************)
Sigterm ==
    /\ pc \in {"register", "put", "serving"} /\ ~sigterm
    /\ sigterm' = TRUE
    /\ UNCHANGED <<conf, pc, node_name, started, session, consul, active, fate, gcv>>

\* server_stop, once the loop gets to it; a forked worker has nothing to
\* deregister.
ServerStop ==
    /\ pc = "serving" /\ sigterm
    /\ pc' = IF forked THEN "draining" ELSE "stopwatch"
    /\ UNCHANGED <<conf, node_name, started, session, consul, sigterm, active, fate, gcv>>

\* A wrong form: the watcher is left running.
WatchLeft == watch

\* kvCache.stop(): no new value is handed to the callback.
WatchStopped == "stopped"

StopWatch ==
    /\ pc = "stopwatch"
    /\ watch' = WatchStopped
    /\ raced' = [raced EXCEPT !.stop = callback # no]
    /\ pc' = "deregister"
    /\ UNCHANGED <<conf, node_name, started, session, weight, agent, callback, seen,
                   sigterm, active, fate, gcv>>

\* The loop goes on to wait; an exception ends the deinit task, and its done
\* callback stops the loop at once.
AfterDeregister(res) == IF res \in {"ok", "false"} THEN "draining" ELSE "loopstop"

Deregister(res) ==
    /\ pc = "deregister"
    /\ agent' = IF res = "ok" THEN no ELSE agent
    /\ raced' = [raced EXCEPT !.failed = @ \/ res # "ok"]
    /\ pc' = AfterDeregister(res)
    /\ fate' = IF res = "raised" THEN "hurried" ELSE fate
    /\ UNCHANGED <<conf, node_name, started, session, weight, watch, callback, seen, sigterm,
                   active, gcv>>

\* stop_timeout is over; deinit closes the http client and then deinitializes
\* the integrations.
CloseClient ==
    /\ pc = "draining"
    /\ session' = "closed"
    /\ fate' = "drained"
    /\ pc' = "deinit"
    /\ UNCHANGED <<conf, node_name, started, consul, sigterm, active, gcv>>

\* A wrong form: only a deinit task that has succeeded stops the loop.
StopsLoopOnSuccess == {"deinit"}

\* deinit_task.add_done_callback: the task has come to its end or has raised.
StopsLoop == {"deinit", "loopstop"}

\* ioloop_stop: what is still active is cut off.
LoopStop ==
    /\ pc \in StopsLoop
    /\ pc' = "stopped"
    /\ active' = {}
    /\ UNCHANGED <<conf, node_name, started, session, consul, sigterm, fate, gcv>>

(***************************************************************************)
(* Specification                                                           *)
(***************************************************************************)
Loop ==
    \/ Parse \/ Discover \/ LoadIntegrations \/ Listen \/ RegisterRead
    \/ \E res \in Results : RegisterPut(res) \/ Deregister(res)
    \/ ServerStop \/ StopWatch \/ CloseClient \/ LoopStop

Watcher == WatchSees \/ \E res \in Results : WatchPut(res)

Next ==
    \/ Loop
    \/ Watcher
    \/ \E u \in Kafka : ProducerStarts(u) \/ ProducerFails(u)
    \/ WeightChanges
    \/ \E r \in Requests : Accept(r) \/ Respond(r)
    \/ Collect
    \/ \E lost \in {0, 1} : SendMetrics(lost)
    \/ Sigterm

Spec == Init /\ [][Next]_vars

\* The loop and the watcher thread run; calls to consul return.
FairSpec == Spec /\ WF_vars(Loop) /\ WF_vars(Watcher)

(***************************************************************************)
(* Properties                                                              *)
(***************************************************************************)
TypeOK ==
    /\ pc \in {"parse", "discover", "load", "gather", "register", "put", "serving", "stopwatch",
               "deregister", "draining", "deinit", "loopstop", "stopped", "failed"}
    /\ started \subseteq Kafka
    /\ session \in {None, "open", "closed"}
    /\ {agent, callback, seen} \subseteq 1..MaxWeight \cup {no}
    /\ active \subseteq Requests
    /\ hooks \in 0..2

\* Requests are served only with every kafka producer started, and until the
\* stop timeout is over with an open http client (install_integrations, deinit).
ServedWithEverything ==
    active # {} => /\ Kafka \subseteq started
                   /\ pc # "deinit" => session = "open"

\* A process that has stopped in order is gone from consul, unless a call to
\* consul failed, or the watcher thread was registering a new weight just when
\* it was stopped (deregister_service_and_close does not wait for it).
GoneUnlessRaced ==
    pc = "stopped" /\ fate = "drained" => agent = no \/ raced.stop \/ raced.failed

\* Collections may be missed by the metrics but never counted again: what was
\* sent and what waits is at most what the hooks have seen here and what a forked
\* worker had from its master (GCStats).
GcNotOvercounted == gc.sent + gc.count <= gc.left + hooks * gc.n

\* docs/configs.md: of a value given twice the command line's stays.
CommandLineWins ==
    LET given == parse_command_line(setting.cmd)
    IN  pc \notin {"parse", "failed"} /\ given # None => node_name = given

\* A change of the weight in consul reaches the registration, unless the process
\* is stopped or a call to consul fails (register_service, _update_register).
WeightFollows ==
    pc = "serving" /\ ~forked ~> agent = weight \/ pc # "serving" \/ raced.failed

\* SIGTERM ends the process, whatever consul answers (server_stop).
SigtermStops == sigterm ~> pc \in {"stopped", "failed"}
=============================================================================
