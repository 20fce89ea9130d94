-------------------------- MODULE ProcessLifeProofs --------------------------
(***************************************************************************)
(* ProcessLife for any settings, clusters, requests, weights and           *)
(* collections.                                                            *)
(***************************************************************************)
EXTENDS ProcessLife, TLAPS

States == {"parse", "discover", "load", "gather", "register", "put", "serving", "stopwatch",
           "deregister", "draining", "deinit", "loopstop", "stopped", "failed"}
Early == {"parse", "discover", "load"}

-----------------------------------------------------------------------------
(* Garbage collection.                                                     *)

GcInv ==
    /\ gc \in [left : Nat, n : Nat, count : Nat, sent : Nat]
    /\ hooks \in 0..2
    /\ pc \in Early => hooks \in 0..1
    /\ GcNotOvercounted

LEMMA GcInit == ASSUME Init PROVE GcInv
<1>1. PICK left \in IF forked THEN 0..MaxGc ELSE {0} :
        gc = [left |-> left, n |-> 0, count |-> left, sent |-> 0]
  BY DEF Init
<1>2. left \in Nat
  BY ProcessAssumption
<1>3. hooks \in 0..1
  BY DEF Init
<1> QED
  BY <1>1, <1>2, <1>3 DEF GcInv, GcNotOvercounted

LEMMA GcFrame ==
    ASSUME GcInv, UNCHANGED gcv, pc' \in Early => pc \in Early
    PROVE  GcInv'
BY DEF GcInv, gcv, GcNotOvercounted

LEMMA OneMore == \A a, b \in Nat : (a + 1) * b = a * b + b
OBVIOUS

LEMMA GcStep == ASSUME GcInv, [Next]_vars PROVE GcInv'
<1>0. /\ gc.n \in Nat /\ gc.count \in Nat /\ gc.sent \in Nat /\ hooks \in Nat
      /\ gc.left \in Nat /\ gc.sent + gc.count <= gc.left + hooks * gc.n
  BY DEF GcInv, GcNotOvercounted
<1>1. CASE LoadIntegrations
  <2>1. CASE ~KafkaReady \/ ~ScyllaReady
    BY <1>1, <2>1, GcFrame DEF LoadIntegrations, Fail, Early
  <2>2. CASE ~(~KafkaReady \/ ~ScyllaReady)
    <3>1. hooks' = hooks + 1 /\ gc' = gc /\ pc = "load" /\ pc' = "gather"
      BY <1>1, <2>2 DEF LoadIntegrations, HooksAdded
    <3>2. (hooks + 1) * gc.n = hooks * gc.n + gc.n
      BY <1>0, OneMore
    <3>3. hooks * gc.n \in Nat
      BY <1>0
    <3>4. hooks' \in 0..2
      BY <3>1 DEF GcInv, Early
    <3>5. gc'.sent + gc'.count <= gc'.left + hooks' * gc'.n
      BY <1>0, <3>1, <3>2, <3>3
    <3> QED
      BY <3>1, <3>4, <3>5 DEF GcInv, GcNotOvercounted, Early
  <2> QED
    BY <2>1, <2>2
<1>2. CASE Collect
  <2>1. /\ gc' = [left |-> gc.left, n |-> gc.n + 1, count |-> gc.count + hooks, sent |-> gc.sent]
        /\ UNCHANGED <<hooks, pc>>
    BY <1>2 DEF Collect
  <2>2. /\ gc' \in [left : Nat, n : Nat, count : Nat, sent : Nat]
        /\ gc'.n = gc.n + 1 /\ gc'.count = gc.count + hooks /\ gc'.sent = gc.sent
        /\ gc'.left = gc.left
    BY <1>0, <2>1 DEF GcInv
  <2>3. hooks * (gc.n + 1) = hooks * gc.n + hooks
    BY <1>0
  <2>4. hooks * gc.n \in Nat
    BY <1>0
  <2>5. gc'.sent + gc'.count <= gc'.left + hooks' * gc'.n
    BY <1>0, <2>1, <2>2, <2>3, <2>4
  <2> QED
    BY <2>1, <2>2, <2>5 DEF GcInv, GcNotOvercounted
<1>3. ASSUME NEW lost \in {0, 1}, SendMetrics(lost) PROVE GcInv'
  <2>1. /\ gc' = [left |-> gc.left, n |-> gc.n + lost, count |-> 0, sent |-> gc.sent + gc.count]
        /\ UNCHANGED <<hooks, pc>>
    BY <1>3 DEF SendMetrics, Cleared
  <2>2. /\ gc' \in [left : Nat, n : Nat, count : Nat, sent : Nat]
        /\ gc'.n = gc.n + lost /\ gc'.count = 0 /\ gc'.sent = gc.sent + gc.count
        /\ gc'.left = gc.left
    <3>1. gc.n + lost \in Nat /\ gc.sent + gc.count \in Nat
      BY <1>0
    <3> QED
      BY <1>0, <2>1, <3>1
  <2>3. hooks * (gc.n + 1) = hooks * gc.n + hooks
    BY <1>0
  <2>4. hooks * gc.n \in Nat
    BY <1>0
  <2>5. hooks * gc.n <= hooks * (gc.n + lost)
    BY <1>0, <2>3, <2>4
  <2>6. hooks * (gc.n + lost) \in Nat
    BY <1>0
  <2>7. gc'.sent + gc'.count <= gc'.left + hooks' * gc'.n
    BY <1>0, <2>1, <2>2, <2>4, <2>5, <2>6
  <2> QED
    BY <2>1, <2>2, <2>7 DEF GcInv, GcNotOvercounted
<1>4. CASE Parse \/ Discover
  BY <1>4, GcFrame DEF Parse, Discover, Fail, Early, gcv
<1>5. CASE Listen \/ RegisterRead \/ ServerStop \/ StopWatch \/ CloseClient \/ LoopStop
  BY <1>5, GcFrame DEF Listen, RegisterRead, ServerStop, StopWatch, CloseClient, LoopStop, Fail,
     Early, gcv
<1>6. ASSUME NEW res \in Results, RegisterPut(res) \/ Deregister(res) \/ WatchPut(res)
      PROVE  GcInv'
  BY <1>6, GcFrame DEF RegisterPut, Deregister, WatchPut, AfterDeregister, Early, gcv
<1>7. ASSUME NEW u \in Kafka, ProducerStarts(u) \/ ProducerFails(u)
      PROVE  GcInv'
  BY <1>7, GcFrame DEF ProducerStarts, ProducerFails, Fail, Early, gcv
<1>8. ASSUME NEW r \in Requests, Accept(r) \/ Respond(r)
      PROVE  GcInv'
  BY <1>8, GcFrame DEF Accept, Respond, gcv
<1>9. CASE WatchSees \/ WeightChanges \/ Sigterm
  BY <1>9, GcFrame DEF WatchSees, WeightChanges, Sigterm, gcv
<1>10. CASE UNCHANGED vars
  BY <1>10, GcFrame DEF vars, gcv
<1> QED
  BY <1>1, <1>2, <1>3, <1>4, <1>5, <1>6, <1>7, <1>8, <1>9, <1>10 DEF Next, Loop, Watcher

\* Whatever the garbage collector does between reading and clearing the counters,
\* however often the hook is installed and whatever a restarted worker inherits,
\* no collection is reported twice by one hook (gc_metrics_collector, send_metrics).
THEOREM GcCountsAreBounded == Spec => []GcNotOvercounted
<1>1. Init => GcInv
  BY GcInit
<1>2. GcInv => GcNotOvercounted
  BY DEF GcInv
<1> QED
  BY <1>1, <1>2, GcStep, PTL DEF Spec

-----------------------------------------------------------------------------
(* The option that may come from everywhere.                               *)

\* A value at the end is the one that stays.
LEMMA LastOneStays ==
    ASSUME NEW T, NEW s \in Seq(T), NEW v \in T, v # None
    PROVE  LastGiven(s \o <<v>>) = v
<1> DEFINE all == s \o <<v>>
           given == {i \in 1..Len(all) : all[i] # None}
<1>1. Len(s) \in Nat /\ Len(all) = Len(s) + 1 /\ all[Len(all)] = v
  OBVIOUS
<1> HIDE DEF all
<1>2. Len(all) \in given /\ \A i \in given : i <= Len(all)
  BY <1>1
<1>3. \A i, j \in given : i \in Int /\ j \in Int
  BY <1>1
<1> HIDE DEF given
<1>4. Max(given) = Len(all)
  BY <1>2, <1>3 DEF Max
<1>5. LastGiven(all) = all[Max(given)]
  BY <1>2 DEF LastGiven, given
<1> QED
  BY <1>1, <1>4, <1>5 DEF all

LEMMA ParsedCommandLine ==
    ASSUME NEW s \in Settings, parse_command_line(s.cmd) # None
    PROVE  Parsed(s) = parse_command_line(s.cmd)
<1> DEFINE cmd == parse_command_line(s.cmd)
           T == STRING \cup {cmd, s.env}
           files == IF s.named # <<>> THEN s.named ELSE s.files
<1>1. s.named \in Seq(T) /\ s.files \in Seq(T)
  <2>1. s.named \in Seq(STRING) /\ s.files \in Seq(STRING)
    BY ProcessAssumption
  <2>2. \A x \in Seq(STRING) : x \in Seq(T)
    OBVIOUS
  <2> QED
    BY <2>1, <2>2
<1>2. Parsed(s) = LastGiven(<<cmd>> \o files \o <<s.env>> \o <<cmd>>)
  BY DEF Parsed
<1>3. cmd \in T /\ s.env \in T /\ cmd # None
  OBVIOUS
<1>4. files \in Seq(T)
  BY <1>1
<1> HIDE DEF cmd, T, files
<1>5. <<cmd>> \o files \o <<s.env>> \in Seq(T)
  BY <1>3, <1>4
<1>6. Parsed(s) = cmd
  BY <1>2, <1>3, <1>5, LastOneStays
<1> QED
  BY <1>6 DEF cmd

NameInv ==
    /\ setting \in Settings
    /\ pc \notin {"parse", "failed"} => node_name = Parsed(setting)

LEMMA NameFrame ==
    ASSUME NameInv, UNCHANGED <<setting, node_name>>,
           pc' \in {"parse", "failed"} \/ pc \notin {"parse", "failed"}
    PROVE  NameInv'
BY DEF NameInv

LEMMA NameStep == ASSUME NameInv, [Next]_vars PROVE NameInv'
<1>1. CASE Parse
  BY <1>1 DEF Parse, NameInv, Fail, conf
<1>2. ASSUME NEW res \in Results, RegisterPut(res) \/ Deregister(res) \/ WatchPut(res)
      PROVE  NameInv'
  BY <1>2, NameFrame DEF RegisterPut, Deregister, WatchPut, conf, Alive
<1>3. CASE Discover \/ LoadIntegrations \/ Listen \/ RegisterRead
  BY <1>3, NameFrame DEF Discover, LoadIntegrations, Listen, RegisterRead, Fail, conf
<1>4. CASE ServerStop \/ StopWatch \/ CloseClient \/ LoopStop
  BY <1>4, NameFrame DEF ServerStop, StopWatch, CloseClient, LoopStop, StopsLoop, conf
<1>5. ASSUME NEW u \in Kafka, ProducerStarts(u) \/ ProducerFails(u)
      PROVE  NameInv'
  BY <1>5, NameFrame DEF ProducerStarts, ProducerFails, Fail, conf
<1>6. ASSUME NEW r \in Requests, Accept(r) \/ Respond(r)
      PROVE  NameInv'
  BY <1>6 DEF NameInv, Accept, Respond, conf
<1>7. CASE WatchSees \/ WeightChanges \/ Sigterm \/ Collect
  BY <1>7 DEF NameInv, WatchSees, WeightChanges, Sigterm, Collect, conf
<1>8. ASSUME NEW lost \in {0, 1}, SendMetrics(lost) PROVE NameInv'
  BY <1>8 DEF NameInv, SendMetrics, conf
<1>9. CASE UNCHANGED vars
  BY <1>9 DEF NameInv, vars, conf
<1> QED
  BY <1>1, <1>2, <1>3, <1>4, <1>5, <1>6, <1>7, <1>8, <1>9 DEF Next, Loop, Watcher

\* Whatever the files and the environment say, and whatever else is on the
\* command line, the value given there is the one the process has (parse_configs).
THEOREM CommandLineDecides == Spec => []CommandLineWins
<1>1. Init => NameInv
  BY DEF Init, NameInv
<1>2. NameInv => CommandLineWins
  BY ParsedCommandLine DEF NameInv, CommandLineWins
<1> QED
  BY <1>1, <1>2, NameStep, PTL DEF Spec

-----------------------------------------------------------------------------
(* What requests find.                                                     *)

Up == {"register", "put", "serving", "stopwatch", "deregister", "draining", "loopstop"}

ServeInv ==
    /\ pc \in States
    /\ started \subseteq Kafka
    /\ session \in {None, "open", "closed"}
    /\ active \subseteq Requests
    /\ pc \notin {"serving", "stopwatch", "deregister", "draining", "deinit", "loopstop"}
           => active = {}
    /\ pc \in Up \cup {"deinit"} => Kafka \subseteq started
    /\ pc \in Up => session = "open"

LEMMA ServeStep == ASSUME ServeInv, [Next]_vars PROVE ServeInv'
<1> USE DEF ServeInv, States, Up
<1>1. CASE Parse \/ Discover \/ LoadIntegrations
  BY <1>1 DEF Parse, Discover, LoadIntegrations, Fail
<1>2. CASE Listen \/ RegisterRead
  BY <1>2 DEF Listen, RegisterRead, Fail, Awaited
<1>3. ASSUME NEW res \in Results, RegisterPut(res) PROVE ServeInv'
  BY <1>3 DEF RegisterPut
<1>4. ASSUME NEW res \in Results, Deregister(res) PROVE ServeInv'
  BY <1>4 DEF Deregister, AfterDeregister
<1>5. ASSUME NEW res \in Results, WatchPut(res) PROVE ServeInv'
  BY <1>5 DEF WatchPut
<1>6. CASE ServerStop \/ StopWatch
  BY <1>6 DEF ServerStop, StopWatch
<1>7. CASE CloseClient \/ LoopStop
  BY <1>7 DEF CloseClient, LoopStop
<1>8. ASSUME NEW u \in Kafka, ProducerStarts(u) \/ ProducerFails(u) PROVE ServeInv'
  BY <1>8 DEF ProducerStarts, ProducerFails, Fail
<1>9. ASSUME NEW r \in Requests, Accept(r) \/ Respond(r) PROVE ServeInv'
  BY <1>9 DEF Accept, Respond, Serves
<1>10. CASE WatchSees \/ WeightChanges \/ Sigterm \/ Collect
  BY <1>10 DEF WatchSees, WeightChanges, Sigterm, Collect
<1>11. ASSUME NEW lost \in {0, 1}, SendMetrics(lost) PROVE ServeInv'
  BY <1>11 DEF SendMetrics
<1>12. CASE UNCHANGED vars
  BY <1>12 DEF vars
<1> QED
  BY <1>1, <1>2, <1>3, <1>4, <1>5, <1>6, <1>7, <1>8, <1>9, <1>10, <1>11, <1>12
  DEF Next, Loop, Watcher

LEMMA ServeInit == Init => ServeInv
BY DEF Init, ServeInv, States, Up

\* For any clusters and requests: a request is served only when every kafka
\* producer has started, and finds the http client open until the stop timeout
\* is over (install_integrations, run_server, deinit).
THEOREM RequestsFindEverything == Spec => []ServedWithEverything
<1>1. ServeInv => ServedWithEverything
  BY DEF ServeInv, ServedWithEverything, Up
<1> QED
  BY <1>1, ServeInit, ServeStep, PTL DEF Spec

-----------------------------------------------------------------------------
(* The registration in consul.                                             *)

Weights == 1..MaxWeight
Before == {"parse", "discover", "load", "gather", "register", "put"}
Going == {"deregister", "draining", "deinit", "loopstop", "stopped"}

RegisterTypes ==
    /\ forked \in BOOLEAN
    /\ weight \in Weights
    /\ agent \in Weights \cup {no} /\ callback \in Weights \cup {no} /\ seen \in Weights \cup {no}
    /\ raced \in [stop : BOOLEAN, failed : BOOLEAN]

\* The watcher runs only between registration and stop; a callback that it has
\* left behind is remembered as a race.
WatchInv ==
    /\ pc \in Before => watch = "off"
    /\ watch = "on" => pc \in {"serving", "stopwatch"}
    /\ watch = "off" => callback = no
    /\ pc \in Going /\ callback # no => raced.stop

\* A forked worker never registers; a process that drains is deregistered.
GoneInv ==
    /\ forked => /\ watch = "off" /\ agent = no
                 /\ pc \notin {"register", "put", "stopwatch", "deregister", "loopstop"}
    /\ fate = "drained" => pc \in {"deinit", "stopped"}
    /\ pc \in {"draining", "deinit"} \/ (pc = "stopped" /\ fate = "drained")
           => agent = no \/ raced.stop \/ raced.failed

RegInv == RegisterTypes /\ WatchInv /\ GoneInv

LEMMA RegFrame == ASSUME RegInv, UNCHANGED <<forked, consul, fate, pc>> PROVE RegInv'
BY DEF RegInv, RegisterTypes, WatchInv, GoneInv, consul, Going

\* Steps before the registration.
LEMMA RegStart ==
    ASSUME RegInv, pc \in Before, UNCHANGED <<forked, consul, fate>>,
           \/ pc' \in {"discover", "load", "gather", "failed"}
           \/ forked /\ pc' = "serving"
           \/ ~forked /\ pc' = "register"
    PROVE  RegInv'
<1>1. watch = "off" /\ fate # "drained"
  BY DEF RegInv, WatchInv, GoneInv, Before
<1> QED
  BY <1>1 DEF RegInv, RegisterTypes, WatchInv, GoneInv, consul, Going, Before

LEMMA RegisterStep ==
    ASSUME RegInv, RegisterRead \/ \E res \in Results : RegisterPut(res)
    PROVE  RegInv'
<1>1. CASE RegisterRead
  <2>1. CASE ~selfRegister
    BY <1>1, <2>1, RegStart DEF RegisterRead, Fail, conf, Before
  <2>2. CASE selfRegister
    BY <1>1, <2>2 DEF RegisterRead, conf, RegInv, RegisterTypes, WatchInv, GoneInv, Going, Before
  <2> QED
    BY <2>1, <2>2
<1>2. ASSUME NEW res \in Results, RegisterPut(res) PROVE RegInv'
  <2>1. /\ ~forked /\ watch = "off" /\ callback = no /\ fate # "drained"
        /\ UNCHANGED <<forked, weight, callback, seen, raced, fate>>
        /\ agent' \in {seen, agent}
        /\ \/ watch' = "on" /\ pc' = "serving"
           \/ watch' = "off" /\ pc' = "failed"
    BY <1>2 DEF RegisterPut, conf, RegInv, RegisterTypes, WatchInv, GoneInv, Before
  <2> QED
    BY <2>1 DEF RegInv, RegisterTypes, WatchInv, GoneInv, Going, Before
<1> QED
  BY <1>1, <1>2

LEMMA WatcherStep == ASSUME RegInv, Watcher \/ WeightChanges PROVE RegInv'
<1>1. CASE WeightChanges
  <2>1. weight' \in Weights
    BY <1>1, ProcessAssumption DEF WeightChanges, RegInv, RegisterTypes, Weights
  <2> QED
    BY <1>1, <2>1 DEF WeightChanges, conf, RegInv, RegisterTypes, WatchInv, GoneInv, Going
<1>2. CASE WatchSees
  BY <1>2 DEF WatchSees, conf, RegInv, RegisterTypes, WatchInv, GoneInv, Going
<1>3. ASSUME NEW res \in Results, WatchPut(res) PROVE RegInv'
  <2>1. raced' \in [stop : BOOLEAN, failed : BOOLEAN] /\ raced'.stop = raced.stop
        /\ (raced.failed => raced'.failed)
    <3>1. raced' = [raced EXCEPT !.failed = raced.failed \/ res # "ok"]
      BY <1>3 DEF WatchPut
    <3>2. (raced.failed \/ res # "ok") \in BOOLEAN
      BY Zenon
    <3> QED
      BY <3>1, <3>2 DEF RegInv, RegisterTypes
  <2>2. /\ callback # no /\ callback' = no
        /\ agent' \in {agent, callback}
        /\ UNCHANGED <<forked, pc, weight, watch, seen, fate>>
    BY <1>3 DEF WatchPut, conf, NewWeight
  <2> QED
    BY <2>1, <2>2 DEF RegInv, RegisterTypes, WatchInv, GoneInv, Going
<1> QED
  BY <1>1, <1>2, <1>3 DEF Watcher

LEMMA StopStep ==
    ASSUME RegInv,
           ServerStop \/ StopWatch \/ CloseClient \/ LoopStop \/ \E res \in Results : Deregister(res)
    PROVE  RegInv'
<1>1. CASE ServerStop
  BY <1>1 DEF ServerStop, conf, consul, RegInv, RegisterTypes, WatchInv, GoneInv, Going, Before
<1>2. CASE StopWatch
  <2>1. (callback # no) \in BOOLEAN
    OBVIOUS
  <2>2. raced' \in [stop : BOOLEAN, failed : BOOLEAN] /\ raced'.stop = (callback # no)
    BY <1>2, <2>1 DEF StopWatch, RegInv, RegisterTypes
  <2> QED
    BY <1>2, <2>2
    DEF StopWatch, WatchStopped, conf, RegInv, RegisterTypes, WatchInv, GoneInv, Going, Before
<1>3. CASE CloseClient
  BY <1>3 DEF CloseClient, conf, consul, RegInv, RegisterTypes, WatchInv, GoneInv, Going, Before
<1>4. CASE LoopStop
  BY <1>4
  DEF LoopStop, StopsLoop, conf, consul, RegInv, RegisterTypes, WatchInv, GoneInv, Going, Before
<1>5. ASSUME NEW res \in Results, Deregister(res) PROVE RegInv'
  <2>1. /\ raced' \in [stop : BOOLEAN, failed : BOOLEAN] /\ raced'.stop = raced.stop
        /\ res # "ok" => raced'.failed
    <3>1. raced' = [raced EXCEPT !.failed = raced.failed \/ res # "ok"]
      BY <1>5 DEF Deregister
    <3>2. (raced.failed \/ res # "ok") \in BOOLEAN
      BY Zenon
    <3> QED
      BY <3>1, <3>2 DEF RegInv, RegisterTypes
  <2>2. /\ pc = "deregister" /\ pc' \in {"draining", "loopstop"}
        /\ agent' \in {agent, no} /\ (res = "ok" => agent' = no)
        /\ fate' \in {fate, "hurried"}
        /\ UNCHANGED <<forked, weight, watch, callback, seen>>
    BY <1>5 DEF Deregister, AfterDeregister, conf
  <2> QED
    BY <2>1, <2>2 DEF RegInv, RegisterTypes, WatchInv, GoneInv, Going, Before
<1> QED
  BY <1>1, <1>2, <1>3, <1>4, <1>5

LEMMA RegStep == ASSUME RegInv, [Next]_vars PROVE RegInv'
<1>1. CASE Parse \/ Discover \/ LoadIntegrations \/ Listen
  BY <1>1, RegStart DEF Parse, Discover, LoadIntegrations, Listen, Fail, conf, Before,
     RegInv, RegisterTypes
<1>2. ASSUME NEW u \in Kafka, ProducerStarts(u) \/ ProducerFails(u) PROVE RegInv'
  BY <1>2, RegStart, RegFrame DEF ProducerStarts, ProducerFails, Fail, conf, Before
<1>3. ASSUME NEW r \in Requests, Accept(r) \/ Respond(r) PROVE RegInv'
  BY <1>3, RegFrame DEF Accept, Respond, conf
<1>4. CASE Sigterm \/ Collect
  BY <1>4, RegFrame DEF Sigterm, Collect, conf
<1>5. ASSUME NEW lost \in {0, 1}, SendMetrics(lost) PROVE RegInv'
  BY <1>5, RegFrame DEF SendMetrics, conf
<1>6. CASE UNCHANGED vars
  BY <1>6, RegFrame DEF vars, conf
<1> QED
  BY <1>1, <1>2, <1>3, <1>4, <1>5, <1>6, RegisterStep, WatcherStep, StopStep
  DEF Next, Loop

LEMMA RegInit == Init => RegInv
BY ProcessAssumption
DEF Init, RegInv, RegisterTypes, WatchInv, GoneInv, Going, Before, Weights, None

\* A process that has stopped in order is gone from consul, unless a call to
\* consul failed or the watcher thread was in its callback when it was stopped:
\* these are the only ways to leave a dead process registered
\* (deregister_service_and_close, _update_register).
THEOREM GoneFromConsul == Spec => []GoneUnlessRaced
<1>1. RegInv => GoneUnlessRaced
  BY DEF RegInv, GoneInv, GoneUnlessRaced
<1> QED
  BY <1>1, RegInit, RegStep, PTL DEF Spec

\* The types, for any settings, clusters, requests and weights.
THEOREM ProcessTypes == Spec => []TypeOK
<1>1. GcInv /\ ServeInv /\ RegInv => TypeOK
  BY DEF GcInv, ServeInv, States, RegInv, RegisterTypes, Weights, TypeOK
<1>2. Init => GcInv
  BY GcInit
<1> QED
  BY <1>1, <1>2, GcStep, ServeInit, ServeStep, RegInit, RegStep, PTL DEF Spec
=============================================================================
