-------------------------- MODULE UpstreamSyncProofs --------------------------
(* Proofs about UpstreamSync, for any number of sources, upstreams and     *)
(* workers.                                                                *)
EXTENDS UpstreamSync, FiniteSetTheorems, TLAPS

\* The part of the type invariant that the argument needs.
TypesOfBuild ==
    /\ version \in Values
    /\ upc \in [Sources -> {"idle", "stored", "built", "sending"}]
    /\ master \in Upstreams

BuildInv == TypesOfBuild /\ MasterIsCurrent

\* An upstream built from what is stored is an upstream.
LEMMA CombineIsValue ==
    ASSUME version \in Values, NEW k \in Keys
    PROVE  Combine(k) \in Values
BY SyncAssumption DEF Combine, Values

\* Before the first update every upstream is empty, and so is what would be
\* built.
LEMMA InitBuild == Init => BuildInv
<1> SUFFICES ASSUME Init PROVE BuildInv
    OBVIOUS
<1>1. TypesOfBuild
    BY SyncAssumption DEF Init, TypesOfBuild, Values, Upstreams, NoUpstreams, Nothing
<1>2. MasterIsCurrent
    BY SyncAssumption DEF Init, MasterIsCurrent, Combine, NoUpstreams, Nothing
<1> QED
    BY <1>1, <1>2 DEF BuildInv

\* A store only concerns the upstream of its source, whose rebuild is then
\* due.
LEMMA StoreBuild ==
    ASSUME BuildInv, NEW s \in Sources, Store(s)
    PROVE  BuildInv'
<1>1. TypesOfBuild'
    BY SyncAssumption DEF BuildInv, TypesOfBuild, Store, Values, Upstreams
<1>2. MasterIsCurrent'
    <2> SUFFICES ASSUME NEW k \in Keys,
                        \A t \in Sources : KeyOf[t] = k => upc'[t] # "stored"
                 PROVE  master'[k] = Combine(k)'
        BY DEF MasterIsCurrent
    <2>1. upc'[s] = "stored"
        BY DEF BuildInv, TypesOfBuild, Store
    <2>2. KeyOf[s] # k
        BY <2>1
    <2>3. \A t \in Sources : t # s => upc'[t] = upc[t] /\ version'[t] = version[t]
        BY DEF BuildInv, TypesOfBuild, Store, Values
    <2>4. Combine(k)' = Combine(k)
        BY <2>2, <2>3 DEF Combine
    <2>5. \A t \in Sources : KeyOf[t] = k => upc[t] # "stored"
        BY <2>2, <2>3
    <2>6. master[k] = Combine(k)
        BY <2>5 DEF BuildInv, MasterIsCurrent
    <2>7. master' = master
        BY DEF Store
    <2> QED
        BY <2>4, <2>6, <2>7
<1> QED
    BY <1>1, <1>2 DEF BuildInv

\* A rebuild reads what all sources of the upstream have stored by then.
LEMMA BuildBuild ==
    ASSUME BuildInv, NEW s \in Sources, Build(s)
    PROVE  BuildInv'
<1>0. KeyOf[s] \in Keys
    BY SyncAssumption
<1>1. Combine(KeyOf[s]) \in Values
    BY <1>0, CombineIsValue DEF BuildInv, TypesOfBuild
<1>2. TypesOfBuild'
    BY <1>0, <1>1 DEF BuildInv, TypesOfBuild, Build, Upstreams
<1>3. \A k \in Keys : Combine(k)' = Combine(k)
    BY DEF Combine, Build
<1>4. MasterIsCurrent'
    <2> SUFFICES ASSUME NEW k \in Keys,
                        \A t \in Sources : KeyOf[t] = k => upc'[t] # "stored"
                 PROVE  master'[k] = Combine(k)
        BY <1>3 DEF MasterIsCurrent
    <2>1. CASE k = KeyOf[s]
        BY <2>1 DEF BuildInv, TypesOfBuild, Build, Upstreams
    <2>2. CASE k # KeyOf[s]
        <3>1. \A t \in Sources : KeyOf[t] = k => upc'[t] = upc[t]
            BY <2>2 DEF BuildInv, TypesOfBuild, Build
        <3>2. master[k] = Combine(k)
            BY <3>1 DEF BuildInv, MasterIsCurrent
        <3>3. master'[k] = master[k]
            BY <2>2 DEF BuildInv, TypesOfBuild, Build, Upstreams
        <3> QED
            BY <3>2, <3>3
    <2> QED
        BY <2>1, <2>2
<1> QED
    BY <1>2, <1>4 DEF BuildInv

\* The rest of a listener moves no thread back to where a rebuild is due.
LEMMA SendingBuild ==
    ASSUME BuildInv, NEW s \in Sources,
           SendNothing(s) \/ SendUpdate(s) \/ SendOver(s)
    PROVE  BuildInv'
<1>1. version' = version /\ master' = master
    BY DEF SendNothing, SendUpdate, SendOver
<1>2. \E x \in {"idle", "sending"} : upc' = [upc EXCEPT ![s] = x]
    BY DEF SendNothing, SendUpdate, SendOver
<1>3. upc[s] # "stored"
    BY DEF SendNothing, SendUpdate, SendOver
<1>4. TypesOfBuild'
    BY <1>1, <1>2 DEF BuildInv, TypesOfBuild
<1>5. \A t \in Sources : upc'[t] # "stored" => upc[t] # "stored"
    BY <1>2, <1>3 DEF BuildInv, TypesOfBuild
<1>6. MasterIsCurrent'
    BY <1>1, <1>5 DEF BuildInv, MasterIsCurrent, Combine
<1> QED
    BY <1>4, <1>6 DEF BuildInv

\* Nothing else touches the upstreams of the master.
LEMMA OtherBuild ==
    ASSUME BuildInv, UNCHANGED <<version, upc, master>>
    PROVE  BuildInv'
BY DEF BuildInv, TypesOfBuild, MasterIsCurrent, Combine

\* What the master serves for an upstream is built from the latest data of all
\* its sources unless a rebuild is due (MasterServiceDiscovery._update_upstreams
\* with the unlocked stores before it), for any number of cache threads.
THEOREM MasterStaysCurrent == Spec => []MasterIsCurrent
<1>1. BuildInv /\ [Next]_vars => BuildInv'
    <2> SUFFICES ASSUME BuildInv, [Next]_vars PROVE BuildInv'
        OBVIOUS
    <2>1. CASE \E s \in Sources : Store(s) \/ Thread(s)
        BY <2>1, StoreBuild, BuildBuild, SendingBuild DEF Thread
    <2>2. CASE SendNext
        BY <2>2, OtherBuild DEF SendNext, threadVars
    <2>3. CASE Main
        <3>1. UNCHANGED <<version, upc, master>>
            BY <2>3 DEF Main, CopyUpstreams, RegisterPipe, OnWorkerRestart, SetHook,
                        SendAll, SendAllOver, PopPipe, threadVars
        <3> QED
            BY <3>1, OtherBuild
    <2>4. CASE Resend
        <3>1. UNCHANGED <<version, upc, master>>
            BY <2>4 DEF Resend, ResendGet, ResendLock, ResendList, ResendClear,
                        ResendOver, ResendTo, threadVars
        <3> QED
            BY <3>1, OtherBuild
    <2>5. CASE \E p \in Pids : WorkerDies(p) \/ Apply(p)
        <3>1. UNCHANGED <<version, upc, master>>
            BY <2>5 DEF WorkerDies, Apply, threadVars
        <3> QED
            BY <3>1, OtherBuild
    <2>6. CASE UNCHANGED vars
        BY <2>6, OtherBuild DEF vars, threadVars
    <2> QED
        BY <2>1, <2>2, <2>3, <2>4, <2>5, <2>6 DEF Next
<1>2. BuildInv => MasterIsCurrent
    BY DEF BuildInv
<1> QED
    BY InitBuild, <1>1, <1>2, PTL DEF Spec

-----------------------------------------------------------------------------
\* Who has the lock, and whose loop it is.
LockInv ==
    /\ \A s \in Sources : upc[s] = "sending" <=> lock = s
    /\ mpc = "sending" <=> lock = "main"
    /\ rpc \in {"locked", "listed", "sending"} <=> lock = "resend"
    /\ lock \in {"free", "resend"} => loop = Idle
    /\ lock = "resend" => rdata = master

\* How far the main thread is with its forks.
ForkInv ==
    /\ hook <=> mpc \in {"all", "sending", "supervise", "popped", "flag"}
                \/ (mpc = "fork" /\ forked > NWorkers)
    /\ mpc = "copy" => forked < NWorkers
    /\ mpc = "flag" => forked > NWorkers
    /\ forked < NWorkers => mpc \in {"copy", "fork"}
    /\ mpc = "fork" => forked # 0
    /\ pipes \cup dead \subseteq 1..forked
    /\ mpc = "fork" => forked \notin pipes \cup dead
    /\ mpc \notin {"copy", "fork"} => forked \in pipes \cup dead

\* One worker is down at a time, and every other that died was replaced.
Down == IF mpc = "popped" \/ dead \cap pipes # {} THEN 1 ELSE 0

DeathInv ==
    /\ \A p, q \in dead \cap pipes : p = q
    /\ mpc \in {"copy", "fork", "popped", "flag"} => dead \cap pipes = {}
    /\ forked <= NWorkers /\ mpc \in {"copy", "fork"} => dead = {}
    /\ forked >= NWorkers => Cardinality(dead) = forked - NWorkers + Down
    /\ forked \in dead => forked \in pipes \/ mpc = "popped"
    /\ Cardinality(dead) <= MaxRestarts

\* Nothing is asked of the resend thread before the first restart.
Pristine == rdict = {} /\ rclients = {} /\ ~notified /\ rpc = "wait"

ResendInv ==
    /\ forked <= NWorkers \/ (forked = NWorkers + 1 /\ mpc \in {"fork", "flag"}) => Pristine
    /\ rclients # {} => rpc \in {"listed", "sending"}

\* No message says anything of upstream k.
Silent(box, k) == \A i \in 1..Len(box) : box[i][k] = Nothing

\* Where no update of an upstream has been built there is none to be found, and
\* a message under way is not older than what the master has.
ValueInv ==
    /\ \A s \in Sources : upc[s] = "stored" => version[s] # 0
    /\ \A s \in Sources : upc[s] = "built" => master[KeyOf[s]] # Nothing
    /\ \A s \in Sources : upc[s] = "built" /\ Lone(KeyOf[s]) => built[s] = master[KeyOf[s]]
    /\ \A k \in Keys : Lone(k) => loop.data[k] \in {Nothing, master[k]}
    /\ \A k \in Keys : master[k] = Nothing =>
          loop.data[k] = Nothing /\ \A p \in Pids : Silent(inbox[p], k) /\ worker[p][k] = Nothing

\* What a worker will have for k when it has read its messages is v.
Heard(box, has, k, v) ==
    \/ has[k] = v /\ Silent(box, k)
    \/ /\ v # Nothing
       /\ \E i \in 1..Len(box) : box[i][k] = v /\ \A j \in (i + 1)..Len(box) : box[j][k] = Nothing

\* The upstream k is still to be sent to p: by the main thread, by the cache
\* thread, by the loop under way, or by the resend thread.
Due(p, k) ==
    \/ mpc \in {"copy", "fork", "hook", "all", "flag"}
    \/ \E s \in Sources : KeyOf[s] = k /\ upc[s] = "built"
    \/ /\ lock \in Sources \cup {"main"}
       /\ p \in pipes /\ p > loop.last
       /\ loop.size = Cardinality(pipes)
       /\ loop.data[k] = master[k]
    \/ p \in rdict /\ ((notified /\ rpc = "wait") \/ rpc \in {"woken", "locked"})
    \/ p \in rclients /\ rpc \in {"listed", "sending"}

\* The workers the argument is about: all as long as none has died, then the
\* first that was restarted.
Tracked(p) ==
    /\ p \in pipes
    /\ dead = {} \/ (p = forked /\ p > NWorkers /\ Cardinality(dead) <= 1)

Arrives(p, k) == Heard(inbox[p], worker[p], k, master[k]) \/ Due(p, k)

SyncInv == \A p \in Pids, k \in Keys : Tracked(p) /\ Lone(k) => Arrives(p, k)

-----------------------------------------------------------------------------
(* Types.                                                                  *)

LEMMA PidsFacts ==
    /\ Pids \subseteq Nat \ {0} /\ IsFiniteSet(Pids) /\ Cardinality(Pids) \in Nat
    /\ \A S \in SUBSET Pids : IsFiniteSet(S) /\ Cardinality(S) \in 0..Cardinality(Pids)
<1>1. NWorkers + MaxRestarts \in Nat
  BY SyncAssumption
<1>2. Pids \subseteq Nat \ {0}
  BY <1>1 DEF Pids
<1>3. IsFiniteSet(Pids)
  BY <1>1, FS_Interval DEF Pids
<1>4. \A S \in SUBSET Pids : IsFiniteSet(S) /\ Cardinality(S) <= Cardinality(Pids)
  BY <1>3, FS_Subset
<1>5. Cardinality(Pids) \in Nat /\ \A S \in SUBSET Pids : Cardinality(S) \in Nat
  BY <1>3, <1>4, FS_CardinalityType
<1> QED
  BY <1>2, <1>3, <1>4, <1>5

LEMMA ValueTypes ==
    /\ Nothing \in Values /\ NoUpstreams \in Upstreams
    /\ Idle \in [data : Upstreams, last : Pids \cup {0}, size : 0..Cardinality(Pids)]
    /\ Idle.data = NoUpstreams /\ \A k \in Keys : NoUpstreams[k] = Nothing
<1>1. Nothing \in Values
  BY SyncAssumption DEF Nothing, Values
<1>2. NoUpstreams \in Upstreams /\ \A k \in Keys : NoUpstreams[k] = Nothing
  BY <1>1 DEF NoUpstreams, Upstreams
<1>3. 0 \in 0..Cardinality(Pids)
  BY PidsFacts
<1> QED
  BY <1>1, <1>2, <1>3 DEF Idle

LEMMA PayloadType ==
    ASSUME TypeOK, NEW s \in Sources
    PROVE  /\ Payload(s) \in Upstreams
           /\ \A k \in Keys : Payload(s)[k] = IF k # KeyOf[s] THEN Nothing
                                              ELSE IF s \in kept THEN master[k] ELSE built[s]
<1>1. KeyOf[s] \in Keys /\ master[KeyOf[s]] \in Values /\ built[s] \in Values
  BY SyncAssumption DEF TypeOK, Upstreams
<1> QED
  BY <1>1, ValueTypes DEF Payload, Upstreams

LEMMA StartLoopType ==
    ASSUME TypeOK, NEW data \in Upstreams, StartLoop(data)
    PROVE  /\ loop' \in [data : Upstreams, last : Pids \cup {0}, size : 0..Cardinality(Pids)]
           /\ loop'.data = data /\ loop'.last = 0 /\ loop'.size = Cardinality(pipes)
<1>1. Cardinality(pipes) \in 0..Cardinality(Pids)
  BY PidsFacts DEF TypeOK
<1> QED
  BY <1>1 DEF StartLoop

LEMMA DeliverType ==
    ASSUME TypeOK, NEW p \in Pids, NEW msg \in Upstreams, Deliver(p, msg)
    PROVE  /\ inbox' \in [Pids -> Seq(Upstreams)]
           /\ inbox'[p] = IF p \in dead THEN inbox[p] ELSE Append(inbox[p], msg)
           /\ \A q \in Pids : q # p => inbox'[q] = inbox[q]
<1>1. inbox[p] \in Seq(Upstreams) /\ inbox \in [Pids -> Seq(Upstreams)]
  BY DEF TypeOK
<1>2. Append(inbox[p], msg) \in Seq(Upstreams)
  BY <1>1
<1> QED
  BY <1>1, <1>2 DEF Deliver

LEMMA InitType == Init => TypeOK
<1> SUFFICES ASSUME Init PROVE TypeOK
  OBVIOUS
<1>1. <<>> \in Seq(Upstreams)
  OBVIOUS
<1>2. NWorkers \in Nat /\ MaxRestarts \in Nat
  BY SyncAssumption
<1> QED
  BY <1>1, <1>2, ValueTypes DEF Init, TypeOK, Upstreams, Values

LEMMA ThreadType ==
    ASSUME TypeOK, NEW s \in Sources, Store(s) \/ Thread(s)
    PROVE  TypeOK'
<1>1. CASE Store(s)
  <2>1. version' \in Values
    BY <1>1, SyncAssumption DEF Store, TypeOK, Values
  <2> QED
    BY <1>1, <2>1 DEF Store, TypeOK, pipeVars, mainVars, resendVars
<1>2. CASE Build(s)
  <2>1. KeyOf[s] \in Keys /\ Combine(KeyOf[s]) \in Values
    BY SyncAssumption, CombineIsValue DEF TypeOK
  <2>2. master' \in Upstreams /\ built' \in [Sources -> Values]
    BY <1>2, <2>1 DEF Build, TypeOK, Upstreams
  <2>3. kept' \subseteq Sources /\ upc' \in [Sources -> {"idle", "stored", "built", "sending"}]
    BY <1>2 DEF Build, TypeOK
  <2> QED
    BY <1>2, <2>2, <2>3 DEF Build, TypeOK, pipeVars, mainVars, resendVars
<1>3. CASE SendNothing(s)
  BY <1>3 DEF SendNothing, TypeOK, pipeVars, mainVars, resendVars
<1>4. CASE SendUpdate(s)
  <2>1. loop' \in [data : Upstreams, last : Pids \cup {0}, size : 0..Cardinality(Pids)]
    BY <1>4, StartLoopType, PayloadType DEF SendUpdate
  <2> QED
    BY <1>4, <2>1 DEF SendUpdate, TypeOK, pipeVars, mainVars, resendVars
<1>5. CASE SendOver(s)
  BY <1>5, ValueTypes DEF SendOver, TypeOK, pipeVars, mainVars, resendVars
<1> QED
  BY <1>1, <1>2, <1>3, <1>4, <1>5 DEF Thread

\* The next pipe of the iteration, and what it gets.
LEMMA SendNextFacts ==
    ASSUME TypeOK, SendNext
    PROVE  \E p \in pipes :
              /\ p > loop.last /\ \A q \in pipes : q > loop.last => p <= q
              /\ Deliver(p, loop.data)
              /\ loop' = [loop EXCEPT !.last = p]
              /\ loop' \in [data : Upstreams, last : Pids \cup {0}, size : 0..Cardinality(Pids)]
<1>1. PICK p \in Remaining : /\ \A q \in Remaining : p <= q
                             /\ Deliver(p, loop.data)
                             /\ loop' = [loop EXCEPT !.last = p]
  BY DEF SendNext
<1>2. p \in pipes /\ p > loop.last /\ \A q \in pipes : q > loop.last => p <= q
  BY <1>1 DEF Remaining
<1>3. loop' \in [data : Upstreams, last : Pids \cup {0}, size : 0..Cardinality(Pids)]
  BY <1>1, <1>2 DEF TypeOK
<1> QED
  BY <1>1, <1>2, <1>3

LEMMA SendNextType == ASSUME TypeOK, SendNext PROVE TypeOK'
<1>1. PICK p \in pipes :
              /\ Deliver(p, loop.data)
              /\ loop' \in [data : Upstreams, last : Pids \cup {0}, size : 0..Cardinality(Pids)]
  BY SendNextFacts
<1>2. p \in Pids /\ loop.data \in Upstreams
  BY DEF TypeOK
<1>3. inbox' \in [Pids -> Seq(Upstreams)]
  BY <1>1, <1>2, DeliverType
<1> QED
  BY <1>1, <1>3 DEF SendNext, TypeOK, threadVars, mainVars, resendVars

\* There is a pid for every worker that is started again.
LEMMA CopyHasPid ==
    ASSUME TypeOK, ForkInv, DeathInv, mpc \in {"copy", "popped"}
    PROVE  forked + 1 \in Pids
<1>1. NWorkers \in Nat /\ MaxRestarts \in Nat /\ forked \in Nat
  BY SyncAssumption, PidsFacts DEF TypeOK
<1>2. CASE mpc = "copy"
  BY <1>1, <1>2 DEF ForkInv, Pids
<1>3. CASE mpc = "popped"
  <2>1. Cardinality(dead) = forked - NWorkers + 1 /\ Cardinality(dead) <= MaxRestarts
    BY <1>1, <1>3 DEF ForkInv, DeathInv, Down
  <2>2. \A c \in Int : c = forked - NWorkers + 1 /\ c <= MaxRestarts => forked + 1 \in Pids
    BY <1>1 DEF Pids
  <2>3. Cardinality(dead) \in Int
    BY PidsFacts DEF TypeOK
  <2> QED
    BY <2>1, <2>2, <2>3
<1> QED
  BY <1>2, <1>3

LEMMA MainType == ASSUME TypeOK, ForkInv, DeathInv, Main PROVE TypeOK'
<1>1. CASE CopyUpstreams
  <2>1. forked + 1 \in Pids
    BY <1>1, CopyHasPid DEF CopyUpstreams
  <2> QED
    BY <1>1, <2>1 DEF CopyUpstreams, TypeOK, threadVars, resendVars
<1>2. CASE RegisterPipe
  <2>1. forked \in Pids
    BY <1>2 DEF RegisterPipe, TypeOK, ForkInv
  <2> QED
    BY <1>2, <2>1 DEF RegisterPipe, TypeOK, threadVars, resendVars
<1>3. CASE OnWorkerRestart
  <2>1. forked \in Pids
    <3>1. forked # 0
      BY <1>3, SyncAssumption DEF OnWorkerRestart, ForkInv
    <3> QED
      BY <3>1 DEF TypeOK
  <2> QED
    BY <1>3, <2>1 DEF OnWorkerRestart, TypeOK, threadVars, pipeVars
<1>4. CASE SetHook
  BY <1>4 DEF SetHook, TypeOK, threadVars, pipeVars, resendVars
<1>5. CASE SendAll
  <2>1. loop' \in [data : Upstreams, last : Pids \cup {0}, size : 0..Cardinality(Pids)]
    BY <1>5, StartLoopType DEF SendAll, TypeOK
  <2> QED
    BY <1>5, <2>1 DEF SendAll, TypeOK, threadVars, pipeVars, resendVars
<1>6. CASE SendAllOver
  BY <1>6, ValueTypes DEF SendAllOver, TypeOK, threadVars, pipeVars, resendVars
<1>7. CASE \E p \in Pids : PopPipe(p)
  BY <1>7 DEF PopPipe, TypeOK, threadVars, resendVars
<1> QED
  BY <1>1, <1>2, <1>3, <1>4, <1>5, <1>6, <1>7 DEF Main

LEMMA ResendType == ASSUME TypeOK, Resend PROVE TypeOK'
<1>1. CASE ResendGet \/ ResendLock \/ ResendList \/ ResendClear \/ ResendOver
  BY <1>1, ValueTypes DEF ResendGet, ResendLock, ResendList, ResendClear, ResendOver, TypeOK,
                          threadVars, pipeVars, mainVars
<1>2. ASSUME NEW p \in Pids, ResendTo(p) PROVE TypeOK'
  <2>1. inbox' \in [Pids -> Seq(Upstreams)]
    BY <1>2, DeliverType DEF ResendTo, TypeOK
  <2> QED
    BY <1>2, <2>1 DEF ResendTo, TypeOK, threadVars, mainVars
<1> QED
  BY <1>1, <1>2 DEF Resend

LEMMA ApplyFacts ==
    ASSUME TypeOK, NEW p \in Pids, Apply(p)
    PROVE  /\ inbox[p] \in Seq(Upstreams) /\ inbox[p] # <<>> /\ Head(inbox[p]) \in Upstreams
           /\ inbox' \in [Pids -> Seq(Upstreams)] /\ inbox'[p] = Tail(inbox[p])
           /\ worker' \in [Pids -> Upstreams]
           /\ \A k \in Keys : worker'[p][k] = IF Head(inbox[p])[k] = Nothing THEN worker[p][k]
                                              ELSE Head(inbox[p])[k]
           /\ \A q \in Pids : q # p => inbox'[q] = inbox[q] /\ worker'[q] = worker[q]
<1> DEFINE has == [k \in Keys |-> IF Head(inbox[p])[k] = Nothing THEN worker[p][k] ELSE Head(inbox[p])[k]]
<1>1. /\ inbox[p] \in Seq(Upstreams) /\ inbox[p] # <<>>
      /\ inbox \in [Pids -> Seq(Upstreams)] /\ worker \in [Pids -> Upstreams]
  BY DEF Apply, TypeOK
<1>2. Head(inbox[p]) \in Upstreams /\ Tail(inbox[p]) \in Seq(Upstreams)
  BY <1>1
<1>3. has \in Upstreams
  BY <1>1, <1>2 DEF Upstreams
<1>4. inbox' = [inbox EXCEPT ![p] = Tail(inbox[p])] /\ worker' = [worker EXCEPT ![p] = has]
  BY <1>1 DEF Apply
<1>5. \A k \in Keys : has[k] = IF Head(inbox[p])[k] = Nothing THEN worker[p][k] ELSE Head(inbox[p])[k]
  OBVIOUS
<1> HIDE DEF has
<1> QED
  BY <1>1, <1>2, <1>3, <1>4, <1>5

LEMMA WorkerType ==
    ASSUME TypeOK, NEW p \in Pids, WorkerDies(p) \/ Apply(p)
    PROVE  TypeOK'
<1>1. CASE WorkerDies(p)
  <2>1. inbox' \in [Pids -> Seq(Upstreams)]
    BY <1>1 DEF WorkerDies, TypeOK
  <2> QED
    BY <1>1, <2>1 DEF WorkerDies, TypeOK, threadVars, resendVars
<1>2. CASE Apply(p)
  <2>1. inbox' \in [Pids -> Seq(Upstreams)] /\ worker' \in [Pids -> Upstreams]
    BY <1>2, ApplyFacts
  <2> QED
    BY <1>2, <2>1 DEF Apply, TypeOK, threadVars, mainVars, resendVars
<1> QED
  BY <1>1, <1>2

-----------------------------------------------------------------------------
(* The lock.                                                               *)

LEMMA LockNames == \A s \in Sources : s # "free" /\ s # "main" /\ s # "resend"
BY SyncAssumption

LEMMA ThreadLock ==
    ASSUME TypeOK, LockInv, NEW s \in Sources, Store(s) \/ Thread(s)
    PROVE  LockInv'
<1>0. upc \in [Sources -> {"idle", "stored", "built", "sending"}]
  BY DEF TypeOK
<1>1. UNCHANGED <<mpc, rpc, rdata>>
  BY DEF Store, Thread, Build, SendNothing, SendUpdate, SendOver, mainVars, resendVars
<1>2. CASE Store(s) \/ Build(s) \/ SendNothing(s)
  <2>1. lock' = lock /\ loop' = loop /\ (lock = "resend" => master' = master)
    BY <1>2 DEF Store, Build, SendNothing
  <2>2. \A t \in Sources : upc'[t] = "sending" <=> upc[t] = "sending"
    BY <1>0, <1>2 DEF Store, Build, SendNothing
  <2> QED
    BY <1>1, <2>1, <2>2 DEF LockInv
<1>3. CASE SendUpdate(s)
  BY <1>0, <1>1, <1>3, LockNames DEF SendUpdate, LockInv
<1>4. CASE SendOver(s)
  BY <1>0, <1>1, <1>4, LockNames DEF SendOver, LockInv
<1> QED
  BY <1>2, <1>3, <1>4 DEF Thread

LEMMA MainLock == ASSUME TypeOK, LockInv, Main PROVE LockInv'
<1>1. UNCHANGED <<upc, rpc, rdata, master>>
  BY DEF Main, CopyUpstreams, RegisterPipe, OnWorkerRestart, SetHook, SendAll, SendAllOver,
         PopPipe, threadVars, resendVars
<1>2. CASE SendAll
  BY <1>1, <1>2, LockNames DEF SendAll, LockInv
<1>3. CASE SendAllOver
  BY <1>1, <1>3, LockNames DEF SendAllOver, LockInv
<1>4. CASE ~SendAll /\ ~SendAllOver
  <2>1. UNCHANGED <<lock, loop>> /\ mpc # "sending" /\ mpc' # "sending"
    BY <1>4 DEF Main, CopyUpstreams, RegisterPipe, OnWorkerRestart, SetHook, PopPipe
  <2> QED
    BY <1>1, <2>1 DEF LockInv
<1> QED
  BY <1>2, <1>3, <1>4

LEMMA ResendLockInv == ASSUME TypeOK, LockInv, Resend PROVE LockInv'
<1>1. UNCHANGED <<upc, mpc, master, loop>>
  BY DEF Resend, ResendGet, ResendLock, ResendList, ResendClear, ResendOver, ResendTo, threadVars, mainVars
<1>2. CASE ResendLock
  BY <1>1, <1>2, LockNames DEF ResendLock, LockInv
<1>3. CASE ResendOver
  BY <1>1, <1>3, LockNames DEF ResendOver, LockInv
<1>4. CASE ~ResendLock /\ ~ResendOver
  <2>1. UNCHANGED <<lock, rdata>>
    BY <1>4 DEF Resend, ResendGet, ResendList, ResendClear, ResendTo
  <2>2. rpc' \in {"locked", "listed", "sending"} <=> rpc \in {"locked", "listed", "sending"}
    BY <1>4 DEF Resend, ResendGet, ResendList, ResendClear, ResendTo
  <2> QED
    BY <1>1, <2>1, <2>2 DEF LockInv
<1> QED
  BY <1>2, <1>3, <1>4

LEMMA SendNextLock == ASSUME TypeOK, LockInv, SendNext PROVE LockInv'
<1>1. UNCHANGED <<upc, mpc, rpc, rdata, master, lock>> /\ lock \notin {"free", "resend"}
  BY LockNames DEF SendNext, threadVars, mainVars, resendVars
<1> QED
  BY <1>1 DEF LockInv

LEMMA WorkerLock ==
    ASSUME LockInv, NEW p \in Pids, WorkerDies(p) \/ Apply(p)
    PROVE  LockInv'
BY DEF LockInv, WorkerDies, Apply, threadVars, mainVars, resendVars

-----------------------------------------------------------------------------
(* Forks, deaths and flags: the main thread.                               *)

ControlInv == ForkInv /\ DeathInv /\ ResendInv

LEMMA ControlFrame ==
    ASSUME ControlInv,
           UNCHANGED <<mpc, forked, dead, hook, pipes, rpc, rdict, notified, rclients>>
    PROVE  ControlInv'
BY DEF ControlInv, ForkInv, DeathInv, ResendInv, Down, Pristine

LEMMA ForkTypes ==
    ASSUME TypeOK
    PROVE  /\ NWorkers \in Nat \ {0} /\ MaxRestarts \in Nat /\ forked \in Nat
           /\ IsFiniteSet(dead) /\ Cardinality(dead) \in Nat
           /\ IsFiniteSet(pipes) /\ Cardinality(pipes) \in Nat
BY SyncAssumption, PidsFacts DEF TypeOK

LEMMA CopyControl == ASSUME TypeOK, ControlInv, CopyUpstreams PROVE ControlInv'
<1> USE DEF ControlInv
<1>0. NWorkers \in Nat \ {0} /\ forked \in Nat /\ Cardinality(dead) \in Nat
  BY ForkTypes
<1>1. /\ mpc \in {"copy", "popped"} /\ mpc' = "fork" /\ forked' = forked + 1
      /\ UNCHANGED <<pipes, dead, hook, rpc, rdict, notified, rclients>>
  BY DEF CopyUpstreams, resendVars
<1>2. mpc = "popped" => forked >= NWorkers
  BY <1>0 DEF ForkInv
<1>3. forked + 1 \notin pipes \cup dead /\ pipes \cup dead \subseteq 1..(forked + 1)
  BY <1>0 DEF ForkInv
<1>4. ForkInv'
  BY <1>0, <1>1, <1>2, <1>3 DEF ForkInv
<1>5. dead \cap pipes = {} /\ (mpc = "copy" => dead = {})
  BY <1>0, <1>1 DEF ForkInv, DeathInv
<1>6. Down' = 0 /\ (mpc = "popped" => Down = 1)
  BY <1>1, <1>5 DEF Down
<1>7. Cardinality({}) = 0
  BY FS_EmptySet
<1>8. forked + 1 >= NWorkers => Cardinality(dead) = (forked + 1) - NWorkers + 0
  <2>1. CASE mpc = "copy"
    <3>1. forked < NWorkers /\ Cardinality(dead) = 0
      BY <1>5, <1>7, <2>1 DEF ForkInv
    <3> QED
      BY <1>0, <3>1
  <2>2. CASE mpc = "popped"
    <3>1. Cardinality(dead) = forked - NWorkers + 1
      BY <1>2, <1>6, <2>2 DEF DeathInv
    <3> QED
      BY <1>0, <3>1
  <2> QED
    BY <1>1, <2>1, <2>2
<1>9. forked + 1 <= NWorkers => dead = {}
  BY <1>0, <1>1, <1>2, <1>5
<1>10. DeathInv'
  BY <1>0, <1>1, <1>3, <1>5, <1>6, <1>8, <1>9 DEF DeathInv
<1>11. ResendInv'
  <2>1. (forked + 1 <= NWorkers \/ forked + 1 = NWorkers + 1) => forked <= NWorkers
    BY <1>0
  <2> QED
    BY <1>1, <2>1 DEF ResendInv, Pristine
<1> QED
  BY <1>4, <1>10, <1>11

LEMMA RegisterControl == ASSUME TypeOK, ControlInv, RegisterPipe PROVE ControlInv'
<1> USE DEF ControlInv
<1>0. NWorkers \in Nat \ {0} /\ forked \in Nat /\ Cardinality(dead) \in Nat
  BY ForkTypes
<1>1. /\ mpc = "fork" /\ pipes' = pipes \cup {forked}
      /\ mpc' = IF hook THEN "flag" ELSE IF forked < NWorkers THEN "copy" ELSE "hook"
      /\ UNCHANGED <<forked, dead, hook, rpc, rdict, notified, rclients>>
  BY DEF RegisterPipe, resendVars
<1>2. hook <=> forked > NWorkers
  BY <1>1 DEF ForkInv
<1>3. forked # 0 /\ forked \notin dead /\ pipes' \cup dead \subseteq 1..forked /\ dead \cap pipes' = {}
  BY <1>0, <1>1 DEF ForkInv, DeathInv
<1>4. ForkInv'
  BY <1>0, <1>1, <1>2, <1>3 DEF ForkInv
<1>5. Down = 0 /\ Down' = 0
  BY <1>1, <1>3 DEF Down
<1>6. DeathInv'
  BY <1>0, <1>1, <1>3, <1>5 DEF DeathInv
<1>7. ResendInv'
  BY <1>1 DEF ResendInv, Pristine
<1> QED
  BY <1>4, <1>6, <1>7

LEMMA PopControl ==
    ASSUME TypeOK, ControlInv, NEW p \in Pids, PopPipe(p)
    PROVE  ControlInv'
<1> USE DEF ControlInv
<1>0. NWorkers \in Nat \ {0} /\ forked \in Nat /\ Cardinality(dead) \in Nat
  BY ForkTypes
<1>1. /\ mpc = "supervise" /\ p \in dead \cap pipes
      /\ pipes' = pipes \ {p} /\ mpc' = "popped"
      /\ UNCHANGED <<forked, dead, hook, rpc, rdict, notified, rclients>>
  BY DEF PopPipe, resendVars
<1>2. dead \cap pipes' = {} /\ pipes' \cup dead \subseteq 1..forked
  BY <1>1 DEF DeathInv, ForkInv
<1>3. forked \in pipes' \cup dead
  BY <1>1 DEF ForkInv
<1>4. forked >= NWorkers
  BY <1>0, <1>1 DEF ForkInv
<1>5. ForkInv'
  BY <1>0, <1>1, <1>2, <1>3, <1>4 DEF ForkInv
<1>6. Down = 1 /\ Down' = 1
  BY <1>1 DEF Down
<1>7. DeathInv'
  BY <1>0, <1>1, <1>2, <1>6 DEF DeathInv
<1>8. ResendInv'
  BY <1>1 DEF ResendInv, Pristine
<1> QED
  BY <1>5, <1>7, <1>8

LEMMA DiesControl ==
    ASSUME TypeOK, ControlInv, NEW p \in Pids, WorkerDies(p)
    PROVE  ControlInv'
<1> USE DEF ControlInv
<1>0. /\ NWorkers \in Nat \ {0} /\ forked \in Nat /\ MaxRestarts \in Nat
      /\ IsFiniteSet(dead) /\ Cardinality(dead) \in Nat
  BY ForkTypes
<1>1. /\ mpc \in {"hook", "all", "sending", "supervise"}
      /\ p \in pipes /\ dead \cap pipes = {} /\ Cardinality(dead) < MaxRestarts
      /\ dead' = dead \cup {p}
      /\ UNCHANGED <<pipes, mpc, forked, hook, rpc, rdict, notified, rclients>>
  BY DEF WorkerDies, resendVars
<1>2. Cardinality(dead') = Cardinality(dead) + 1
  BY <1>0, <1>1, FS_AddElement
<1>3. dead' \cap pipes = {p}
  BY <1>1
<1>4. Down = 0 /\ Down' = 1
  BY <1>1, <1>3 DEF Down
<1>5. ForkInv'
  BY <1>1 DEF ForkInv
<1>6. forked \in dead' => forked \in pipes
  BY <1>1 DEF DeathInv
<1>7. forked >= NWorkers => Cardinality(dead') = forked - NWorkers + 1
  BY <1>0, <1>2, <1>4 DEF DeathInv
<1>8. Cardinality(dead') <= MaxRestarts
  BY <1>0, <1>1, <1>2
<1>9. DeathInv'
  BY <1>1, <1>3, <1>4, <1>6, <1>7, <1>8 DEF DeathInv
<1>10. ResendInv'
  BY <1>1 DEF ResendInv, Pristine
<1> QED
  BY <1>5, <1>9, <1>10

LEMMA MainControl == ASSUME TypeOK, ControlInv, Main PROVE ControlInv'
<1> USE DEF ControlInv
<1>0. NWorkers \in Nat \ {0} /\ forked \in Nat /\ Cardinality(dead) \in Nat
  BY ForkTypes
<1>1. CASE OnWorkerRestart
  <2>1. /\ mpc = "flag" /\ mpc' = "supervise"
        /\ UNCHANGED <<pipes, dead, forked, hook, rpc, rclients>>
    BY <1>1 DEF OnWorkerRestart, pipeVars
  <2>2. Down' = Down
    BY <2>1 DEF Down
  <2>3. forked > NWorkers
    BY <2>1 DEF ForkInv
  <2>4. ForkInv'
    BY <1>0, <2>1, <2>3 DEF ForkInv
  <2>5. DeathInv'
    BY <2>1, <2>2 DEF DeathInv
  <2>6. ResendInv'
    BY <1>0, <2>1, <2>3 DEF ResendInv
  <2> QED
    BY <2>4, <2>5, <2>6
<1>2. CASE SetHook \/ SendAll \/ SendAllOver
  <2>1. /\ mpc \in {"hook", "all", "sending"} /\ mpc' \in {"all", "sending", "supervise"}
        /\ mpc = "hook" \/ hook' = hook
        /\ mpc = "hook" => hook' = TRUE
        /\ UNCHANGED <<pipes, dead, forked, rpc, rclients, rdict, notified>>
    BY <1>2 DEF SetHook, SendAll, SendAllOver, pipeVars, resendVars
  <2>2. Down' = Down
    BY <2>1 DEF Down
  <2>3. forked >= NWorkers
    BY <1>0, <2>1 DEF ForkInv
  <2>4. ForkInv'
    BY <1>0, <2>1, <2>3 DEF ForkInv
  <2>5. DeathInv'
    BY <2>1, <2>2 DEF DeathInv
  <2>6. ResendInv'
    BY <2>1 DEF ResendInv, Pristine
  <2> QED
    BY <2>4, <2>5, <2>6
<1> QED
  BY <1>1, <1>2, CopyControl, RegisterControl, PopControl DEF Main

LEMMA ResendControl == ASSUME TypeOK, ControlInv, Resend PROVE ControlInv'
<1> USE DEF ControlInv
<1>1. UNCHANGED <<mpc, forked, dead, hook, pipes>>
  BY DEF Resend, ResendGet, ResendLock, ResendList, ResendClear, ResendOver, ResendTo,
         mainVars, pipeVars
<1>2. ForkInv' /\ DeathInv'
  BY <1>1 DEF ForkInv, DeathInv, Down
<1>3. ~Pristine
  BY DEF Pristine, Resend, ResendGet, ResendLock, ResendList, ResendClear, ResendOver, ResendTo
<1>4. rclients' # {} => rpc' \in {"listed", "sending"}
  BY DEF ResendInv, Resend, ResendGet, ResendLock, ResendList, ResendClear, ResendOver, ResendTo
<1> QED
  BY <1>1, <1>2, <1>3, <1>4 DEF ResendInv

CInv == TypeOK /\ LockInv /\ ControlInv

LEMMA NextControl == CInv /\ [Next]_vars => CInv'
<1> SUFFICES ASSUME CInv, [Next]_vars PROVE CInv'
  OBVIOUS
<1> USE DEF CInv
<1>1. ASSUME NEW s \in Sources, Store(s) \/ Thread(s) PROVE CInv'
  <2>1. UNCHANGED <<mpc, forked, dead, hook, pipes, rpc, rdict, notified, rclients>>
    BY <1>1 DEF Store, Thread, Build, SendNothing, SendUpdate, SendOver, mainVars, resendVars, pipeVars
  <2> QED
    BY <1>1, <2>1, ThreadType, ThreadLock, ControlFrame
<1>2. CASE SendNext
  <2>1. UNCHANGED <<mpc, forked, dead, hook, pipes, rpc, rdict, notified, rclients>>
    BY <1>2 DEF SendNext, mainVars, resendVars
  <2> QED
    BY <1>2, <2>1, SendNextType, SendNextLock, ControlFrame
<1>3. CASE Main
  BY <1>3, MainType, MainLock, MainControl DEF ControlInv
<1>4. CASE Resend
  BY <1>4, ResendType, ResendLockInv, ResendControl
<1>5. ASSUME NEW p \in Pids, WorkerDies(p) PROVE CInv'
  BY <1>5, WorkerType, WorkerLock, DiesControl
<1>6. ASSUME NEW p \in Pids, Apply(p) PROVE CInv'
  <2>1. UNCHANGED <<mpc, forked, dead, hook, pipes, rpc, rdict, notified, rclients>>
    BY <1>6 DEF Apply, mainVars, resendVars
  <2> QED
    BY <1>6, <2>1, WorkerType, WorkerLock, ControlFrame
<1>7. CASE UNCHANGED vars
  <2>1. UNCHANGED <<mpc, forked, dead, hook, pipes, rpc, rdict, notified, rclients>>
    BY <1>7 DEF vars, mainVars, resendVars, pipeVars
  <2>2. TypeOK' /\ LockInv'
    BY <1>7 DEF vars, threadVars, mainVars, resendVars, pipeVars, TypeOK, LockInv
  <2> QED
    BY <2>1, <2>2, ControlFrame
<1> QED
  BY <1>1, <1>2, <1>3, <1>4, <1>5, <1>6, <1>7 DEF Next

LEMMA InitControl == Init => CInv
<1> SUFFICES ASSUME Init PROVE CInv
  OBVIOUS
<1>1. NWorkers \in Nat \ {0} /\ MaxRestarts \in Nat
  BY SyncAssumption
<1>2. Cardinality({}) = 0
  BY FS_EmptySet
<1>3. LockInv
  BY LockNames DEF Init, LockInv
<1>4. ForkInv
  BY <1>1 DEF Init, ForkInv
<1>5. DeathInv
  BY <1>1, <1>2 DEF Init, DeathInv, Down
<1>6. ResendInv
  BY DEF Init, ResendInv, Pristine
<1> QED
  BY <1>3, <1>4, <1>5, <1>6, InitType DEF CInv, ControlInv

\* For any number of sources, upstreams, workers and restarts: the types, and
\* with them that _start_child always has a worker to replace and that every
\* message is a list of upstreams (send_updates, __send_to_all, __resend).
THEOREM SyncTypes == Spec => []TypeOK
BY InitControl, NextControl, PTL DEF Spec, CInv

-----------------------------------------------------------------------------
(* What a worker will have when it has read its messages.                  *)

LEMMA AppendFacts ==
    ASSUME NEW box \in Seq(Upstreams), NEW msg \in Upstreams
    PROVE  /\ Len(box) \in Nat /\ Len(Append(box, msg)) = Len(box) + 1
           /\ \A i \in 1..Len(box) : Append(box, msg)[i] = box[i]
           /\ Append(box, msg)[Len(box) + 1] = msg
           /\ \A i \in 1..(Len(box) + 1) : i \in 1..Len(box) \/ i = Len(box) + 1
           /\ \A i \in 1..Len(box) : \A j \in (i + 1)..(Len(box) + 1) :
                 j \in (i + 1)..Len(box) \/ j = Len(box) + 1
OBVIOUS

LEMMA SilentAppend ==
    ASSUME NEW box \in Seq(Upstreams), NEW msg \in Upstreams, NEW k,
           Silent(box, k), msg[k] = Nothing
    PROVE  Silent(Append(box, msg), k)
BY AppendFacts DEF Silent

LEMMA HeardAppend ==
    ASSUME NEW box \in Seq(Upstreams), NEW msg \in Upstreams, NEW has, NEW k, NEW v,
           Heard(box, has, k, v), msg[k] \in {Nothing, v}
    PROVE  Heard(Append(box, msg), has, k, v)
<1>1. CASE msg[k] # Nothing
  <2>1. Len(box) + 1 \in 1..Len(Append(box, msg))
    BY AppendFacts
  <2>2. \A j \in ((Len(box) + 1) + 1)..Len(Append(box, msg)) : FALSE
    BY AppendFacts
  <2> QED
    BY <1>1, <2>1, <2>2, AppendFacts DEF Heard
<1>2. CASE msg[k] = Nothing
  <2>1. CASE has[k] = v /\ Silent(box, k)
    BY <1>2, <2>1, SilentAppend DEF Heard
  <2>2. CASE ~(has[k] = v /\ Silent(box, k))
    <3>1. PICK i \in 1..Len(box) : box[i][k] = v /\ \A j \in (i + 1)..Len(box) : box[j][k] = Nothing
      BY <2>2 DEF Heard
    <3>2. i \in 1..Len(Append(box, msg)) /\ Append(box, msg)[i][k] = v
      BY <3>1, AppendFacts
    <3>3. \A j \in (i + 1)..Len(box) : j \in 1..Len(box)
      BY AppendFacts
    <3>4. \A j \in (i + 1)..Len(Append(box, msg)) : Append(box, msg)[j][k] = Nothing
      BY <1>2, <3>1, <3>3, AppendFacts
    <3> QED
      BY <2>2, <3>2, <3>4 DEF Heard
  <2> QED
    BY <2>1, <2>2
<1> QED
  BY <1>1, <1>2

LEMMA HeardNew ==
    ASSUME NEW box \in Seq(Upstreams), NEW msg \in Upstreams, NEW has, NEW k, msg[k] # Nothing
    PROVE  Heard(Append(box, msg), has, k, msg[k])
<1>1. Len(box) + 1 \in 1..Len(Append(box, msg))
  BY AppendFacts
<1>2. \A j \in ((Len(box) + 1) + 1)..Len(Append(box, msg)) : FALSE
  BY AppendFacts
<1> QED
  BY <1>1, <1>2, AppendFacts DEF Heard

LEMMA TailFacts ==
    ASSUME NEW box \in Seq(Upstreams), box # <<>>
    PROVE  /\ Len(box) \in Nat \ {0} /\ Len(Tail(box)) = Len(box) - 1 /\ Head(box) = box[1]
           /\ \A i \in 1..(Len(box) - 1) : Tail(box)[i] = box[i + 1] /\ i + 1 \in 1..Len(box)
OBVIOUS

LEMMA HeardTail ==
    ASSUME NEW box \in Seq(Upstreams), box # <<>>, NEW has, NEW now, NEW k, NEW v,
           Heard(box, has, k, v),
           now[k] = IF Head(box)[k] = Nothing THEN has[k] ELSE Head(box)[k]
    PROVE  Heard(Tail(box), now, k, v)
<1>0. 1 \in 1..Len(box)
  BY TailFacts
<1>1. CASE has[k] = v /\ Silent(box, k)
  <2>1. Head(box)[k] = Nothing /\ Silent(Tail(box), k)
    BY <1>0, <1>1, TailFacts DEF Silent
  <2> QED
    BY <1>1, <2>1 DEF Heard
<1>2. CASE ~(has[k] = v /\ Silent(box, k))
  <2>1. v # Nothing
    BY <1>2 DEF Heard
  <2>2. PICK i \in 1..Len(box) : box[i][k] = v /\ \A j \in (i + 1)..Len(box) : box[j][k] = Nothing
    BY <1>2 DEF Heard
  <2>3. CASE i = 1
    <3>1. \A j \in 1..(Len(box) - 1) : j + 1 \in (i + 1)..Len(box)
      BY <2>3, TailFacts
    <3>2. Silent(Tail(box), k)
      BY <2>2, <3>1, TailFacts DEF Silent
    <3>3. now[k] = v
      BY <2>1, <2>2, <2>3, TailFacts
    <3> QED
      BY <3>2, <3>3 DEF Heard
  <2>4. CASE i # 1
    <3>1. i - 1 \in 1..(Len(box) - 1) /\ (i - 1) + 1 = i
      BY <2>4, TailFacts
    <3>2. \A j \in ((i - 1) + 1)..(Len(box) - 1) : j + 1 \in (i + 1)..Len(box) /\ j \in 1..(Len(box) - 1)
      BY <2>4, TailFacts
    <3>3. Tail(box)[i - 1][k] = v
      BY <2>2, <3>1, TailFacts
    <3>4. \A j \in ((i - 1) + 1)..(Len(box) - 1) : Tail(box)[j][k] = Nothing
      BY <2>2, <3>2, TailFacts
    <3> QED
      BY <2>1, <3>1, <3>3, <3>4, TailFacts DEF Heard
  <2> QED
    BY <2>3, <2>4
<1> QED
  BY <1>1, <1>2

-----------------------------------------------------------------------------
(* The values under way.                                                   *)

\* What is built after a store is an upstream.
LEMMA CombineIsSomething ==
    ASSUME NEW s \in Sources, version[s] # 0
    PROVE  Combine(KeyOf[s]) # Nothing
<1>1. Combine(KeyOf[s])[s] = version[s] /\ Nothing[s] = 0
  BY DEF Combine, Nothing
<1> QED
  BY <1>1

LEMMA ThreadValue ==
    ASSUME CInv, ValueInv, NEW s \in Sources, Store(s) \/ Thread(s)
    PROVE  ValueInv'
<1>0. TypeOK /\ LockInv
  BY DEF CInv
<1>1. /\ upc \in [Sources -> {"idle", "stored", "built", "sending"}]
      /\ version \in Values /\ built \in [Sources -> Values] /\ master \in Upstreams
      /\ KeyOf[s] \in Keys /\ \A t \in Sources : KeyOf[t] \in Keys
  BY <1>0, SyncAssumption DEF TypeOK
<1>2. UNCHANGED <<inbox, worker>>
  BY DEF Store, Thread, Build, SendNothing, SendUpdate, SendOver, pipeVars
<1>3. CASE Store(s)
  <2>1. version'[s] # 0 /\ \A t \in Sources : t # s => version'[t] = version[t]
    BY <1>1, <1>3, SyncAssumption DEF Store, Values
  <2>2. \A t \in Sources : /\ upc'[t] = "built" => upc[t] = "built"
                           /\ upc'[t] = "stored" => t = s \/ upc[t] = "stored"
    BY <1>1, <1>3 DEF Store
  <2>3. UNCHANGED <<built, master, loop>>
    BY <1>3 DEF Store
  <2> QED
    BY <1>2, <2>1, <2>2, <2>3 DEF ValueInv
<1>4. CASE Build(s)
  <2>1. /\ version' = version /\ loop' = loop /\ upc[s] = "stored" /\ lock = "free"
        /\ built'[s] = Combine(KeyOf[s]) /\ master'[KeyOf[s]] = Combine(KeyOf[s])
        /\ \A t \in Sources : t # s => built'[t] = built[t] /\ upc'[t] = upc[t]
        /\ \A k \in Keys : k # KeyOf[s] => master'[k] = master[k]
        /\ upc'[s] = "built"
    BY <1>1, <1>4 DEF Build, Upstreams
  <2>2. Combine(KeyOf[s]) # Nothing
    BY <2>1, CombineIsSomething DEF ValueInv
  <2>3. loop = Idle /\ \A k \in Keys : loop.data[k] = Nothing
    BY <1>0, <2>1, ValueTypes DEF LockInv
  <2>4. \A t \in Sources : upc'[t] = "stored" => version'[t] # 0
    BY <2>1 DEF ValueInv
  <2>5. \A t \in Sources : upc'[t] = "built" => master'[KeyOf[t]] # Nothing
    BY <1>1, <2>1, <2>2 DEF ValueInv
  <2>6. \A t \in Sources : upc'[t] = "built" /\ Lone(KeyOf[t]) => built'[t] = master'[KeyOf[t]]
    <3> SUFFICES ASSUME NEW t \in Sources, upc'[t] = "built", Lone(KeyOf[t]), t # s
                 PROVE  built'[t] = master'[KeyOf[t]]
      BY <2>1
    <3>1. KeyOf[t] # KeyOf[s]
      BY DEF Lone
    <3> QED
      BY <1>1, <2>1, <3>1 DEF ValueInv
  <2>7. \A k \in Keys : master'[k] = Nothing => master[k] = Nothing
    BY <2>1, <2>2
  <2> QED
    BY <1>2, <2>1, <2>3, <2>4, <2>5, <2>6, <2>7 DEF ValueInv
<1>5. CASE SendNothing(s)
  <2>1. \A t \in Sources : upc'[t] \in {"built", "stored"} => upc'[t] = upc[t]
    BY <1>1, <1>5 DEF SendNothing
  <2> QED
    BY <1>2, <1>5, <2>1 DEF SendNothing, ValueInv
<1>6. CASE SendUpdate(s)
  <2>1. \A t \in Sources : upc'[t] \in {"built", "stored"} => upc'[t] = upc[t]
    BY <1>1, <1>6 DEF SendUpdate
  <2>2. loop'.data = Payload(s)
    BY <1>0, <1>6, StartLoopType, PayloadType DEF SendUpdate
  <2>3. \A k \in Keys : loop'.data[k] = IF k # KeyOf[s] THEN Nothing
                                        ELSE IF s \in kept THEN master[k] ELSE built[s]
    BY <1>0, <2>2, PayloadType
  <2>4. upc[s] = "built" /\ UNCHANGED <<version, built, master>>
    BY <1>6 DEF SendUpdate
  <2>5. \A k \in Keys : Lone(k) => loop'.data[k] \in {Nothing, master[k]}
    BY <2>3, <2>4 DEF ValueInv
  <2>6. \A k \in Keys : master[k] = Nothing => loop'.data[k] = Nothing
    BY <2>3, <2>4 DEF ValueInv
  <2> QED
    BY <1>2, <2>1, <2>4, <2>5, <2>6 DEF ValueInv
<1>7. CASE SendOver(s)
  <2>1. \A t \in Sources : upc'[t] \in {"built", "stored"} => upc'[t] = upc[t]
    BY <1>1, <1>7 DEF SendOver
  <2>2. \A k \in Keys : loop'.data[k] = Nothing
    BY <1>7, ValueTypes DEF SendOver
  <2> QED
    BY <1>2, <1>7, <2>1, <2>2 DEF SendOver, ValueInv
<1> QED
  BY <1>3, <1>4, <1>5, <1>6, <1>7 DEF Thread

\* Steps that leave the threads alone: what they send is no news where the
\* master has nothing.
LEMMA OtherValue ==
    ASSUME ValueInv, UNCHANGED threadVars,
           \A k \in Keys : loop'.data[k] \in {Nothing, loop.data[k], master[k]},
           \A k \in Keys : master[k] = Nothing =>
              \A p \in Pids : Silent(inbox'[p], k) /\ worker'[p][k] = Nothing
    PROVE  ValueInv'
<1>1. UNCHANGED <<version, upc, built, kept, master>>
  BY DEF threadVars
<1>2. \A k \in Keys : Lone(k) => loop'.data[k] \in {Nothing, master[k]}
  BY DEF ValueInv
<1>3. \A k \in Keys : master[k] = Nothing => loop'.data[k] = Nothing
  BY DEF ValueInv
<1> QED
  BY <1>1, <1>2, <1>3 DEF ValueInv

LEMMA SilentDeliver ==
    ASSUME TypeOK, ValueInv, NEW p \in Pids, NEW msg \in Upstreams, Deliver(p, msg),
           NEW k \in Keys, master[k] = Nothing, msg[k] = Nothing
    PROVE  \A q \in Pids : Silent(inbox'[q], k)
<1>1. \A q \in Pids : Silent(inbox[q], k) /\ inbox[q] \in Seq(Upstreams)
  BY DEF ValueInv, TypeOK
<1>2. Silent(Append(inbox[p], msg), k)
  BY <1>1, SilentAppend
<1> QED
  BY <1>1, <1>2, DeliverType

LEMMA NextValue == CInv /\ ValueInv /\ [Next]_vars => ValueInv'
<1> SUFFICES ASSUME CInv, ValueInv, [Next]_vars PROVE ValueInv'
  OBVIOUS
<1>0. TypeOK /\ LockInv /\ loop.data \in Upstreams /\ rdata \in Upstreams
  BY DEF CInv, TypeOK
<1>1. \A k \in Keys : master[k] = Nothing =>
         \A p \in Pids : Silent(inbox[p], k) /\ worker[p][k] = Nothing
  BY DEF ValueInv
<1>2. CASE \E s \in Sources : Store(s) \/ Thread(s)
  BY <1>2, ThreadValue
<1>3. CASE SendNext
  <2>1. PICK p \in pipes : Deliver(p, loop.data) /\ loop' = [loop EXCEPT !.last = p]
    BY <1>0, <1>3, SendNextFacts
  <2>2. p \in Pids /\ UNCHANGED <<threadVars, worker>> /\ loop'.data = loop.data
    BY <1>0, <1>3, <2>1 DEF SendNext, TypeOK
  <2>3. \A k \in Keys : master[k] = Nothing => \A q \in Pids : Silent(inbox'[q], k)
    BY <1>0, <2>1, <2>2, SilentDeliver DEF ValueInv
  <2> QED
    BY <1>1, <2>2, <2>3, OtherValue
<1>4. CASE Main
  <2>1. UNCHANGED <<threadVars, inbox>>
    BY <1>4 DEF Main, CopyUpstreams, RegisterPipe, OnWorkerRestart, SetHook, SendAll, SendAllOver,
                PopPipe, pipeVars
  <2>2. \A k \in Keys : loop'.data[k] \in {Nothing, loop.data[k], master[k]}
    <3>1. CASE SendAll
      BY <1>0, <3>1, StartLoopType DEF SendAll, TypeOK
    <3>2. CASE SendAllOver
      BY <3>2, ValueTypes DEF SendAllOver
    <3>3. CASE ~SendAll /\ ~SendAllOver
      BY <1>4, <3>3 DEF Main, CopyUpstreams, RegisterPipe, OnWorkerRestart, SetHook, PopPipe
    <3> QED
      BY <3>1, <3>2, <3>3
  <2>3. \A k \in Keys : master[k] = Nothing => \A p \in Pids : worker'[p][k] = Nothing
    <3>1. CASE CopyUpstreams
      <4>1. worker' = [worker EXCEPT ![forked + 1] = master] /\ worker \in [Pids -> Upstreams]
        BY <1>0, <3>1 DEF CopyUpstreams, TypeOK
      <4> QED
        BY <1>1, <4>1
    <3>2. CASE ~CopyUpstreams
      <4>1. worker' = worker
        BY <1>4, <3>2 DEF Main, RegisterPipe, OnWorkerRestart, SetHook, SendAll, SendAllOver,
                          PopPipe, pipeVars
      <4> QED
        BY <1>1, <4>1
    <3> QED
      BY <3>1, <3>2
  <2> QED
    BY <1>1, <2>1, <2>2, <2>3, OtherValue
<1>5. CASE Resend
  <2>1. UNCHANGED <<threadVars, worker, loop>>
    BY <1>5 DEF Resend, ResendGet, ResendLock, ResendList, ResendClear, ResendOver, ResendTo, pipeVars
  <2>2. \A k \in Keys : master[k] = Nothing => \A q \in Pids : Silent(inbox'[q], k)
    <3>1. CASE inbox' = inbox
      BY <1>1, <3>1
    <3>2. CASE inbox' # inbox
      <4>1. PICK p \in Pids : ResendTo(p) /\ Deliver(p, rdata)
        BY <1>5, <3>2 DEF Resend, ResendGet, ResendLock, ResendList, ResendClear, ResendOver,
                          ResendTo, pipeVars
      <4>2. rdata = master
        BY <1>0, <4>1 DEF ResendTo, LockInv
      <4> QED
        BY <1>0, <4>1, <4>2, SilentDeliver
    <3> QED
      BY <3>1, <3>2
  <2> QED
    BY <1>1, <2>1, <2>2, OtherValue
<1>6. ASSUME NEW p \in Pids, WorkerDies(p) PROVE ValueInv'
  <2>1. UNCHANGED <<threadVars, worker, loop>> /\ inbox' = [inbox EXCEPT ![p] = <<>>]
    BY <1>6 DEF WorkerDies
  <2>2. \A k \in Keys : Silent(<<>>, k)
    BY DEF Silent
  <2>3. \A q \in Pids : inbox'[q] = inbox[q] \/ inbox'[q] = <<>>
    BY <1>0, <2>1 DEF TypeOK
  <2> QED
    BY <1>1, <2>1, <2>2, <2>3, OtherValue
<1>7. ASSUME NEW p \in Pids, Apply(p) PROVE ValueInv'
  <2>1. UNCHANGED <<threadVars, loop>>
    BY <1>7 DEF Apply
  <2>2. ASSUME NEW k \in Keys, master[k] = Nothing
        PROVE  \A q \in Pids : Silent(inbox'[q], k) /\ worker'[q][k] = Nothing
    <3>1. inbox[p] \in Seq(Upstreams) /\ inbox[p] # <<>>
      BY <1>0, <1>7, ApplyFacts
    <3>2. Silent(Tail(inbox[p]), k) /\ Head(inbox[p])[k] = Nothing
      <4>1. 1 \in 1..Len(inbox[p])
        BY <3>1, TailFacts
      <4> QED
        BY <1>1, <2>2, <3>1, <4>1, TailFacts DEF Silent
    <3> QED
      BY <1>0, <1>1, <1>7, <2>2, <3>2, ApplyFacts
  <2> QED
    BY <2>1, <2>2, OtherValue
<1>8. CASE UNCHANGED vars
  BY <1>1, <1>8, OtherValue DEF vars, pipeVars
<1> QED
  BY <1>2, <1>3, <1>4, <1>5, <1>6, <1>7, <1>8 DEF Next

-----------------------------------------------------------------------------
(* What was built arrives.                                                 *)

\* A worker the argument is about is alive, and all are up.
LEMMA TrackedAlive ==
    ASSUME CInv, NEW p \in Pids, Tracked(p)
    PROVE  /\ p \notin dead /\ p \in pipes /\ p \in Nat /\ p > 0
           /\ dead # {} => p = forked /\ forked = NWorkers + 1 /\ mpc # "popped"
<1>0. NWorkers \in Nat \ {0} /\ forked \in Nat /\ Cardinality(dead) \in Nat
  BY ForkTypes DEF CInv
<1>1. p \in pipes /\ p \in Nat /\ p > 0
  BY PidsFacts DEF Tracked
<1>2. CASE dead = {}
  BY <1>1, <1>2
<1>3. CASE dead # {}
  <2>1. p = forked /\ forked > NWorkers /\ Cardinality(dead) <= 1
    BY <1>3 DEF Tracked
  <2>2. Down \in {0, 1} /\ (forked >= NWorkers => Cardinality(dead) = forked - NWorkers + Down)
    BY DEF Down, CInv, ControlInv, DeathInv
  <2>3. \A d \in {0, 1}, c \in Nat :
           forked > NWorkers /\ c <= 1 /\ c = forked - NWorkers + d => d = 0 /\ forked = NWorkers + 1
    BY <1>0
  <2>4. Down = 0 /\ forked = NWorkers + 1
    BY <1>0, <2>1, <2>2, <2>3
  <2>5. mpc # "popped" /\ dead \cap pipes = {}
    BY <2>4 DEF Down
  <2> QED
    BY <1>1, <2>1, <2>4, <2>5
<1> QED
  BY <1>2, <1>3

AliveInv ==
    \A p \in Pids : Tracked(p) =>
        /\ p \notin dead /\ p \in pipes /\ p \in Nat /\ p > 0
        /\ dead # {} => p = forked /\ forked = NWorkers + 1 /\ mpc # "popped"

LEMMA AliveNow == CInv => AliveInv
BY TrackedAlive DEF AliveInv

LEMMA AliveNext == CInv' => AliveInv'
BY AliveNow, PTL

\* Where the loop has p before it, it is not over.
LEMMA LoopGoesOn ==
    ASSUME NEW p \in pipes, p > loop.last, loop.size = Cardinality(pipes)
    PROVE  ~LoopOver
BY DEF LoopOver, Torn, Remaining

LEMMA ThreadSync ==
    ASSUME CInv, ValueInv, NEW p \in Pids, NEW k \in Keys, Tracked(p), Lone(k), Arrives(p, k),
           NEW s \in Sources, Store(s) \/ Thread(s)
    PROVE  Arrives(p, k)'
<1>0. TypeOK /\ LockInv /\ ForkInv /\ p \in pipes /\ p \in Nat /\ p > 0
  BY TrackedAlive DEF CInv, ControlInv
<1>1. /\ upc \in [Sources -> {"idle", "stored", "built", "sending"}]
      /\ master \in Upstreams /\ KeyOf[s] \in Keys
  BY <1>0, SyncAssumption DEF TypeOK
<1>2. UNCHANGED <<inbox, worker, pipes, mpc, rpc, rdict, notified, rclients>>
  BY DEF Store, Thread, Build, SendNothing, SendUpdate, SendOver, pipeVars, mainVars, resendVars
<1>3. CASE Store(s)
  <2>1. UNCHANGED <<master, lock, loop>>
    BY <1>3 DEF Store
  <2>2. \A t \in Sources : upc[t] = "built" => upc'[t] = "built"
    BY <1>1, <1>3 DEF Store
  <2> QED
    BY <1>2, <2>1, <2>2 DEF Arrives, Due
<1>4. CASE Build(s)
  <2>1. /\ lock = "free" /\ UNCHANGED <<lock, loop>> /\ upc'[s] = "built"
        /\ k # KeyOf[s] => master'[k] = master[k]
        /\ \A t \in Sources : upc[t] = "built" => upc'[t] = "built"
    BY <1>1, <1>4 DEF Build, Upstreams
  <2>2. CASE KeyOf[s] = k
    BY <2>1, <2>2 DEF Arrives, Due
  <2>3. CASE KeyOf[s] # k
    BY <1>2, <2>1, <2>3, LockNames DEF Arrives, Due
  <2> QED
    BY <2>2, <2>3
<1>5. CASE SendNothing(s)
  <2>1. mpc \in {"copy", "fork", "hook"}
    BY <1>0, <1>5 DEF SendNothing, ForkInv, TypeOK
  <2> QED
    BY <1>2, <2>1 DEF Arrives, Due
<1>6. CASE SendUpdate(s)
  <2>1. /\ lock = "free" /\ lock' = s /\ master' = master /\ upc[s] = "built"
        /\ \A t \in Sources : t # s /\ upc[t] = "built" => upc'[t] = "built"
    BY <1>1, <1>6 DEF SendUpdate
  <2>2. loop'.data = Payload(s) /\ loop'.last = 0 /\ loop'.size = Cardinality(pipes)
    BY <1>0, <1>6, StartLoopType, PayloadType DEF SendUpdate
  <2>3. CASE KeyOf[s] = k
    <3>1. loop'.data[k] = master[k]
      BY <1>0, <2>1, <2>2, <2>3, PayloadType DEF ValueInv
    <3> QED
      BY <1>0, <1>2, <2>1, <2>2, <3>1 DEF Arrives, Due
  <2>4. CASE KeyOf[s] # k
    BY <1>2, <2>1, <2>4, LockNames DEF Arrives, Due
  <2> QED
    BY <2>3, <2>4
<1>7. CASE SendOver(s)
  <2>1. /\ LoopOver /\ master' = master
        /\ \A t \in Sources : upc[t] = "built" => upc'[t] = "built"
    BY <1>1, <1>7 DEF SendOver
  <2>2. ~(p > loop.last /\ loop.size = Cardinality(pipes))
    BY <1>0, <2>1, LoopGoesOn
  <2> QED
    BY <1>2, <2>1, <2>2 DEF Arrives, Due
<1> QED
  BY <1>3, <1>4, <1>5, <1>6, <1>7 DEF Thread

\* A message that has what the master has of k arrives.
LEMMA MessageArrives ==
    ASSUME CInv, ValueInv, NEW p \in Pids, NEW k \in Keys, p \notin dead,
           NEW msg \in Upstreams, Deliver(p, msg), msg[k] = master[k]
    PROVE  Heard(inbox'[p], worker[p], k, master[k])
<1>1. inbox[p] \in Seq(Upstreams) /\ inbox'[p] = Append(inbox[p], msg)
  BY DeliverType DEF CInv, TypeOK
<1>2. CASE master[k] # Nothing
  BY <1>1, <1>2, HeardNew
<1>3. CASE master[k] = Nothing
  <2>1. Silent(inbox[p], k) /\ worker[p][k] = Nothing
    BY <1>3 DEF ValueInv
  <2>2. Silent(Append(inbox[p], msg), k)
    BY <1>1, <1>3, <2>1, SilentAppend
  <2> QED
    BY <1>1, <1>3, <2>1, <2>2 DEF Heard
<1> QED
  BY <1>2, <1>3

LEMMA SendNextSync ==
    ASSUME CInv, ValueInv, NEW p \in Pids, NEW k \in Keys, Tracked(p), Lone(k), Arrives(p, k),
           SendNext
    PROVE  Arrives(p, k)'
<1>0. TypeOK /\ p \notin dead /\ p \in pipes /\ p \in Nat
  BY TrackedAlive DEF CInv
<1>1. PICK q \in pipes :
              /\ q > loop.last /\ \A r \in pipes : r > loop.last => q <= r
              /\ Deliver(q, loop.data)
              /\ loop' = [loop EXCEPT !.last = q]
  BY <1>0, SendNextFacts
<1>2. /\ UNCHANGED <<threadVars, lock, pipes, worker, mainVars, resendVars>>
      /\ loop'.data = loop.data /\ loop'.size = loop.size /\ loop'.last = q
      /\ q \in Pids /\ q \in Nat /\ loop.data \in Upstreams
  BY <1>0, <1>1, PidsFacts DEF SendNext, TypeOK
<1>3. UNCHANGED <<upc, master, mpc, rpc, rdict, notified, rclients>>
  BY <1>2 DEF threadVars, mainVars, resendVars
<1>4. CASE q = p
  <2>1. CASE loop.data[k] = master[k]
    <3>1. Heard(inbox'[p], worker[p], k, master[k])
      BY <1>0, <1>1, <1>2, <1>4, <2>1, MessageArrives
    <3> QED
      BY <1>2, <1>3, <3>1 DEF Arrives
  <2>2. CASE loop.data[k] # master[k]
    <3>1. loop.data[k] = Nothing
      BY <2>2 DEF ValueInv
    <3>2. inbox[p] \in Seq(Upstreams) /\ inbox'[p] = Append(inbox[p], loop.data)
      BY <1>0, <1>1, <1>2, <1>4, DeliverType DEF TypeOK
    <3>3. Heard(inbox[p], worker[p], k, master[k]) => Heard(inbox'[p], worker[p], k, master[k])
      BY <1>2, <3>1, <3>2, HeardAppend
    <3> QED
      BY <1>2, <1>3, <2>2, <3>3 DEF Arrives, Due
  <2> QED
    BY <2>1, <2>2
<1>5. CASE q # p
  <2>1. inbox'[p] = inbox[p]
    BY <1>0, <1>1, <1>2, <1>5, DeliverType
  <2>2. p > loop.last => p > q
    BY <1>0, <1>1, <1>2, <1>5
  <2> QED
    BY <1>2, <1>3, <2>1, <2>2 DEF Arrives, Due
<1> QED
  BY <1>4, <1>5

LEMMA MainSync ==
    ASSUME CInv, ValueInv, SyncInv, Main, NEW p \in Pids, NEW k \in Keys, Tracked(p)', Lone(k)
    PROVE  Arrives(p, k)'
<1>0. TypeOK /\ LockInv /\ ForkInv /\ DeathInv /\ ResendInv /\ CInv'
  BY NextControl DEF CInv, ControlInv, Next
<1>1. CASE CopyUpstreams \/ RegisterPipe \/ SetHook
  BY <1>1 DEF CopyUpstreams, RegisterPipe, SetHook, Arrives, Due
<1>2. CASE OnWorkerRestart
  <2>1. /\ mpc = "flag" /\ UNCHANGED <<forked, dead, rpc>>
        /\ rdict' = rdict \cup {forked} /\ notified' = TRUE
    BY <1>2 DEF OnWorkerRestart
  <2>2. NWorkers \in Nat /\ forked \in Nat /\ forked > NWorkers /\ Cardinality({}) = 0
    BY <1>0, <2>1, ForkTypes, FS_EmptySet DEF ForkInv
  <2>3. dead # {}
    <3>1. Down \in {0, 1} /\ Cardinality(dead) = forked - NWorkers + Down
      BY <1>0, <2>2 DEF DeathInv, Down
    <3>2. \A d \in {0, 1} : forked - NWorkers + d # 0
      BY <2>2
    <3> QED
      BY <2>2, <3>1, <3>2
  <2>4. p = forked /\ forked = NWorkers + 1
    <3>1. dead' # {} => p = forked' /\ forked' = NWorkers + 1
      BY <1>0, AliveNext DEF AliveInv
    <3> QED
      BY <2>1, <2>3, <3>1
  <2>5. rpc = "wait"
    BY <1>0, <2>1, <2>4 DEF ResendInv, Pristine
  <2> QED
    BY <2>1, <2>4, <2>5 DEF Arrives, Due
<1>3. CASE SendAll
  <2>1. loop'.data = master /\ loop'.last = 0 /\ loop'.size = Cardinality(pipes)
    BY <1>0, <1>3, StartLoopType DEF SendAll, TypeOK
  <2>2. lock' = "main" /\ UNCHANGED <<master, pipes>>
    BY <1>3 DEF SendAll, threadVars, pipeVars
  <2>3. p \in pipes' /\ p > 0
    BY <1>0, AliveNext DEF AliveInv
  <2> QED
    BY <2>1, <2>2, <2>3 DEF Arrives, Due
<1>4. CASE SendAllOver
  <2>1. /\ LoopOver /\ mpc = "sending"
        /\ UNCHANGED <<upc, master, inbox, worker, pipes, dead, forked, rpc, rdict, notified, rclients>>
    BY <1>4 DEF SendAllOver, threadVars, pipeVars, resendVars
  <2>2. Tracked(p) /\ p \in pipes
    BY <2>1 DEF Tracked
  <2>3. Arrives(p, k)
    BY <2>2 DEF SyncInv
  <2>4. ~(p > loop.last /\ loop.size = Cardinality(pipes))
    BY <2>1, <2>2, LoopGoesOn
  <2> QED
    BY <2>1, <2>3, <2>4 DEF Arrives, Due
<1>5. ASSUME NEW q \in Pids, PopPipe(q) PROVE FALSE
  <2>1. mpc' = "popped" /\ q \in dead'
    BY <1>5 DEF PopPipe
  <2>2. dead' # {} => mpc' # "popped"
    BY <1>0, AliveNext DEF AliveInv
  <2> QED
    BY <2>1, <2>2
<1> QED
  BY <1>1, <1>2, <1>3, <1>4, <1>5 DEF Main

LEMMA ResendSync ==
    ASSUME CInv, ValueInv, NEW p \in Pids, NEW k \in Keys, Tracked(p), Lone(k), Arrives(p, k), Resend
    PROVE  Arrives(p, k)'
<1>0. TypeOK /\ LockInv /\ ResendInv /\ p \notin dead /\ p \in pipes
  BY TrackedAlive DEF CInv, ControlInv
<1>1. UNCHANGED <<upc, master, worker, pipes, mpc, loop>>
  BY DEF Resend, ResendGet, ResendLock, ResendList, ResendClear, ResendOver, ResendTo, threadVars,
         pipeVars, mainVars
<1>2. CASE ResendGet \/ ResendList \/ ResendClear
  BY <1>1, <1>2 DEF ResendGet, ResendList, ResendClear, Arrives, Due, pipeVars
<1>3. CASE ResendLock
  BY <1>1, <1>3, LockNames DEF ResendLock, Arrives, Due, pipeVars
<1>4. CASE ResendOver
  <2>1. lock = "resend"
    BY <1>0, <1>4 DEF ResendOver, LockInv
  <2> QED
    BY <1>1, <1>4, <2>1, LockNames DEF ResendOver, Arrives, Due, pipeVars
<1>5. ASSUME NEW q \in Pids, ResendTo(q) PROVE Arrives(p, k)'
  <2>1. /\ rclients' = rclients \ {q} /\ UNCHANGED <<lock, rpc, rdict, notified>>
        /\ IF q \in pipes THEN Deliver(q, rdata) ELSE UNCHANGED inbox
    BY <1>5 DEF ResendTo
  <2>2. rdata = master /\ rdata \in Upstreams
    BY <1>0, <1>5 DEF ResendTo, LockInv, TypeOK
  <2>3. CASE q = p
    <3>1. Heard(inbox'[p], worker[p], k, master[k])
      BY <1>0, <2>1, <2>2, <2>3, MessageArrives
    <3> QED
      BY <1>1, <3>1 DEF Arrives
  <2>4. CASE q # p
    <3>1. inbox'[p] = inbox[p]
      BY <1>0, <2>1, <2>2, <2>4, DeliverType
    <3> QED
      BY <1>1, <2>1, <2>4, <3>1 DEF Arrives, Due
  <2> QED
    BY <2>3, <2>4
<1> QED
  BY <1>2, <1>3, <1>4, <1>5 DEF Resend

LEMMA NextSync == CInv /\ ValueInv /\ SyncInv /\ [Next]_vars => SyncInv'
<1> SUFFICES ASSUME CInv, ValueInv, SyncInv, [Next]_vars,
                    NEW p \in Pids, NEW k \in Keys, Tracked(p)', Lone(k)
             PROVE  Arrives(p, k)'
  BY DEF SyncInv, Lone
<1>0. TypeOK /\ CInv'
  BY NextControl DEF CInv
<1>1. ASSUME UNCHANGED <<pipes, dead, forked>> PROVE Tracked(p) /\ Arrives(p, k)
  BY <1>1 DEF Tracked, SyncInv
<1>2. ASSUME NEW s \in Sources, Store(s) \/ Thread(s) PROVE Arrives(p, k)'
  <2>1. UNCHANGED <<pipes, dead, forked>>
    BY <1>2 DEF Store, Thread, Build, SendNothing, SendUpdate, SendOver, mainVars, pipeVars
  <2> QED
    BY <1>1, <1>2, <2>1, ThreadSync
<1>3. CASE SendNext
  <2>1. UNCHANGED <<pipes, dead, forked>>
    BY <1>3 DEF SendNext, mainVars
  <2> QED
    BY <1>1, <1>3, <2>1, SendNextSync
<1>4. CASE Main
  BY <1>4, MainSync
<1>5. CASE Resend
  <2>1. UNCHANGED <<pipes, dead, forked>>
    BY <1>5 DEF Resend, ResendGet, ResendLock, ResendList, ResendClear, ResendOver, ResendTo,
                mainVars, pipeVars
  <2> QED
    BY <1>1, <1>5, <2>1, ResendSync
<1>6. ASSUME NEW q \in Pids, WorkerDies(q) PROVE FALSE
  <2>1. /\ dead' = dead \cup {q} /\ q \in pipes /\ UNCHANGED <<pipes, forked>>
    BY <1>6 DEF WorkerDies
  <2>2. p = forked' /\ forked' = NWorkers + 1 /\ dead' # {} /\ p \notin dead'
    BY <1>0, <2>1, AliveNext DEF AliveInv
  <2>3. Cardinality(dead') <= 1 /\ DeathInv' /\ q \in dead' \cap pipes'
    BY <1>0, <2>1, <2>2 DEF Tracked, CInv, ControlInv
  <2>4. Down' = 1
    BY <2>3 DEF Down
  <2>5. NWorkers \in Nat
    BY SyncAssumption
  <2>6. forked' >= NWorkers => Cardinality(dead') = forked' - NWorkers + Down'
    BY <2>3 DEF DeathInv
  <2> QED
    BY <2>2, <2>3, <2>4, <2>5, <2>6
<1>7. ASSUME NEW q \in Pids, Apply(q) PROVE Arrives(p, k)'
  <2>1. UNCHANGED <<threadVars, lock, loop, pipes, mainVars, resendVars>>
    BY <1>7 DEF Apply
  <2>2. Arrives(p, k)
    BY <1>1, <2>1 DEF mainVars
  <2>3. Due(p, k) => Due(p, k)'
    BY <2>1 DEF Due, threadVars, mainVars, resendVars
  <2>4. Heard(inbox[p], worker[p], k, master[k]) => Heard(inbox'[p], worker'[p], k, master[k])
    <3>1. CASE p = q
      BY <1>0, <1>7, <3>1, ApplyFacts, HeardTail
    <3>2. CASE p # q
      BY <1>0, <1>7, <3>2, ApplyFacts
    <3> QED
      BY <3>1, <3>2
  <2>5. master' = master
    BY <2>1 DEF threadVars
  <2> QED
    BY <2>2, <2>3, <2>4, <2>5 DEF Arrives
<1>8. CASE UNCHANGED vars
  <2>1. Arrives(p, k)
    BY <1>1, <1>8 DEF vars, pipeVars, mainVars
  <2> QED
    BY <1>8, <2>1 DEF vars, threadVars, pipeVars, mainVars, resendVars, Arrives, Due
<1> QED
  BY <1>2, <1>3, <1>4, <1>5, <1>6, <1>7, <1>8 DEF Next

LEMMA SyncIsInvariant == Spec => [](CInv /\ ValueInv /\ SyncInv)
<1>1. Init => ValueInv /\ SyncInv
  <2> SUFFICES ASSUME Init PROVE ValueInv /\ SyncInv
    OBVIOUS
  <2>1. \A k \in Keys : Silent(<<>>, k)
    BY DEF Silent
  <2>2. ValueInv
    BY <2>1, ValueTypes DEF Init, ValueInv
  <2>3. SyncInv
    BY DEF Init, SyncInv, Tracked
  <2> QED
    BY <2>2, <2>3
<1> QED
  BY <1>1, InitControl, NextControl, NextValue, NextSync, PTL DEF Spec

\* When nothing is under way, what was built has arrived.
LEMMA QuietAgrees ==
    ASSUME CInv, SyncInv, Quiet, NEW p \in Pids, Tracked(p)
    PROVE  Agrees(p)
<1> SUFFICES ASSUME NEW k \in Keys, Lone(k) PROVE worker[p][k] = master[k]
  BY DEF Agrees
<1>1. Arrives(p, k)
  BY DEF SyncInv
<1>2. lock \notin Sources \cup {"main"}
  BY DEF Quiet, CInv, LockInv
<1>3. ~Due(p, k)
  BY <1>2 DEF Due, Quiet
<1>4. Heard(<<>>, worker[p], k, master[k])
  BY <1>1, <1>3 DEF Arrives, Quiet
<1> QED
  BY <1>4 DEF Heard

\* For any number of sources, upstreams and workers, and however their updates
\* fall before, between and after the forks and the hook: as long as no worker
\* has died, all workers have the master's upstreams when nothing is under way
\* (_master_after_fork_action, send_updates, __send_to_all).
THEOREM UpdatesReachAll == Spec => []AgreeUntilDeath
<1>1. CInv /\ SyncInv => AgreeUntilDeath
  <2> SUFFICES ASSUME CInv, SyncInv, dead = {}, Quiet, NEW p \in pipes PROVE Agrees(p)
    BY DEF AgreeUntilDeath
  <2>1. p \in Pids /\ Tracked(p)
    BY DEF CInv, TypeOK, Tracked
  <2> QED
    BY <2>1, QuietAgrees
<1> QED
  BY <1>1, SyncIsInvariant, PTL

\* And the first worker that is restarted misses nothing either, though it
\* starts from a copy that may be old when it is entered in write_pipes, and
\* an iteration under way then is torn (on_worker_restart, __resend).
THEOREM RestartMissesNothing == Spec => []NewestAgrees
<1>1. CInv /\ SyncInv => NewestAgrees
  <2> SUFFICES ASSUME CInv, SyncInv, Cardinality(dead) <= 1, Quiet PROVE Agrees(forked)
    BY DEF NewestAgrees
  <2>0. TypeOK /\ ForkInv /\ DeathInv
    BY DEF CInv, ControlInv
  <2>1. /\ NWorkers \in Nat \ {0} /\ forked \in Nat
        /\ IsFiniteSet(dead) /\ Cardinality(dead) \in Nat
    BY <2>0, ForkTypes
  <2>2. mpc = "supervise" /\ dead \cap pipes = {} /\ Down = 0
    BY DEF Quiet, Down
  <2>3. forked >= NWorkers /\ forked \in pipes
    BY <2>0, <2>1, <2>2 DEF ForkInv, DeathInv
  <2>4. forked \in Pids
    BY <2>0, <2>3 DEF TypeOK
  <2>5. Cardinality(dead) = forked - NWorkers
    BY <2>0, <2>1, <2>2, <2>3 DEF DeathInv
  <2>6. dead # {} => Cardinality(dead) # 0
    BY <2>1, FS_EmptySet
  <2>7. dead # {} => forked > NWorkers
    BY <2>1, <2>3, <2>5, <2>6
  <2>8. Tracked(forked)
    BY <2>3, <2>7 DEF Tracked
  <2> QED
    BY <2>4, <2>8, QuietAgrees
<1> QED
  BY <1>1, SyncIsInvariant, PTL
=============================================================================
