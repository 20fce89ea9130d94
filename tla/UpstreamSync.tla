----------------------------- MODULE UpstreamSync -----------------------------
(***************************************************************************)
(* How the upstreams known to consul reach the workers: consul's cache     *)
(* threads in the master store what they are told, rebuild the upstream    *)
(* and send it down the pipes of all workers; a new worker starts from a   *)
(* copy made at its fork, and what it may have missed is sent once more.   *)
(*                                                                         *)
(* The data is abstracted to versions: an upstream is the version of each  *)
(* source (a datacenter's servers, or the configuration) it was built      *)
(* from.  Messages are whole and pipes never fill up here.                 *)
(***************************************************************************)
EXTENDS Naturals, Sequences, FiniteSets

CONSTANTS
    Sources,     \* cache threads, each feeding one upstream
    Keys,        \* upstream names
    KeyOf,       \* the upstream a source feeds
    NWorkers,    \* options.workers
    MaxRestarts, \* bound: workers that die and are restarted
    MaxVersion   \* bound: updates of one source

ASSUME SyncAssumption ==
    /\ KeyOf \in [Sources -> Keys]
    /\ Sources \cap {"free", "main", "resend"} = {}
    /\ NWorkers \in Nat \ {0}
    /\ MaxRestarts \in Nat
    /\ MaxVersion \in Nat

Pids == 1..(NWorkers + MaxRestarts)

VARIABLES
    version,  \* _upstreams_servers and _upstreams_config
    upc,      \* where each cache thread is in its listener
    built,    \* the upstream a thread made last
    kept,     \* threads whose upstream is the very object kept in _upstreams
    master,   \* _upstreams of the master
    lock,     \* holder of _upstreams_lock
    hook,     \* _send_to_all_workers is set
    loop,     \* the iteration over write_pipes in __send_to_all
    mpc,      \* where the master's main thread is
    forked,   \* workers forked so far
    pipes,    \* keys of write_pipes
    dead,     \* workers that died
    inbox,    \* messages in the pipe of each worker
    worker,   \* _upstreams of each worker
    rpc,      \* where the resend thread is
    rdict,    \* keys of resend_dict
    notified, \* resend_notification holds an item
    rdata,    \* what the resend thread is about to send
    rclients  \* to whom

threadVars == <<version, upc, built, kept, master>>
pipeVars   == <<pipes, inbox, worker>>
mainVars   == <<mpc, forked, dead, hook>>
resendVars == <<rpc, rdict, notified, rdata, rclients>>
vars == <<threadVars, lock, loop, pipeVars, mainVars, resendVars>>

Values == [Sources -> 0..MaxVersion]
Nothing == [s \in Sources |-> 0]        \* no such upstream
Upstreams == [Keys -> Values]
NoUpstreams == [k \in Keys |-> Nothing]
Idle == [data |-> NoUpstreams, last |-> 0, size |-> 0]

TypeOK ==
    /\ version \in Values
    /\ upc \in [Sources -> {"idle", "stored", "built", "sending"}]
    /\ built \in [Sources -> Values]
    /\ kept \subseteq Sources
    /\ master \in Upstreams
    /\ lock \in Sources \cup {"free", "main", "resend"}
    /\ hook \in BOOLEAN
    /\ loop \in [data : Upstreams, last : Pids \cup {0}, size : 0..Cardinality(Pids)]
    /\ mpc \in {"copy", "fork", "hook", "all", "sending", "supervise", "popped",
               "flag"}
    /\ forked \in Pids \cup {0}
    /\ pipes \subseteq Pids
    /\ dead \subseteq Pids
    /\ inbox \in [Pids -> Seq(Upstreams)]
    /\ worker \in [Pids -> Upstreams]
    /\ rpc \in {"wait", "woken", "locked", "listed", "sending"}
    /\ rdict \subseteq Pids
    /\ notified \in BOOLEAN
    /\ rdata \in Upstreams
    /\ rclients \subseteq Pids

Init ==
    /\ version = Nothing
    /\ upc = [s \in Sources |-> "idle"]
    /\ built = [s \in Sources |-> Nothing]
    /\ kept = {}
    /\ master = NoUpstreams
    /\ lock = "free"
    /\ hook = FALSE
    /\ loop = Idle
    /\ mpc = "copy"
    /\ forked = 0
    /\ pipes = {}
    /\ dead = {}
    /\ inbox = [p \in Pids |-> <<>>]
    /\ worker = [p \in Pids |-> NoUpstreams]
    /\ rpc = "wait"
    /\ rdict = {}
    /\ notified = FALSE
    /\ rdata = NoUpstreams
    /\ rclients = {}

-----------------------------------------------------------------------------
(* A cache thread: store, build under the lock, send under the lock.       *)

\* _create_upstream from what all the sources of the key have stored.
Combine(k) == [s \in Sources |-> IF KeyOf[s] = k THEN version[s] ELSE 0]

\* _update_upstreams_service, _update_upstreams_config: a plain dict store.
Store(s) ==
    /\ upc[s] = "idle"
    /\ version[s] < MaxVersion
    /\ version' = [version EXCEPT ![s] = @ + 1]
    /\ upc' = [upc EXCEPT ![s] = "stored"]
    /\ UNCHANGED <<built, kept, master, lock, loop, pipeVars, mainVars,
                   resendVars>>

\* Mutant of Build: an upstream that exists is not updated.
BuildFirstOnly(s) ==
    LET k == KeyOf[s] IN
    /\ upc[s] = "stored"
    /\ lock = "free"
    /\ built' = [built EXCEPT ![s] = Combine(k)]
    /\ kept' = IF master[k] = Nothing THEN kept \cup {s} ELSE kept \ {s}
    /\ master' = [master EXCEPT ![k] = IF @ = Nothing THEN Combine(k) ELSE @]
    /\ upc' = [upc EXCEPT ![s] = "built"]
    /\ UNCHANGED <<version, lock, loop, pipeVars, mainVars, resendVars>>

\* _update_upstreams: the first upstream of a name is kept as it is, so the
\* thread sends the very object that later updates change; otherwise the one
\* that is kept takes over the data of the new one.
Build(s) ==
    LET k == KeyOf[s] IN
    /\ upc[s] = "stored"
    /\ lock = "free"
    /\ built' = [built EXCEPT ![s] = Combine(k)]
    /\ kept' = IF master[k] = Nothing THEN kept \cup {s} ELSE kept \ {s}
    /\ master' = [master EXCEPT ![k] = Combine(k)]
    /\ upc' = [upc EXCEPT ![s] = "built"]
    /\ UNCHANGED <<version, lock, loop, pipeVars, mainVars, resendVars>>

\* send_updates before the hook is set.
SendNothing(s) ==
    /\ upc[s] = "built"
    /\ ~hook
    /\ upc' = [upc EXCEPT ![s] = "idle"]
    /\ UNCHANGED <<version, built, kept, master, lock, loop, pipeVars, mainVars,
                   resendVars>>

\* The lock is taken, the data pickled and the iteration begun.
StartLoop(data) == loop' = [data |-> data, last |-> 0, size |-> Cardinality(pipes)]

\* Mutant of Payload: the upstream is pickled instead of a list of it.
PayloadBare(s) == IF s \in kept THEN master[KeyOf[s]] ELSE built[s]

\* A list of the one upstream, as it is when it is pickled.
Payload(s) == [NoUpstreams EXCEPT ![KeyOf[s]] =
                 IF s \in kept THEN master[KeyOf[s]] ELSE built[s]]

SendUpdate(s) ==
    /\ upc[s] = "built"
    /\ hook
    /\ lock = "free"
    /\ lock' = s
    /\ StartLoop(Payload(s))
    /\ upc' = [upc EXCEPT ![s] = "sending"]
    /\ UNCHANGED <<version, built, kept, master, pipeVars, mainVars, resendVars>>

\* Where the iteration over write_pipes goes next: nowhere when it is over,
\* or when the dict has changed size, which raises RuntimeError.
Remaining == {p \in pipes : p > loop.last}
Torn == Cardinality(pipes) # loop.size
LoopOver == Torn \/ Remaining = {}

\* A message for a worker that is dead is lost with its pipe.
Deliver(p, msg) == inbox' = [inbox EXCEPT ![p] = IF p \in dead THEN @
                                                 ELSE Append(@, msg)]

\* __send_update to the next pipe of the iteration.
SendNext ==
    /\ lock \in Sources \cup {"main"}
    /\ ~LoopOver
    /\ \E p \in Remaining :
        /\ \A q \in Remaining : p <= q
        /\ Deliver(p, loop.data)
        /\ loop' = [loop EXCEPT !.last = p]
    /\ UNCHANGED <<threadVars, lock, pipes, worker, mainVars, resendVars>>

SendOver(s) ==
    /\ upc[s] = "sending"
    /\ LoopOver
    /\ lock' = "free"
    /\ loop' = Idle
    /\ upc' = [upc EXCEPT ![s] = "idle"]
    /\ UNCHANGED <<version, built, kept, master, pipeVars, mainVars, resendVars>>

-----------------------------------------------------------------------------
(* The main thread of the master.                                          *)

\* _start_child copies the upstreams under the lock; the child is forked with
\* that copy as its initial_shared_data ...
CopyUpstreams ==
    /\ mpc \in {"copy", "popped"}
    /\ lock = "free"
    /\ forked' = forked + 1
    /\ worker' = [worker EXCEPT ![forked + 1] = master]
    /\ mpc' = "fork"
    /\ UNCHANGED <<threadVars, lock, loop, pipes, inbox, dead, hook, resendVars>>

\* ... and only then gets its entry in write_pipes.
RegisterPipe ==
    /\ mpc = "fork"
    /\ pipes' = pipes \cup {forked}
    /\ mpc' = IF hook THEN "flag" ELSE IF forked < NWorkers THEN "copy" ELSE "hook"
    /\ UNCHANGED <<threadVars, lock, loop, inbox, worker, forked, dead, hook,
                   resendVars>>

\* Mutant of OnWorkerRestart: nothing is sent again.
OnWorkerRestartNothing ==
    /\ mpc = "flag"
    /\ mpc' = "supervise"
    /\ UNCHANGED <<threadVars, lock, loop, pipeVars, forked, dead, hook,
                   resendVars>>

\* on_worker_restart asks for everything to be sent to the new worker again.
OnWorkerRestart ==
    /\ mpc = "flag"
    /\ rdict' = rdict \cup {forked}
    /\ notified' = TRUE
    /\ mpc' = "supervise"
    /\ UNCHANGED <<threadVars, lock, loop, pipeVars, forked, dead, hook, rpc,
                   rdata, rclients>>

\* Mutant of SetHook: nothing is sent for what changed since the forks.
SetHookOnly ==
    /\ mpc = "hook"
    /\ hook' = TRUE
    /\ mpc' = "supervise"
    /\ UNCHANGED <<threadVars, lock, loop, pipeVars, forked, dead, resendVars>>

\* _master_after_fork_action: the hook, then all upstreams to all workers.
SetHook ==
    /\ mpc = "hook"
    /\ hook' = TRUE
    /\ mpc' = "all"
    /\ UNCHANGED <<threadVars, lock, loop, pipeVars, forked, dead, resendVars>>

SendAll ==
    /\ mpc = "all"
    /\ lock = "free"
    /\ lock' = "main"
    /\ StartLoop(master)
    /\ mpc' = "sending"
    /\ UNCHANGED <<threadVars, pipeVars, forked, dead, hook, resendVars>>

SendAllOver ==
    /\ mpc = "sending"
    /\ LoopOver
    /\ lock' = "free"
    /\ loop' = Idle
    /\ mpc' = "supervise"
    /\ UNCHANGED <<threadVars, pipeVars, forked, dead, hook, resendVars>>

\* A worker dies after the startup.  The next one dies only when it has been
\* replaced: deaths that overlap are the business of WorkerSupervisor.
WorkerDies(p) ==
    /\ mpc \in {"hook", "all", "sending", "supervise"}
    /\ p \in pipes
    /\ dead \cap pipes = {}
    /\ Cardinality(dead) < MaxRestarts
    /\ dead' = dead \cup {p}
    /\ inbox' = [inbox EXCEPT ![p] = <<>>]
    /\ UNCHANGED <<threadVars, lock, loop, pipes, worker, mpc, forked, hook,
                   resendVars>>

\* _supervise_workers takes the pipe of a dead worker out of write_pipes,
\* without the lock.
PopPipe(p) ==
    /\ mpc = "supervise"
    /\ p \in dead \cap pipes
    /\ pipes' = pipes \ {p}
    /\ mpc' = "popped"
    /\ UNCHANGED <<threadVars, lock, loop, inbox, worker, forked, dead, hook,
                   resendVars>>

-----------------------------------------------------------------------------
(* The resend thread.                                                      *)

ResendGet ==
    /\ rpc = "wait"
    /\ notified
    /\ notified' = FALSE
    /\ rpc' = "woken"
    /\ UNCHANGED <<threadVars, lock, loop, pipeVars, mainVars, rdict, rdata,
                   rclients>>

\* A second later: the lock, and all upstreams pickled.
ResendLock ==
    /\ rpc = "woken"
    /\ lock = "free"
    /\ lock' = "resend"
    /\ rdata' = master
    /\ rpc' = "locked"
    /\ UNCHANGED <<threadVars, loop, pipeVars, mainVars, rdict, notified,
                   rclients>>

\* The clients are listed and resend_dict is cleared, while on_worker_restart
\* may add to it at any time.
ResendList ==
    /\ rpc = "locked"
    /\ rclients' = rdict
    /\ rpc' = "listed"
    /\ UNCHANGED <<threadVars, lock, loop, pipeVars, mainVars, rdict, notified,
                   rdata>>

ResendClear ==
    /\ rpc = "listed"
    /\ rdict' = {}
    /\ rpc' = "sending"
    /\ UNCHANGED <<threadVars, lock, loop, pipeVars, mainVars, notified, rdata,
                   rclients>>

\* Each client that still has a pipe gets the data (twice, which is the same).
ResendTo(p) ==
    /\ rpc = "sending"
    /\ p \in rclients
    /\ rclients' = rclients \ {p}
    /\ IF p \in pipes THEN Deliver(p, rdata) ELSE UNCHANGED inbox
    /\ UNCHANGED <<threadVars, lock, loop, pipes, worker, mainVars, rpc, rdict,
                   notified, rdata>>

ResendOver ==
    /\ rpc = "sending"
    /\ rclients = {}
    /\ rpc' = "wait"
    /\ lock' = "free"
    /\ rdata' = NoUpstreams
    /\ UNCHANGED <<threadVars, loop, pipeVars, mainVars, rdict, notified,
                   rclients>>

-----------------------------------------------------------------------------
\* _worker_listener and update_upstreams: the upstreams of a message replace
\* the worker's, the others stay.
Apply(p) ==
    /\ inbox[p] # <<>>
    /\ inbox' = [inbox EXCEPT ![p] = Tail(@)]
    /\ worker' = [worker EXCEPT ![p] = [k \in Keys |->
                    IF Head(inbox[p])[k] = Nothing THEN @[k] ELSE Head(inbox[p])[k]]]
    /\ UNCHANGED <<threadVars, lock, loop, pipes, mainVars, resendVars>>

-----------------------------------------------------------------------------
Thread(s) == Build(s) \/ SendNothing(s) \/ SendUpdate(s) \/ SendOver(s)
Main == CopyUpstreams \/ RegisterPipe \/ OnWorkerRestart \/ SetHook \/ SendAll \/ SendAllOver
        \/ \E p \in Pids : PopPipe(p)
Resend == ResendGet \/ ResendLock \/ ResendList \/ ResendClear \/ ResendOver
          \/ \E p \in Pids : ResendTo(p)

Next == \/ \E s \in Sources : Store(s) \/ Thread(s)
        \/ SendNext \/ Main \/ Resend
        \/ \E p \in Pids : WorkerDies(p) \/ Apply(p)

Spec == Init /\ [][Next]_vars

\* Threads are scheduled and get the lock in the end, workers read their
\* pipes; updates of consul and deaths of workers need not happen.
FairSpec ==
    /\ Spec
    /\ \A s \in Sources : SF_vars(Thread(s))
    /\ WF_vars(SendNext) /\ SF_vars(Main) /\ SF_vars(Resend)
    /\ \A p \in Pids : WF_vars(Apply(p))

-----------------------------------------------------------------------------
(* Properties.                                                             *)

\* What the master serves for an upstream is built from the latest data of
\* all its sources, unless one of them has data it is about to build from:
\* the unlocked stores of concurrent cache threads lose nothing.
MasterIsCurrent ==
    \A k \in Keys :
        (\A s \in Sources : KeyOf[s] = k => upc[s] # "stored")
        => master[k] = Combine(k)

Quiet ==
    /\ \A s \in Sources : upc[s] = "idle"
    /\ mpc = "supervise"
    /\ dead \cap pipes = {}
    /\ rpc = "wait" /\ ~notified
    /\ \A p \in Pids : inbox[p] = <<>>

\* When nothing is under way, every worker has the upstreams of the master.
WorkersAgree == Quiet => \A p \in pipes : worker[p] = master

\* An upstream that one cache thread feeds: no update of it overtakes another.
Lone(k) == \A s, t \in Sources : KeyOf[s] = k /\ KeyOf[t] = k => s = t

Agrees(p) == \A k \in Keys : Lone(k) => worker[p][k] = master[k]

\* So it is for the upstreams that one thread feeds, at least as long as no
\* worker has died: updates before the forks, between a fork and the hook, and
\* after it all arrive.
AgreeUntilDeath == dead = {} /\ Quiet => \A p \in pipes : Agrees(p)

\* And so it is of the first worker that was restarted: neither the copy made
\* before its fork nor the late entry in write_pipes makes it miss an update.
\* (The flag of a second one may be set between the listing and the clearing
\* of resend_dict.)
NewestAgrees == Cardinality(dead) <= 1 /\ Quiet => Agrees(forked)

\* Once updates and deaths cease, the worker forked last ends up with the
\* upstreams of the master, and so do all if none has died.
EventuallyAgree ==
    <>[](\A p \in pipes :
            dead = {} \/ (p = forked /\ Cardinality(dead) <= 1) => Agrees(p))

=============================================================================
