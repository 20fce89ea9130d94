--------------------------- MODULE WorkerSupervisor ---------------------------
(***************************************************************************)
(* The life of a frontik server with several workers: the master forks     *)
(* them, waits until all are up, registers the service in consul, then     *)
(* reaps and restarts those that die, until SIGTERM takes everything down. *)
(*                                                                         *)
(* Processes are numbered in the order they are forked.  The master's      *)
(* signal handler runs between any two of its steps, so a step is the code *)
(* between two points where a signal makes a difference.  os.wait, the     *)
(* multiprocessing module and consul are external.                         *)
(***************************************************************************)
EXTENDS Integers, FiniteSets

CONSTANTS
    NWorkers,     \* options.workers
    MaxCrashes,   \* bound: workers that fail or are killed
    Signals,      \* whether an operator sends the master SIGTERM (once)
    ConsulFails,  \* whether calls to consul may raise
    MasterDies    \* whether the master may be killed with SIGKILL

ASSUME SupervisorAssumption ==
    /\ NWorkers \in Nat \ {0}
    /\ MaxCrashes \in Nat
    /\ {Signals, ConsulFails, MasterDies} \subseteq BOOLEAN

Workers == 1..NWorkers
Pids == 1..(NWorkers + MaxCrashes)   \* every crash may cost one more fork

VARIABLES
    mpc,         \* where the master is
    cur,         \* the process it is starting or burying; 0 if none
    started,     \* processes forked so far
    proc,        \* state of each process, as the kernel knows it
    wid,         \* worker_id of each process; 0 before it is forked
    inherits,    \* pipes whose write end a process got at its fork
    children,    \* worker_state.children (and write_pipes)
    countDown,   \* init_workers_count_down
    masterDone,  \* master_done
    terminating, \* worker_state.terminating
    registered,  \* the service is registered in consul
    sig,         \* SIGTERM to the master
    cameUp,      \* worker ids that were up at least once
    crashes      \* crashes so far

shared == <<countDown, masterDone>>
vars == <<mpc, cur, started, proc, wid, inherits, children, shared,
          terminating, registered, sig, cameUp, crashes>>

Live == {"init", "up", "stopping"}
Zombie == {"failed", "exited"}          \* dead, not waited for; status # 0 or 0

MasterStates == {"forking", "started", "waiting", "after", "supervise",
                 "reaped", "popped", "decided", "joining", "exited", "killed"}

TypeOK ==
    /\ mpc \in MasterStates
    /\ cur \in Pids \cup {0}
    /\ started \in 0..(NWorkers + MaxCrashes)
    /\ proc \in [Pids -> Live \cup Zombie \cup {"none", "gone", "gone0"}]
    /\ wid \in [Pids -> Workers \cup {0}]
    /\ inherits \in [Pids -> SUBSET Pids]
    /\ children \in SUBSET Pids
    /\ countDown \in Int
    /\ masterDone \in BOOLEAN
    /\ terminating \in BOOLEAN
    /\ registered \in BOOLEAN
    /\ sig \in {"none", "pending", "handled"}
    /\ cameUp \in SUBSET Workers
    /\ crashes \in 0..MaxCrashes

Init ==
    /\ mpc = "forking"
    /\ cur = 0
    /\ started = 0
    /\ proc = [p \in Pids |-> "none"]
    /\ wid = [p \in Pids |-> 0]
    /\ inherits = [p \in Pids |-> {}]
    /\ children = {}
    /\ countDown = NWorkers
    /\ masterDone = FALSE
    /\ terminating = FALSE
    /\ registered = FALSE
    /\ sig = "none"
    /\ cameUp = {}
    /\ crashes = 0

MasterRuns == mpc \notin {"exited", "killed"}
AliveProcs == {p \in Pids : proc[p] \in Live}

-----------------------------------------------------------------------------
(* Starting processes.                                                     *)

\* What is left of a dead process once somebody has waited for it.
Buried(p) == IF proc[p] = "failed" THEN "gone" ELSE "gone0"

\* prc.start() of multiprocessing first polls all earlier children, which
\* waits for the dead ones among them, and then forks.
StartProcess(w) ==
    LET new == started + 1 IN
    /\ new \in Pids
    /\ started' = new
    /\ proc' = [p \in Pids |-> IF p = new THEN "init"
                               ELSE IF proc[p] \in Zombie THEN Buried(p)
                               ELSE proc[p]]
    /\ wid' = [wid EXCEPT ![new] = w]
    /\ inherits' = [inherits EXCEPT ![new] = children]
    /\ cur' = new
    /\ mpc' = "started"

\* The loop of fork_workers.
Fork ==
    /\ mpc = "forking"
    /\ started < NWorkers
    /\ StartProcess(started + 1)
    /\ UNCHANGED <<children, shared, terminating, registered, sig, cameUp,
                   crashes>>

\* Mutant of RegisterChild: a restarted child is not recorded.
RegisterChildOnce ==
    /\ mpc = "started"
    /\ children' = IF masterDone THEN children ELSE children \cup {cur}
    /\ cur' = 0
    /\ mpc' = IF masterDone THEN "supervise" ELSE "forking"
    /\ UNCHANGED <<started, proc, wid, inherits, shared, terminating,
                   registered, sig, cameUp, crashes>>

\* _start_child after the fork: the process becomes known to the master.
RegisterChild ==
    /\ mpc = "started"
    /\ children' = children \cup {cur}
    /\ cur' = 0
    /\ mpc' = IF masterDone THEN "supervise" ELSE "forking"
    /\ UNCHANGED <<started, proc, wid, inherits, shared, terminating,
                   registered, sig, cameUp, crashes>>

\* All are forked: the master polls the countdown.
ForkLoopOver ==
    /\ mpc = "forking"
    /\ started = NWorkers
    /\ mpc' = "waiting"
    /\ UNCHANGED <<cur, started, proc, wid, inherits, children, shared,
                   terminating, registered, sig, cameUp, crashes>>

WaitOver ==
    /\ mpc = "waiting"
    /\ countDown <= 0
    /\ mpc' = "after"
    /\ UNCHANGED <<cur, started, proc, wid, inherits, children, shared,
                   terminating, registered, sig, cameUp, crashes>>

\* init_workers_timeout_sec is over: SIGKILL to the children, and the
\* exception leads to sys.exit(1).
InitTimeout ==
    /\ mpc = "waiting"
    /\ countDown > 0
    /\ proc' = [p \in Pids |-> IF p \in children /\ proc[p] \in Live
                               THEN "failed" ELSE proc[p]]
    /\ mpc' = "joining"
    /\ UNCHANGED <<cur, started, wid, inherits, children, shared, terminating,
                   registered, sig, cameUp, crashes>>

\* _master_after_fork_action registers the service, then master_done is set.
Register ==
    /\ mpc = "after"
    /\ registered' = TRUE
    /\ masterDone' = TRUE
    /\ mpc' = "supervise"
    /\ UNCHANGED <<cur, started, proc, wid, inherits, children, countDown,
                   terminating, sig, cameUp, crashes>>

RegisterFails ==
    /\ mpc = "after"
    /\ ConsulFails
    /\ mpc' = "joining"
    /\ UNCHANGED <<cur, started, proc, wid, inherits, children, shared,
                   terminating, registered, sig, cameUp, crashes>>

-----------------------------------------------------------------------------
(* _supervise_workers.                                                     *)

Reap(p) ==
    /\ mpc = "supervise"
    /\ children # {}
    /\ proc[p] \in Zombie
    /\ proc' = [proc EXCEPT ![p] = Buried(p)]
    /\ cur' = p
    /\ mpc' = "reaped"
    /\ UNCHANGED <<started, wid, inherits, children, shared, terminating,
                   registered, sig, cameUp, crashes>>

\* os.wait() has nobody to wait for although children is not empty.
NoChildLeft ==
    /\ mpc = "supervise"
    /\ children # {}
    /\ \A p \in Pids : proc[p] \notin Live \cup Zombie
    /\ mpc' = "joining"
    /\ UNCHANGED <<cur, started, proc, wid, inherits, children, shared,
                   terminating, registered, sig, cameUp, crashes>>

\* children.pop(pid) and the close of its pipe.
Pop ==
    /\ mpc = "reaped"
    /\ children' = children \ {cur}
    /\ mpc' = IF cur \in children THEN "popped" ELSE "supervise"
    /\ UNCHANGED <<cur, started, proc, wid, inherits, shared, terminating,
                   registered, sig, cameUp, crashes>>

\* Mutant of Decide: the exit of a worker is logged and nothing else.
DecideNever ==
    /\ mpc = "popped"
    /\ mpc' = "supervise"
    /\ UNCHANGED <<cur, started, proc, wid, inherits, children, shared,
                   terminating, registered, sig, cameUp, crashes>>

\* A normal exit is left alone, and so is any exit during shutdown.
Decide ==
    /\ mpc = "popped"
    /\ mpc' = IF proc[cur] = "gone0" \/ terminating THEN "supervise"
              ELSE "decided"
    /\ UNCHANGED <<cur, started, proc, wid, inherits, children, shared,
                   terminating, registered, sig, cameUp, crashes>>

\* Mutant of Restart: the id of another worker.
RestartWrongId ==
    /\ mpc = "decided"
    /\ StartProcess(1)
    /\ UNCHANGED <<children, shared, terminating, registered, sig, cameUp,
                   crashes>>

Restart ==
    /\ mpc = "decided"
    /\ StartProcess(wid[cur])
    /\ UNCHANGED <<children, shared, terminating, registered, sig, cameUp,
                   crashes>>

\* All children have terminated: sys.exit(0).
Exit ==
    /\ mpc = "supervise"
    /\ children = {}
    /\ mpc' = "exited"
    /\ UNCHANGED <<cur, started, proc, wid, inherits, children, shared,
                   terminating, registered, sig, cameUp, crashes>>

\* sys.exit(1) joins the processes multiprocessing knows, which is all.
Joined ==
    /\ mpc = "joining"
    /\ AliveProcs = {}
    /\ mpc' = "exited"
    /\ UNCHANGED <<cur, started, proc, wid, inherits, children, shared,
                   terminating, registered, sig, cameUp, crashes>>

-----------------------------------------------------------------------------
(* Shutdown.                                                               *)

SendSigterm ==
    /\ Signals
    /\ MasterRuns
    /\ sig = "none"
    /\ sig' = "pending"
    /\ UNCHANGED <<mpc, cur, started, proc, wid, inherits, children, shared,
                   terminating, registered, cameUp, crashes>>

\* The children the handler reaches: os.kill raises ProcessLookupError at the
\* first one that was already waited for.
Lost == {p \in children : proc[p] \in {"gone", "gone0"}}

\* Mutant of Reached: only one child is signalled.
ReachedFirst == {p \in children : \A q \in children : p <= q}

Reached == {p \in children : \A q \in Lost : p < q}

\* SIGTERM to a worker: one that is up stops; one that is still initialising
\* runs the handler it inherited from the master, which returns at once.
Terminated(S) == [p \in Pids |-> IF p \in S /\ proc[p] = "up" THEN "stopping"
                                 ELSE proc[p]]

\* An exception of the handler surfaces in the master's code and ends it.
Unwound == IF mpc = "joining" THEN "exited" ELSE "joining"

MasterSigterm ==
    /\ sig = "pending"
    /\ MasterRuns
    /\ sig' = "handled"
    /\ terminating' = TRUE
    /\ registered' = FALSE
    /\ proc' = Terminated(Reached)
    /\ mpc' = IF Lost = {} THEN mpc ELSE Unwound
    /\ UNCHANGED <<cur, started, wid, inherits, children, shared, cameUp,
                   crashes>>

\* deregister raises before any child is signalled.
MasterSigtermFails ==
    /\ sig = "pending"
    /\ MasterRuns
    /\ ConsulFails
    /\ sig' = "handled"
    /\ terminating' = TRUE
    /\ mpc' = Unwound
    /\ UNCHANGED <<cur, started, proc, wid, inherits, children, shared,
                   registered, cameUp, crashes>>

KillMaster ==
    /\ MasterDies
    /\ MasterRuns
    /\ mpc' = "killed"
    /\ UNCHANGED <<cur, started, proc, wid, inherits, children, shared,
                   terminating, registered, sig, cameUp, crashes>>

-----------------------------------------------------------------------------
(* Workers.                                                                *)

\* Mutant of WorkerUp: a worker counts as started before its init is over.
WorkerCountsEarly(p) ==
    /\ proc[p] = "init"
    /\ countDown > 0
    /\ countDown' = countDown - 1
    /\ UNCHANGED <<mpc, cur, started, proc, wid, inherits, children,
                   masterDone, terminating, registered, sig, cameUp, crashes>>

\* _init_app: the server listens, the handlers are its own, it counts down.
WorkerUp(p) ==
    /\ proc[p] = "init"
    /\ proc' = [proc EXCEPT ![p] = "up"]
    /\ countDown' = countDown - 1
    /\ cameUp' = cameUp \cup {wid[p]}
    /\ UNCHANGED <<mpc, cur, started, wid, inherits, children, masterDone,
                   terminating, registered, sig, crashes>>

\* init raises, or the worker is killed (out of memory, say).
WorkerFails(p) ==
    /\ proc[p] \in Live
    /\ crashes < MaxCrashes
    /\ crashes' = crashes + 1
    /\ proc' = [proc EXCEPT ![p] = "failed"]
    /\ UNCHANGED <<mpc, cur, started, wid, inherits, children, shared,
                   terminating, registered, sig, cameUp>>

\* server_stop: after stop_timeout the loop stops and the process returns.
WorkerStopped(p) ==
    /\ proc[p] = "stopping"
    /\ proc' = [proc EXCEPT ![p] = "exited"]
    /\ UNCHANGED <<mpc, cur, started, wid, inherits, children, shared,
                   terminating, registered, sig, cameUp, crashes>>

\* Mutant of HoldsPipe: a worker keeps the write end of its own pipe.
HoldsPipeOwn(q, p) == proc[q] \in Live /\ (q = p \/ p \in inherits[q])

\* Process q holds the write end of p's pipe.
HoldsPipe(q, p) == proc[q] \in Live /\ p \in inherits[q]

\* _worker_listener reads end of file once nobody holds the write end: the
\* master is gone, and so are the workers forked after this one.
PipeClosed(p) ==
    /\ proc[p] \in Live
    /\ ~MasterRuns
    /\ \A q \in Pids : ~HoldsPipe(q, p)
    /\ proc' = [proc EXCEPT ![p] = "failed"]
    /\ UNCHANGED <<mpc, cur, started, wid, inherits, children, shared,
                   terminating, registered, sig, cameUp, crashes>>

\* get_current_status answers instead of raising 500.
StatusOk == countDown <= 0 /\ masterDone

-----------------------------------------------------------------------------
Startup == Fork \/ RegisterChild \/ ForkLoopOver \/ WaitOver \/ InitTimeout
           \/ Register \/ RegisterFails

Supervise == \/ \E p \in Pids : Reap(p)
             \/ NoChildLeft \/ Pop \/ Decide \/ Restart \/ Exit \/ Joined

Handler == MasterSigterm \/ MasterSigtermFails

WorkerStep(p) == WorkerUp(p) \/ WorkerStopped(p) \/ PipeClosed(p)

Next == \/ Startup \/ Supervise \/ Handler \/ SendSigterm \/ KillMaster
        \/ \E p \in Pids : WorkerStep(p) \/ WorkerFails(p)

Spec == Init /\ [][Next]_vars

\* The operating system runs the master and every worker; consul answers.
\* Crashes, signals and failures of consul need not happen.
FairSpec ==
    /\ Spec
    /\ WF_vars(Startup) /\ WF_vars(Supervise) /\ WF_vars(MasterSigterm)
    /\ \A p \in Pids : WF_vars(WorkerStep(p))

-----------------------------------------------------------------------------
(* Properties.                                                             *)

\* /status answers, and consul knows the service, only after every worker id
\* was up once: neither a crash during startup nor a restart can stand in for
\* a worker that never started.
ReadyMeansAllUp ==
    registered \/ StatusOk => cameUp = Workers

\* A worker id never has two running processes.
OneProcessPerWorker ==
    \A p, q \in AliveProcs : wid[p] = wid[q] => p = q

\* While the master supervises, every running process is one it can signal,
\* except the one it is starting at this moment.
NoUnknownProcess ==
    mpc \in {"supervise", "reaped", "popped", "decided", "started"} =>
        AliveProcs \subseteq children \cup {cur}

Running(w) == \E p \in AliveProcs : wid[p] = w

\* The supervisor replaces a worker that died after the startup.
DeadWorkerReplaced ==
    \A p \in Pids :
        (masterDone /\ proc[p] = "failed") ~>
            (Running(wid[p]) \/ terminating \/ ~MasterRuns)

\* So it does, at least, when no other worker dies meanwhile.
LoneCrashRepaired ==
    \A p \in Pids :
        (masterDone /\ proc[p] = "failed" /\ crashes = 1) ~>
            (Running(wid[p]) \/ terminating \/ ~MasterRuns \/ crashes > 1)

\* A master that is gone leaves no worker behind: the workers see the end of
\* their pipes, last forked first.
NoOrphans == ~MasterRuns ~> (AliveProcs = {})

\* SIGTERM after the startup ends in an exit that leaves no process and no
\* registration behind, unless a worker crashes, the master is killed or
\* consul does not answer the deregistration.
ShutdownCompletes ==
    (sig = "pending" /\ masterDone /\ crashes = 0) ~>
        \/ mpc = "exited" /\ AliveProcs = {} /\ ~registered
        \/ crashes > 0 \/ mpc = "killed"
        \/ sig = "handled" /\ registered

\* SIGTERM ends the server, whenever it comes.
TermEndsServer == (sig = "handled") ~> (mpc = "exited")

=============================================================================
