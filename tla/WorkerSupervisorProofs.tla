------------------------ MODULE WorkerSupervisorProofs ------------------------
(***************************************************************************)
(* Proofs about WorkerSupervisor, for any number of workers, of crashes    *)
(* and with every failure allowed.                                         *)
(***************************************************************************)
EXTENDS WorkerSupervisor, FiniteSetTheorems, TLAPS

-----------------------------------------------------------------------------
(* The inductive invariant.                                                *)

\* Processes the kernel still knows.
Unburied == {p \in Pids : proc[p] \in Live \cup Zombie}

Burying == {"reaped", "popped", "decided"}
Startups == {"forking", "waiting", "after"}
Over == {"joining", "exited", "killed"}

\* master_done tells the startup from the supervision.
Phases ==
    /\ mpc \in Startups => ~masterDone
    /\ mpc \in Burying \cup {"supervise"} => masterDone
    /\ mpc = "after" => countDown <= 0
    /\ registered => masterDone

\* Processes are forked in the order of their numbers; the first ones get
\* their own number as worker id.
Forked ==
    /\ \A p \in Pids : p > started => proc[p] = "none"
    /\ \A p \in Pids : p <= started => wid[p] \in Workers
    /\ ~masterDone => started <= NWorkers
    /\ ~masterDone => \A p \in Pids : p <= started => wid[p] = p

\* No two processes share a worker id, unless one has been waited for.
OwnIds == \A p, q \in Unburied : wid[p] = wid[q] => p = q

\* The process the supervisor is burying has been waited for, and nobody has
\* its worker id.
Buriable ==
    /\ mpc \in Burying \cup {"started"} => cur \in Pids
    /\ mpc \in Burying =>
        /\ cur <= started
        /\ proc[cur] \in {"gone", "gone0"}
        /\ \A q \in Unburied : wid[q] # wid[cur]

\* The master knows every running process, except the one it is starting.
Known ==
    mpc \notin Over =>
        \A p \in AliveProcs : p \in children \/ (mpc = "started" /\ p = cur)

\* During the startup the countdown tells how many workers came up.
Counting ==
    /\ ~masterDone => countDown = NWorkers - Cardinality(cameUp)
    /\ ~masterDone => \A p \in Pids : proc[p] \in {"none", "init"} => p \notin cameUp
    /\ masterDone => cameUp = Workers

SupervisorInv == Phases /\ Forked /\ OwnIds /\ Buriable /\ Known /\ Counting

Inv == TypeOK /\ SupervisorInv

\* Nothing is forked at first.
LEMMA InitInv == Init => Inv
<1> SUFFICES ASSUME Init PROVE Inv
    OBVIOUS
<1>1. TypeOK
    <2>1. /\ proc \in [Pids -> Live \cup Zombie \cup {"none", "gone", "gone0"}]
          /\ wid \in [Pids -> Workers \cup {0}]
          /\ inherits \in [Pids -> SUBSET Pids]
        BY DEF Init
    <2>2. /\ cur \in Pids \cup {0}
          /\ started \in 0..(NWorkers + MaxCrashes)
          /\ countDown \in Int
          /\ crashes \in 0..MaxCrashes
        BY SupervisorAssumption DEF Init
    <2> QED
        BY <2>1, <2>2 DEF Init, TypeOK, MasterStates
<1>2. Phases /\ Forked /\ OwnIds /\ Buriable /\ Known
    BY SupervisorAssumption DEF Init, Phases, Forked, OwnIds, Buriable, Known, AliveProcs,
       Unburied, Live, Zombie, Startups, Burying, Over, Pids
<1>3. Counting
    BY SupervisorAssumption, FS_EmptySet DEF Init, Counting, Pids
<1> QED
    BY <1>1, <1>2, <1>3 DEF Inv, SupervisorInv

-----------------------------------------------------------------------------
(* Starting a process.                                                     *)

\* prc.start() forks a process with a worker id nobody has; what it waits for
\* on the way stays dead.
LEMMA StartInv ==
    ASSUME Inv, NEW w \in Workers, StartProcess(w),
           \A q \in Unburied : wid[q] # w,
           mpc \notin Over,
           mpc # "started",
           ~masterDone => started < NWorkers /\ w = started + 1,
           UNCHANGED <<children, shared, terminating, registered, sig, cameUp,
                       crashes>>
    PROVE  Inv'
<1> DEFINE new == started + 1
<1>0. new \in Pids /\ started \in Nat /\ started' = new /\ mpc' = "started" /\ cur' = new
    BY SupervisorAssumption DEF StartProcess, Inv, TypeOK, Pids
<1>1. \A p \in Pids : proc'[p] = IF p = new THEN "init"
                                 ELSE IF proc[p] \in Zombie THEN Buried(p) ELSE proc[p]
    BY DEF StartProcess
<1>2. \A p \in Pids : wid'[p] = IF p = new THEN w ELSE wid[p]
    BY <1>0 DEF StartProcess, Inv, TypeOK
<1>3. TypeOK'
    <2>1. proc' \in [Pids -> Live \cup Zombie \cup {"none", "gone", "gone0"}]
        BY <1>1 DEF StartProcess, Inv, TypeOK, Buried, Live, Zombie
    <2>2. wid' \in [Pids -> Workers \cup {0}]
        BY <1>0 DEF StartProcess, Inv, TypeOK
    <2>3. inherits' \in [Pids -> SUBSET Pids]
        BY <1>0 DEF StartProcess, Inv, TypeOK
    <2> QED
        BY <1>0, <2>1, <2>2, <2>3, SupervisorAssumption
        DEF Inv, TypeOK, MasterStates, shared, Pids
<1>4. Phases'
    BY <1>0 DEF Inv, SupervisorInv, Phases, shared, Startups, Burying
<1>5. Unburied' = {p \in Unburied : proc[p] \in Live} \cup {new}
    BY <1>0, <1>1 DEF Unburied, Live, Zombie, Buried
<1>6. new \notin Unburied
    BY <1>0 DEF Inv, SupervisorInv, Forked, Unburied, Live, Zombie, Pids
<1>7. Forked'
    BY <1>0, <1>1, <1>2, SupervisorAssumption
    DEF Inv, SupervisorInv, Forked, TypeOK, shared, Pids, Zombie
<1>8. OwnIds'
    BY <1>0, <1>2, <1>5, <1>6 DEF Inv, SupervisorInv, OwnIds, Unburied
<1>9. Buriable' /\ Known'
    BY <1>0, <1>1 DEF Inv, SupervisorInv, Buriable, Known, AliveProcs, Live, Zombie, Buried,
       Burying, Over
<1>10. Counting'
    <2>1. CASE masterDone
        BY <2>1 DEF Inv, SupervisorInv, Counting, shared
    <2>2. CASE ~masterDone
        BY <2>2, <1>0, <1>1 DEF Inv, SupervisorInv, Counting, Forked, shared, Buried, Zombie, Pids
    <2> QED
        BY <2>1, <2>2
<1> QED
    BY <1>3, <1>4, <1>7, <1>8, <1>9, <1>10 DEF Inv, SupervisorInv

\* The loop of fork_workers gives each process the next worker id.
LEMMA ForkInv == ASSUME Inv, Fork PROVE Inv'
<1>1. started + 1 \in Workers
    BY SupervisorAssumption DEF Inv, TypeOK, Fork, Workers
<1>2. ~masterDone
    BY DEF Inv, SupervisorInv, Phases, Fork, Startups
<1>3. \A q \in Unburied : wid[q] # started + 1
    BY <1>2, SupervisorAssumption
    DEF Inv, TypeOK, SupervisorInv, Forked, Unburied, Live, Zombie, Pids
<1> QED
    BY <1>1, <1>2, <1>3, StartInv DEF Fork, Over

\* The supervisor gives a new process the worker id of the one it buried.
LEMMA RestartInv == ASSUME Inv, Restart PROVE Inv'
<1>1. wid[cur] \in Workers /\ masterDone /\ \A q \in Unburied : wid[q] # wid[cur]
    BY DEF Inv, SupervisorInv, Forked, Buriable, Phases, Restart, Burying
<1> QED
    BY <1>1, StartInv DEF Restart, Over

-----------------------------------------------------------------------------
(* The other steps of the master.                                          *)

\* A step that leaves the processes and the startup's bookkeeping alone and
\* moves the master to a place with the same obligations keeps the invariant.
LEMMA MoveInv ==
    ASSUME Inv, UNCHANGED <<started, proc, wid, cameUp, countDown, masterDone>>,
           TypeOK', Phases', Buriable', Known'
    PROVE  Inv'
<1>1. Unburied' = Unburied
    BY DEF Unburied
<1> QED
    BY <1>1 DEF Inv, SupervisorInv, Forked, OwnIds, Counting

\* _start_child records the process it started.
LEMMA RegisterChildInv == ASSUME Inv, RegisterChild PROVE Inv'
<1>1. TypeOK'
    BY DEF Inv, SupervisorInv, Buriable, TypeOK, RegisterChild, shared, MasterStates
<1>2. Phases'
    BY DEF Inv, SupervisorInv, Phases, RegisterChild, shared, Startups, Burying
<1>3. Buriable' /\ Known'
    BY DEF Inv, SupervisorInv, Buriable, Known, RegisterChild, AliveProcs, Burying, Over
<1> QED
    BY <1>1, <1>2, <1>3, MoveInv DEF RegisterChild, shared

\* The master goes on to wait for the workers, and on when they are up.
LEMMA WaitInv == ASSUME Inv, ForkLoopOver \/ WaitOver PROVE Inv'
<1>1. TypeOK'
    BY DEF Inv, TypeOK, ForkLoopOver, WaitOver, shared, MasterStates
<1>2. Phases'
    BY DEF Inv, SupervisorInv, Phases, ForkLoopOver, WaitOver, shared, Startups, Burying
<1>3. Buriable' /\ Known'
    BY DEF Inv, SupervisorInv, Buriable, Known, ForkLoopOver, WaitOver, AliveProcs, Burying, Over
<1> QED
    BY <1>1, <1>2, <1>3, MoveInv DEF ForkLoopOver, WaitOver, shared

\* Steps that end the supervision owe nothing any more.
LEMMA EndInv ==
    ASSUME Inv, RegisterFails \/ NoChildLeft \/ Exit \/ Joined \/ KillMaster
                \/ MasterSigtermFails
    PROVE  Inv'
<1>1. mpc' \in Over
    BY DEF RegisterFails, NoChildLeft, Exit, Joined, KillMaster, MasterSigtermFails,
           Unwound, Over
<1>2. UNCHANGED <<cur, started, proc, wid, inherits, children, countDown, masterDone,
                  registered, cameUp, crashes>>
    BY DEF RegisterFails, NoChildLeft, Exit, Joined, KillMaster, MasterSigtermFails, shared
<1>3. TypeOK'
    <2>1. terminating' \in BOOLEAN /\ sig' \in {"none", "pending", "handled"}
        BY DEF Inv, TypeOK, RegisterFails, NoChildLeft, Exit, Joined, KillMaster,
               MasterSigtermFails
    <2>2. mpc' \in MasterStates
        BY <1>1 DEF Over, MasterStates
    <2> QED
        BY <1>2, <2>1, <2>2 DEF Inv, TypeOK
<1>4. Phases' /\ Buriable' /\ Known'
    BY <1>1, <1>2 DEF Inv, SupervisorInv, Phases, Buriable, Known, Startups, Burying, Over
<1> QED
    BY <1>2, <1>3, <1>4, MoveInv

\* Only finitely many workers can come up.
LEMMA CameUpFinite ==
    ASSUME Inv
    PROVE  /\ IsFiniteSet(cameUp) /\ Cardinality(cameUp) \in Nat
           /\ IsFiniteSet(Workers) /\ Cardinality(Workers) = NWorkers
<1>1. IsFiniteSet(Workers) /\ Cardinality(Workers) = NWorkers
    BY FS_Interval, SupervisorAssumption DEF Workers
<1>2. cameUp \subseteq Workers
    BY DEF Inv, TypeOK
<1> QED
    BY <1>1, <1>2, FS_Subset, FS_CardinalityType

\* Before master_done is set the countdown has reached zero, which takes as
\* many workers as there are.
LEMMA AllCameUp ==
    ASSUME Inv, ~masterDone, countDown <= 0
    PROVE  cameUp = Workers
<1>1. IsFiniteSet(Workers) /\ Cardinality(Workers) = NWorkers
    BY CameUpFinite
<1>2. cameUp \subseteq Workers
    BY DEF Inv, TypeOK
<1>3. IsFiniteSet(cameUp) /\ Cardinality(cameUp) \in Nat
    BY CameUpFinite
<1>4. Cardinality(cameUp) >= NWorkers
    BY <1>3, SupervisorAssumption DEF Inv, TypeOK, SupervisorInv, Counting
<1>5. /\ Cardinality(cameUp) <= NWorkers
      /\ Cardinality(cameUp) = NWorkers => cameUp = Workers
    BY <1>1, <1>2, FS_Subset
<1>6. Cardinality(cameUp) = NWorkers
    BY <1>3, <1>4, <1>5, SupervisorAssumption
<1> QED
    BY <1>5, <1>6

\* Registration and master_done.
LEMMA RegisterInv == ASSUME Inv, Register PROVE Inv'
<1>1. TypeOK'
    BY DEF Inv, TypeOK, Register, MasterStates
<1>2. ~masterDone /\ countDown <= 0
    BY DEF Inv, SupervisorInv, Phases, Register, Startups
<1>3. cameUp = Workers
    BY <1>2, AllCameUp
<1>4. Phases' /\ Counting'
    BY <1>3 DEF Register, Phases, Counting, Startups, Burying
<1>5. Unburied' = Unburied
    BY DEF Unburied, Register
<1>6. Forked' /\ OwnIds' /\ Buriable' /\ Known'
    BY <1>5 DEF Inv, SupervisorInv, Forked, OwnIds, Buriable, Known, AliveProcs, Register,
                Burying, Over
<1> QED
    BY <1>1, <1>4, <1>6 DEF Inv, SupervisorInv

\* Processes that are told to stop, or die, disturb nothing: they keep their
\* worker id until somebody waits for them.
LEMMA FadeInv ==
    ASSUME Inv, TypeOK',
           \A p \in Pids : \/ proc'[p] = proc[p]
                           \/ proc[p] \in Live /\ proc'[p] \in {"stopping", "failed", "exited"},
           UNCHANGED <<started, wid, cur, children, cameUp, countDown, masterDone>>,
           registered' => registered,
           mpc' = mpc \/ mpc' \in Over
    PROVE  Inv'
<1>1. Unburied' = Unburied
    BY DEF Unburied, Live, Zombie
<1>2. AliveProcs' \subseteq AliveProcs
    BY DEF AliveProcs, Live
<1>3. Phases'
    BY DEF Inv, SupervisorInv, Phases, Startups, Burying, Over
<1>4. Forked'
    BY DEF Inv, SupervisorInv, Forked, Live
<1>5. OwnIds'
    BY <1>1 DEF Inv, SupervisorInv, OwnIds
<1>6. Buriable'
    BY <1>1 DEF Inv, SupervisorInv, Buriable, Burying, Over, Live
<1>7. Known'
    BY <1>2 DEF Inv, SupervisorInv, Known, Over
<1>8. Counting'
    BY DEF Inv, SupervisorInv, Counting
<1> QED
    BY <1>3, <1>4, <1>5, <1>6, <1>7, <1>8 DEF Inv, SupervisorInv

\* init_workers_timeout_sec.
LEMMA InitTimeoutInv == ASSUME Inv, InitTimeout PROVE Inv'
<1>1. proc' \in [Pids -> Live \cup Zombie \cup {"none", "gone", "gone0"}]
    BY DEF Inv, TypeOK, InitTimeout, Live, Zombie
<1>2. TypeOK'
    BY <1>1 DEF Inv, TypeOK, InitTimeout, shared, MasterStates
<1> QED
    BY <1>2, FadeInv DEF InitTimeout, shared, Over

\* os.wait(): the process is buried, and its worker id is free.
LEMMA ReapInv == ASSUME Inv, NEW p \in Pids, Reap(p) PROVE Inv'
<1>1. TypeOK'
    <2>1. proc' \in [Pids -> Live \cup Zombie \cup {"none", "gone", "gone0"}]
        BY DEF Inv, TypeOK, Reap, Buried
    <2> QED
        BY <2>1 DEF Inv, TypeOK, Reap, shared, MasterStates
<1>2. /\ \A q \in Pids : q # p => proc'[q] = proc[q]
      /\ proc'[p] \in {"gone", "gone0"}
    BY DEF Inv, TypeOK, Reap, Buried
<1>3. p \in Unburied /\ Unburied' = Unburied \ {p}
    BY <1>2 DEF Unburied, Reap, Live, Zombie
<1>4. masterDone /\ masterDone'
    BY DEF Inv, SupervisorInv, Phases, Reap, shared
<1>5. Phases' /\ Counting'
    BY <1>4 DEF Inv, SupervisorInv, Phases, Counting, Reap, shared, Startups, Burying
<1>6. p <= started
    BY <1>3 DEF Inv, TypeOK, SupervisorInv, Forked, Unburied, Live, Zombie, Pids
<1>7. Forked'
    BY <1>2, <1>4, <1>6 DEF Inv, TypeOK, SupervisorInv, Forked, Reap, Pids
<1>8. OwnIds' /\ Buriable'
    BY <1>2, <1>3, <1>6 DEF Inv, SupervisorInv, OwnIds, Buriable, Unburied, Reap
<1>9. Known'
    BY <1>2 DEF Inv, SupervisorInv, Known, Reap, AliveProcs, Live, Over
<1> QED
    BY <1>1, <1>5, <1>7, <1>8, <1>9 DEF Inv, SupervisorInv

\* The buried process is forgotten, and its exit status looked at.
LEMMA BuryInv == ASSUME Inv, Pop \/ Decide PROVE Inv'
<1>1. TypeOK'
    BY DEF Inv, TypeOK, Pop, Decide, shared, MasterStates
<1>2. Phases' /\ Buriable'
    BY DEF Inv, SupervisorInv, Phases, Buriable, Unburied, Pop, Decide, shared, Startups, Burying
<1>3. Known'
    BY DEF Inv, SupervisorInv, Known, Buriable, Pop, Decide, AliveProcs, Live, Burying, Over
<1> QED
    BY <1>1, <1>2, <1>3, MoveInv DEF Pop, Decide, shared

-----------------------------------------------------------------------------
(* Shutdown and the workers.                                               *)

\* The handler of fork_workers only makes processes stop.
LEMMA SigtermInv == ASSUME Inv, SendSigterm \/ MasterSigterm PROVE Inv'
<1>1. CASE SendSigterm
    <2>1. TypeOK'
        BY <1>1 DEF Inv, TypeOK, SendSigterm, shared
    <2> QED
        BY <1>1, <2>1, FadeInv DEF SendSigterm, shared
<1>2. CASE MasterSigterm
    <2>1. \A p \in Pids : \/ proc'[p] = proc[p]
                          \/ proc[p] \in Live /\ proc'[p] = "stopping"
        BY <1>2 DEF MasterSigterm, Terminated, Live
    <2>2. mpc' = mpc \/ mpc' \in Over
        BY <1>2 DEF MasterSigterm, Unwound, Over
    <2>3. proc' \in [Pids -> Live \cup Zombie \cup {"none", "gone", "gone0"}]
        BY <1>2 DEF Inv, TypeOK, MasterSigterm, Terminated, Live
    <2>4. mpc' \in MasterStates
        BY <2>2 DEF Inv, TypeOK, MasterStates, Over
    <2>5. TypeOK'
        BY <1>2, <2>3, <2>4 DEF Inv, TypeOK, MasterSigterm, shared
    <2> QED
        BY <1>2, <2>1, <2>2, <2>5, FadeInv DEF MasterSigterm, shared
<1> QED
    BY <1>1, <1>2

\* A worker that stops, fails or sees the end of its pipe.
LEMMA WorkerEndsInv ==
    ASSUME Inv, NEW p \in Pids, WorkerFails(p) \/ WorkerStopped(p) \/ PipeClosed(p)
    PROVE  Inv'
<1>1. \E x \in {"failed", "exited"} : proc' = [proc EXCEPT ![p] = x]
    BY DEF WorkerFails, WorkerStopped, PipeClosed
<1>2. proc' \in [Pids -> Live \cup Zombie \cup {"none", "gone", "gone0"}]
    BY <1>1 DEF Inv, TypeOK, Zombie
<1>3. crashes' \in 0..MaxCrashes
    BY SupervisorAssumption DEF Inv, TypeOK, WorkerFails, WorkerStopped, PipeClosed
<1>4. UNCHANGED <<mpc, cur, started, wid, inherits, children, countDown, masterDone,
                  terminating, registered, sig, cameUp>>
    BY DEF WorkerFails, WorkerStopped, PipeClosed, shared
<1>5. TypeOK'
    BY <1>2, <1>3, <1>4 DEF Inv, TypeOK
<1>6. proc[p] \in Live
    BY DEF WorkerFails, WorkerStopped, PipeClosed, Live
<1>7. \A q \in Pids : \/ proc'[q] = proc[q]
                      \/ proc[q] \in Live /\ proc'[q] \in {"stopping", "failed", "exited"}
    BY <1>1, <1>6 DEF Inv, TypeOK
<1> QED
    BY <1>4, <1>5, <1>7, FadeInv

\* A worker that is up counts once: during the startup a worker id has one
\* process only, and that was not up before.
LEMMA WorkerUpInv == ASSUME Inv, NEW p \in Pids, WorkerUp(p) PROVE Inv'
<1>1. /\ \A q \in Pids : q # p => proc'[q] = proc[q]
      /\ proc[p] = "init" /\ proc'[p] = "up"
    BY DEF Inv, TypeOK, WorkerUp
<1>2. p <= started /\ wid[p] \in Workers
    BY <1>1 DEF Inv, TypeOK, SupervisorInv, Forked, Pids
<1>3. TypeOK'
    <2>1. proc' \in [Pids -> Live \cup Zombie \cup {"none", "gone", "gone0"}]
        BY DEF Inv, TypeOK, WorkerUp, Live
    <2>2. cameUp' \in SUBSET Workers /\ countDown' \in Int
        BY <1>2 DEF Inv, TypeOK, WorkerUp
    <2> QED
        BY <2>1, <2>2 DEF Inv, TypeOK, WorkerUp
<1>4. Unburied' = Unburied /\ AliveProcs' = AliveProcs
    BY <1>1 DEF Unburied, AliveProcs, Live, Zombie
<1>5. Phases'
    BY DEF Inv, TypeOK, SupervisorInv, Phases, WorkerUp
<1>6. Forked'
    BY <1>1 DEF Inv, SupervisorInv, Forked, WorkerUp
<1>7. OwnIds' /\ Known'
    BY <1>4 DEF Inv, SupervisorInv, OwnIds, Known, WorkerUp
<1>8. Buriable'
    BY <1>1, <1>4 DEF Inv, SupervisorInv, Buriable, WorkerUp
<1>9. Counting'
    <2>1. CASE masterDone
        BY <1>2, <2>1 DEF Inv, SupervisorInv, Counting, WorkerUp
    <2>2. CASE ~masterDone
        <3>1. wid[p] = p /\ p \notin cameUp /\ cameUp' = cameUp \cup {p}
            BY <1>1, <1>2, <2>2 DEF Inv, SupervisorInv, Forked, Counting, WorkerUp
        <3>2. IsFiniteSet(cameUp) /\ Cardinality(cameUp) \in Nat
            BY CameUpFinite
        <3>3. Cardinality(cameUp') = Cardinality(cameUp) + 1
            BY <3>1, <3>2, FS_AddElement
        <3>4. countDown' = NWorkers - Cardinality(cameUp')
            BY <2>2, <3>2, <3>3, SupervisorAssumption
            DEF Inv, TypeOK, SupervisorInv, Counting, WorkerUp
        <3>5. \A q \in Pids : proc'[q] \in {"none", "init"} => q \notin cameUp'
            BY <1>1, <2>2, <3>1 DEF Inv, SupervisorInv, Counting
        <3> QED
            BY <2>2, <3>4, <3>5 DEF Counting, WorkerUp
    <2> QED
        BY <2>1, <2>2
<1> QED
    BY <1>3, <1>5, <1>6, <1>7, <1>8, <1>9 DEF Inv, SupervisorInv

-----------------------------------------------------------------------------
(* The theorems.                                                           *)

\* Every step keeps the invariant.
LEMMA NextInv == Inv /\ [Next]_vars => Inv'
<1> SUFFICES ASSUME Inv, [Next]_vars PROVE Inv'
    OBVIOUS
<1>1. CASE Startup
    BY <1>1, ForkInv, RegisterChildInv, WaitInv, InitTimeoutInv, RegisterInv, EndInv DEF Startup
<1>2. CASE Supervise
    BY <1>2, ReapInv, BuryInv, RestartInv, EndInv DEF Supervise
<1>3. CASE Handler \/ SendSigterm \/ KillMaster
    BY <1>3, SigtermInv, EndInv DEF Handler
<1>4. CASE \E p \in Pids : WorkerStep(p) \/ WorkerFails(p)
    BY <1>4, WorkerUpInv, WorkerEndsInv DEF WorkerStep
<1>5. CASE UNCHANGED vars
    <2>1. TypeOK'
        BY <1>5 DEF Inv, TypeOK, vars, shared
    <2> QED
        BY <1>5, <2>1, FadeInv DEF vars, shared
<1> QED
    BY <1>1, <1>2, <1>3, <1>4, <1>5 DEF Next

\* The type invariant.
THEOREM SupervisorTypes == Spec => []TypeOK
<1>1. Inv => TypeOK
    BY DEF Inv
<1> QED
    BY InitInv, NextInv, <1>1, PTL DEF Spec

\* /status answers and consul knows the service only after every worker was up
\* once, for any number of workers and crashes (fork_workers' countdown and
\* get_current_status).
THEOREM ReadyOnlyWhenAllUp == Spec => []ReadyMeansAllUp
<1>1. Inv => ReadyMeansAllUp
    BY DEF Inv, SupervisorInv, Phases, Counting, ReadyMeansAllUp, StatusOk
<1> QED
    BY InitInv, NextInv, <1>1, PTL DEF Spec

\* A worker id never has two running processes, and the supervising master can
\* signal every running process except the one it is starting
\* (_supervise_workers and _start_child).
THEOREM WorkersUniqueAndKnown == Spec => [](OneProcessPerWorker /\ NoUnknownProcess)
<1>1. Inv => OneProcessPerWorker
    BY DEF Inv, SupervisorInv, OwnIds, Unburied, OneProcessPerWorker, AliveProcs
<1>2. Inv => NoUnknownProcess
    BY DEF Inv, SupervisorInv, Known, Over, NoUnknownProcess, AliveProcs
<1> QED
    BY InitInv, NextInv, <1>1, <1>2, PTL DEF Spec

\* The supervising master has an entry in children for every running process
\* but the one it is starting (_start_child, _supervise_workers).
COROLLARY AllProcessesKnown == Spec => []NoUnknownProcess
BY WorkersUniqueAndKnown, PTL

=============================================================================
