----------------------------- MODULE LogLevels ------------------------------
(***************************************************************************)
(* Loggers, their handlers, and the overrides of their levels that a       *)
(* worker fetches periodically (frontik.loggers, logleveloverride).        *)
(***************************************************************************)
EXTENDS Naturals, Sequences, FiniteSets, FiniteSetsExt

CONSTANTS
    Loggers,       \* names of loggers, Root among them
    Root,
    Line,          \* Line[l]: l and the loggers above it, up to Root: a sequence
    Core,          \* loggers bootstrapped at start besides Root: server, requests
    Late,          \* loggers that an integration bootstraps: gc_stat, slow_tasks
    Suppressed,    \* options.suppressed_loggers
    Outputs,       \* the outputs that are configured, of file, stderr, syslog: a sequence
    DebugPage,     \* the output of DebugLogHandler
    LogLevel,      \* options.log_level
    Feeds,         \* the overrides that may be served: functions from loggers to names
    MaxBootstraps  \* bound: how often an integration bootstraps its logger

NOTSET == 0
INFO == 20
WARNING == 30
Levels == {10, INFO, WARNING, 40}
Out == {Outputs[i] : i \in 1..Len(Outputs)}

ASSUME LoggersAssumption ==
    /\ Root \in Loggers \ Late
    /\ Line \in [Loggers -> Seq(Loggers)]
    /\ \A l \in Loggers : Line[l] # <<>> /\ Line[l][1] = l /\ Line[l][Len(Line[l])] = Root
    /\ Core \subseteq Loggers \ Late
    /\ Late \subseteq Loggers
    /\ Outputs \in Seq(Out)
    /\ LogLevel \in Levels
    /\ \A ov \in Feeds : DOMAIN ov \subseteq Loggers

VARIABLES
    level,      \* level of each logger; NOTSET leaves the decision to its parent
    handlers,   \* handlers of each logger, each with its output and its level
    propagate,  \* whether records go on to the parent's handlers
    store,      \* LoggingConfiguratorClient._loggers_store
    wanted,     \* history: the overrides last fetched
    boots       \* history: bootstraps of each late logger

vars == <<level, handlers, propagate, store, wanted, boots>>

LOG_LEVEL_MAPPING == [TRACE |-> 10, DEBUG |-> 10, INFO |-> INFO, WARN |-> WARNING, ERROR |-> 40]

\* LOG_LEVEL_MAPPING.get(name, logging.INFO)
LevelOf(name) ==
    IF name \in DOMAIN LOG_LEVEL_MAPPING THEN LOG_LEVEL_MAPPING[name] ELSE INFO

Empty == [l \in {} |-> NOTSET]

(***************************************************************************)
(* Bootstrap                                                               *)
(***************************************************************************)
\* The handlers bootstrap_logger adds; DebugLogHandler keeps level NOTSET.
OwnHandlers(lvl) ==
    [i \in 1..Len(Outputs) |-> [out |-> Outputs[i], lvl |-> lvl]]
        \o <<[out |-> DebugPage, lvl |-> NOTSET]>>

\* bootstrap_core_logging
Init ==
    /\ level = [l \in Loggers |-> IF l \in Suppressed THEN WARNING ELSE NOTSET]
    /\ handlers = [l \in Loggers |->
                      IF l \in Core \cup {Root} THEN OwnHandlers(LogLevel) ELSE <<>>]
    /\ propagate = [l \in Loggers |-> l \notin Core \cup {Root}]
    /\ store = Empty
    /\ wanted = Empty
    /\ boots = [l \in Late |-> 0]

\* bootstrap_logger by an integration: in the master before the fork and once
\* more in the worker, which has inherited the logger.
Bootstrap(l) ==
    /\ boots[l] < MaxBootstraps
    /\ handlers' = [handlers EXCEPT ![l] = @ \o OwnHandlers(WARNING)]
    /\ propagate' = [propagate EXCEPT ![l] = FALSE]
    /\ boots' = [boots EXCEPT ![l] = @ + 1]
    /\ UNCHANGED <<level, store, wanted>>

(***************************************************************************)
(* Overrides                                                               *)
(***************************************************************************)
AtLevel(hs, lvl) == [i \in 1..Len(hs) |-> [out |-> hs[i].out, lvl |-> lvl]]

\* A wrong form: the handlers keep the level of the override.
ResetHandlersNot(l) == handlers[l]

\* _reset_log_level: what it does to the handlers of l.
ResetHandlers(l) == AtLevel(handlers[l], LogLevel)

\* A wrong form: the handlers of the root are copied every time.
OverrideHandlersAgain(l, lvl) == AtLevel(handlers[l] \o handlers[Root], lvl)

\* What an override does to the handlers of l: one that has none gets copies
\* of the root's.
OverrideHandlers(l, lvl) ==
    AtLevel(IF handlers[l] # <<>> THEN handlers[l] ELSE handlers[Root], lvl)

\* A wrong form: an override that is known by name is passed over.
NewOverridesByName(new) == DOMAIN new \ DOMAIN store

\* The overrides that are not in force yet.
NewOverrides(new) == {l \in DOMAIN new : l \notin DOMAIN store \/ store[l] # new[l]}

\* _loggers_store afterwards: the overrides in force, those gone are deleted.
Remembered(new) == new

\* _update_log_level with the overrides the extension has parsed; those that
\* are no longer there are rolled back first.
Update(ov) ==
    LET new == [l \in DOMAIN ov |-> LevelOf(ov[l])]
        gone == DOMAIN store \ DOMAIN new
        changed == NewOverrides(new)
    IN  /\ level' = [l \in Loggers |-> IF l \in gone THEN LogLevel
                                       ELSE IF l \in changed THEN new[l]
                                       ELSE level[l]]
        /\ handlers' = [l \in Loggers |-> IF l \in gone THEN ResetHandlers(l)
                                          ELSE IF l \in changed THEN OverrideHandlers(l, new[l])
                                          ELSE handlers[l]]
        /\ store' = Remembered(new)
        /\ wanted' = new
        /\ UNCHANGED <<propagate, boots>>

Next ==
    \/ \E l \in Late : Bootstrap(l)
    \/ \E ov \in Feeds : Update(ov)

Spec == Init /\ [][Next]_vars

(***************************************************************************)
(* Where a record goes (the logging library)                               *)
(***************************************************************************)
Above(l) == {Line[l][i] : i \in DOMAIN Line[l]}

\* The level of the first logger upwards that has one.
EffectiveLevel(l) ==
    LET having == {i \in DOMAIN Line[l] : level[Line[l][i]] # NOTSET}
    IN IF having = {} THEN NOTSET ELSE level[Line[l][Min(having)]]

\* The loggers whose handlers see a record of l.
Chain(l) ==
    {Line[l][i] : i \in {j \in DOMAIN Line[l] : \A k \in 1..(j - 1) : propagate[Line[l][k]]}}

\* The handlers that write a record of l at level n to output o.
Writers(l, n, o) ==
    IF n < EffectiveLevel(l) THEN {}
    ELSE {w \in UNION {{k} \X DOMAIN handlers[k] : k \in Chain(l)} :
             LET h == handlers[w[1]][w[2]] IN h.out = o /\ h.lvl <= n}

(***************************************************************************)
(* Properties                                                              *)
(***************************************************************************)
Handler == [out : Out \cup {DebugPage}, lvl : {NOTSET} \cup Levels]

\* The types; what the store remembers of a logger is the level it has.
TypeOK ==
    /\ level \in [Loggers -> {NOTSET} \cup Levels]
    /\ handlers \in [Loggers -> Seq(Handler)]
    /\ propagate \in [Loggers -> BOOLEAN]
    /\ DOMAIN store \subseteq Loggers
    /\ \A l \in DOMAIN store : store[l] = level[l]

\* An override that was fetched is in force: the records of the logger from
\* that level on are written, and none below it.
OverrideInForce ==
    \A l \in DOMAIN wanted, n \in Levels, o \in Out :
        (Writers(l, n, o) # {}) <=> n >= wanted[l]

\* After any overrides and rollbacks, a logger without an override (on itself
\* or above it) still writes every record from options.log_level on; loggers
\* that are suppressed or bootstrapped with a level of their own, and those
\* below them, are another matter.
NothingLost ==
    \A l \in Loggers, n \in Levels, o \in Out :
        /\ Above(l) \cap (DOMAIN wanted \cup Suppressed \cup Late) = {}
        /\ n >= LogLevel
        => Writers(l, n, o) # {}

\* However often a logger is overridden and rolled back, copies of the root's
\* handlers are added to it once (test_level_with_handlers).
CopiesAddedOnce ==
    \A l \in Loggers \ Late : Len(handlers[l]) <= Len(Outputs) + 1

\* docs/logging.md: options.log_level is put into the handlers, not into the
\* loggers; so a logger without an override has the level it started with.
LogLevelNotInLoggers ==
    \A l \in Loggers \ DOMAIN wanted :
        level[l] = IF l \in Suppressed THEN WARNING ELSE NOTSET
=============================================================================
