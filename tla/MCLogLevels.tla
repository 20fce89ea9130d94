---------------------------- MODULE MCLogLevels -----------------------------
(* An instance of LogLevels for TLC: a logger without handlers and one      *)
(* below it, one that has its own, one that an integration bootstraps.      *)
EXTENDS LogLevels

MCLoggers == {"root", "app", "app.db", "server", "gc_stat"}
MCLine == [l \in MCLoggers |-> IF l = "root" THEN <<l>>
                               ELSE IF l = "app.db" THEN <<l, "app", "root">>
                               ELSE <<l, "root">>]
MCFeeds == UNION {[S -> {"DEBUG", "ERROR", "unknown"}] :
                      S \in {T \in SUBSET MCLoggers : Cardinality(T) <= 2}}
MCOutputs == <<"file">>
=============================================================================
