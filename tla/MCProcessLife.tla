--------------------------- MODULE MCProcessLife ----------------------------
(* An instance of ProcessLife for TLC.                                      *)
EXTENDS ProcessLife

Setting(cmd, env, named, files, app_class, fail_on_empty) ==
    [cmd |-> cmd, env |-> env, named |-> named, files |-> files, app_class |-> app_class,
     fail_on_empty |-> fail_on_empty]

\* Every way to name the host and to fail, with and without the check.
MCSettings ==
    {Setting(cmd, env, named, <<>>, "found", TRUE) :
        cmd \in {<<>>, <<"bare">>, <<"unknown", "a", "--", "x">>}, env \in {None, "b"},
        named \in {<<>>, <<"c">>}}
    \cup {Setting(<<>>, None, <<>>, <<"d", None>>, app_class, FALSE) :
        app_class \in {"found", "broken", None}}
=============================================================================
