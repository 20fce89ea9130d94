------------------------------ MODULE MCRoutes ------------------------------
(* DevRoutes for TLC: three pages that overlap, with variants.             *)
EXTENDS DevRoutes

api(path, methods) == [kind |-> "api", path |-> path, methods |-> methods]
MCPaths == {<<"">>, <<"a", "b">>, <<"a", "c", "">>}
MCMethods == {"GET", "POST", "HEAD", "OPTIONS"}
MCPages == <<"p1", "p2", "p3">>
MCOwnRouter == {"p2"}
MCBuiltin == <<api(<<"s">>, {"GET"})>>
MCDecls == [p1 |-> <<<<api(<<"a", "{}">>, {"GET"})>>,
                     <<api(<<"a", "{}">>, {"POST"}), api(<<"{}", "{}">>, {"GET"})>>>>,
            p2 |-> <<<<api(<<"a", "b", "">>, {"GET"})>>,
                     <<>>,
                     <<api(<<"{}", "b">>, {"HEAD"}), api(<<"">>, {"GET", "POST"})>>>>,
            p3 |-> <<<<api(<<"x", "{}">>, {"OPTIONS"})>>,
                     <<[kind |-> "mount", path |-> <<"a">>, methods |-> {}]>>>>]
=============================================================================
