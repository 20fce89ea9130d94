----------------------------- MODULE MCUpstreams -----------------------------
(* Instances of UpstreamSync for TLC: sources that feed one upstream, and  *)
(* sources that feed one each.                                             *)
EXTENDS UpstreamSync

CONSTANTS a, b

TwoSources == {a, b}
OneSource == {a}
SameKey == [s \in Sources |-> 1]
OwnKeys == [s \in Sources |-> IF s = a THEN 1 ELSE 2]

=============================================================================
