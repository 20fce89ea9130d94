------------------------------ MODULE MCServing ------------------------------
(* Instances of RequestServing for TLC: two requests that compete for a    *)
(* slot, one with a body and one without.                                  *)
EXTENDS RequestServing

CONSTANTS r1, r2

TwoRequests == {r1, r2}
OneBody == [r \in Requests |-> IF r = r1 THEN 1 ELSE 0]

=============================================================================
