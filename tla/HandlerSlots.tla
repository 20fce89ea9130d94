----------------------------- MODULE HandlerSlots -----------------------------
(***************************************************************************)
(* A number of slots for requests, without the tasks, sockets and callbacks *)
(* that hand them out: a request is admitted or refused once, by whether a  *)
(* slot is free at that moment, and a holder keeps its one slot until it    *)
(* leaves for good.  How many slots a worker has is not said here: that is  *)
(* for the one who instantiates the module.                                 *)
(***************************************************************************)
EXTENDS Naturals, FiniteSets

CONSTANTS Requests, Capacity

VARIABLE slot

Holders == {r \in Requests : slot[r] = "held"}

Init == slot = [r \in Requests |-> "waiting"]

\* The request's handler may run: ActiveHandlersLimit acquired a slot.
Admit(r) ==
    /\ slot[r] = "waiting"
    /\ Cardinality(Holders) < Capacity
    /\ slot' = [slot EXCEPT ![r] = "held"]

\* The request is answered 503 without running its handler.
Refuse(r) ==
    /\ slot[r] = "waiting"
    /\ Cardinality(Holders) >= Capacity
    /\ slot' = [slot EXCEPT ![r] = "refused"]

\* The request is over, whatever its outcome.
Leave(r) ==
    /\ slot[r] \in {"held", "refused"}
    /\ slot' = [slot EXCEPT ![r] = "left"]

Next == \E r \in Requests : Admit(r) \/ Refuse(r) \/ Leave(r)

Spec == Init /\ [][Next]_slot

=============================================================================
