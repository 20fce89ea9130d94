----------------------------- MODULE MCOutgoing -----------------------------
(* An instance of OutgoingRequests for TLC: a plain client, one in a hurry, *)
(* and clients that ask for debug with right and wrong credentials.         *)
EXTENDS OutgoingRequests

Client(rid, outer, deadline, debug, notpl, direct, basic) ==
    [rid |-> rid, outer |-> outer, deadline |-> deadline, debug |-> debug, notpl |-> notpl,
     inherited |-> FALSE, cred |-> [direct |-> direct, basic |-> basic]]

MCClients ==
    {Client(Absent, Absent, Absent, None, FALSE, None, Good),
     Client(101, 2, 1, "on", FALSE, Good, None),
     Client(102, 2, Absent, None, TRUE, "bad", Good)}

Service(decrease, debug, access) ==
    [decrease |-> decrease, debug |-> debug, access |-> access]

MCServices ==
    {Service(TRUE, FALSE, "ask"), Service(FALSE, TRUE, "ask")}
=============================================================================
