------------------------------- MODULE MCPipe -------------------------------
(* SharedDataPipe for TLC: the data grows, and shrinks by two headers, the *)
(* most that the resend thread makes good.                                 *)
EXTENDS SharedDataPipe, TLC

MCSize == <<3, 7, 3>> @@ (0 :> 3)
=============================================================================
