---------------------------- MODULE MCLogBridge ----------------------------
(* Small instances of LogBridge. *)
EXTENDS LogBridge, TLC

CONSTANTS c1, c2

MCClients2 == {c1, c2}
=============================================================================
