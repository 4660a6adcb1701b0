----------------------------- MODULE MCProcQueue ----------------------------
(* An entry goes on each of its queues with the first link it has left, so  *)
(* the entries of one queue are there with different links.                 *)
EXTENDS ProcQueueInv

CONSTANTS RQ, s1

AnySlotOf == [k \in Queue |-> Any]
=============================================================================
