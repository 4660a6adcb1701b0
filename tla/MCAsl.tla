-------------------------------- MODULE MCAsl --------------------------------
(* One address more than there are descriptors, which two processes on two  *)
(* queues each can use up.                                                  *)
EXTENDS Asl, TLC

Symmetric == Permutations(Proc)
=============================================================================
