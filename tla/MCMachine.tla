----------------------------- MODULE MCMachine ------------------------------
(* A small instance of the machine with arbitrary programs.                *)
EXTENDS Machine

CONSTANTS p1, p2, s1, d1

MCVectors == {<<[op |-> LOCK, sem |-> s1]>>, <<[op |-> UNLOCK, sem |-> s1]>>}
MCInitVal == [s \in Sem |-> 0]
=============================================================================
