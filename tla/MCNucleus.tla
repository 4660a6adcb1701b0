----------------------------- MODULE MCNucleus ------------------------------
(* Small instances of the nucleus for TLC: the vectors of MCVectors keep to *)
(* SingleP, those of ManyVectors to POnce alone; Symmetric is for runs     *)
(* that check no liveness.                                                 *)
EXTENDS NucleusInv, TLC

CONSTANTS p1, p2, p3, s1, s2, d1

P(s) == [op |-> LOCK, sem |-> s]
V(s) == [op |-> UNLOCK, sem |-> s]

MCVectors == {<<P(s1)>>, <<V(s2), P(s1)>>, <<P(s2), V(s1)>>}
ManyVectors == {<<P(s1), P(s2)>>, <<P(s1)>>, <<V(s1)>>, <<V(s2), P(s1)>>}
PClockVectors == {<<P(s1)>>, <<V(s1)>>}
MCInitVal == [s \in Sem |-> IF s = s1 THEN 1 ELSE 0]

Symmetric == Permutations(Proc \ {Root})
=============================================================================
