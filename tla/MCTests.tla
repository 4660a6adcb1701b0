------------------------------ MODULE MCTests -------------------------------
(* The test programs, with the semaphores and the vectors they use.        *)
EXTENDS TestPrograms, NucleusInv

(* The vectors that the programs of a suite pass to SYS3.                   *)
VectorsOf(texts) ==
  UNION {{texts[f][k][2] : k \in {j \in DOMAIN texts[f] : texts[f][j][1] = "semop"}} : f \in DOMAIN texts}

MCVectors == UNION {VectorsOf(s) : s \in {Suites[n] : n \in DOMAIN Suites}}
MCSem     == UNION {{v[j].sem : j \in DOMAIN v} : v \in MCVectors}
MCInitVal == [s \in MCSem |-> IF s \in {"pr_mut", "blkp4"} THEN 1 ELSE 0]
=============================================================================
