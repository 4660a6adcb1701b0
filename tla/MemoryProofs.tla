---------------------------- MODULE MemoryProofs ----------------------------
(***************************************************************************)
(* No frame has two owners, and no more than MAXFRAMES are handed out, for *)
(* any number of processes, pages and frames: sem_mm keeps one process at  *)
(* a time between the read of pf_ctr and its increment, sem_pf has as many *)
(* units as there are frames that nobody has reserved.                     *)
(***************************************************************************)
EXTENDS Memory, FifoProofs, FiniteSetTheorems, TLAPS

USE DEF Label

(* The processes that hold sem_mm. *)
Critical == {t \in Proc : /\ pc[t] \in {"read", "count", "leave", "map", "unlock"}
                          /\ t \notin q[sem_mm].mem}

(* The processes for which a frame is reserved that is not counted yet. *)
Reserved == {t \in Proc : \/ pc[t] = "enter" /\ t \notin q[sem_pf].mem
                          \/ pc[t] \in {"read", "count"}}

Queues == \A s \in Semaphore : Ordered(q[s])

WhereTheyWait ==
  /\ \A t \in q[sem_pf].mem : pc[t] = "enter"
  /\ \A t \in q[sem_mm].mem : pc[t] \in {"read", "map"}

OneHolder ==
  \/ val[sem_mm] = 1 /\ q[sem_mm].mem = {} /\ Critical = {}
  \/ /\ val[sem_mm] = 0 - Cardinality(q[sem_mm].mem)
     /\ \E t \in Proc : Critical = {t}

FramesLeft == pf_ctr + Cardinality(Reserved) + (IF val[sem_pf] > 0 THEN val[sem_pf] ELSE 0)
                = MAXFRAMES

(* A frame that has been counted is below the counter, one that is being    *)
(* counted is the counter.                                                  *)
BelowCounter ==
  /\ \A x \in Desc : pt[x] # None => pt[x] < pf_ctr
  /\ \A t \in Proc : pc[t] \in {"leave", "lock", "map"} => frame[t] < pf_ctr
  /\ \A t \in Proc : pc[t] = "count" => frame[t] = pf_ctr

MemInv == /\ TypeOK /\ Queues /\ WhereTheyWait /\ OneHolder
          /\ FramesLeft /\ BelowCounter /\ OneOwner

-----------------------------------------------------------------------------
(* The semaphores.                                                         *)

(* There are MAXTPROC processes. *)
LEMMA ProcFinite == IsFiniteSet(Proc)
PROOF BY FS_Interval, ProcAssumption

(* P: a process that blocks is on the queue of s, and nothing else changes. *)
LEMMA PStep ==
  ASSUME TypeOK, Queues, NEW s \in Semaphore, NEW t \in Proc, t \notin q[s].mem, P(s, t)
  PROVE  /\ val' \in [Semaphore -> Int] /\ q' \in [Semaphore -> Fifo] /\ Queues'
         /\ val'[s] = val[s] - 1
         /\ \A r \in Semaphore : r # s => val'[r] = val[r] /\ q'[r] = q[r]
         /\ val[s] > 0 => q' = q
         /\ val[s] <= 0 => q'[s].mem = q[s].mem \cup {t}
PROOF
<1> USE DEF TypeOK
<1>1. val' \in [Semaphore -> Int] /\ val'[s] = val[s] - 1
      /\ \A r \in Semaphore : r # s => val'[r] = val[r]
  BY DEF P
<1>2. q[s] \in Fifo /\ Ordered(q[s])
  BY DEF Queues
<1>3. Insert(q[s], t) \in Fifo /\ Ordered(Insert(q[s], t)) /\ Insert(q[s], t).mem = q[s].mem \cup {t}
  BY <1>2, InsertOrdered, ProcFinite
<1>4. CASE val[s] > 0
  <2>1. q' = q
    BY <1>4 DEF P
  <2> QED BY <1>1, <1>4, <2>1 DEF Queues
<1>5. CASE ~(val[s] > 0)
  <2>1. q' = [q EXCEPT ![s] = Insert(@, t)]
    BY <1>5 DEF P
  <2>2. q'[s] = Insert(q[s], t) /\ \A r \in Semaphore : r # s => q'[r] = q[r]
    BY <2>1
  <2>3. q' \in [Semaphore -> Fifo]
    BY <2>1, <1>3
  <2>4. Queues'
    BY <2>2, <1>3 DEF Queues
  <2> QED BY <1>1, <1>3, <1>5, <2>2, <2>3, <2>4
<1> QED BY <1>4, <1>5

(* V: if somebody waits, one process leaves the queue of s. *)
LEMMA VStep ==
  ASSUME TypeOK, Queues, NEW s \in Semaphore, V(s), val[s] < 0 => q[s].mem # {}
  PROVE  /\ val' \in [Semaphore -> Int] /\ q' \in [Semaphore -> Fifo] /\ Queues'
         /\ val'[s] = val[s] + 1
         /\ \A r \in Semaphore : r # s => val'[r] = val[r] /\ q'[r] = q[r]
         /\ val[s] >= 0 => q' = q
         /\ val[s] < 0 => \E u \in q[s].mem : q'[s].mem = q[s].mem \ {u}
PROOF
<1> USE DEF TypeOK
<1>1. val' \in [Semaphore -> Int] /\ val'[s] = val[s] + 1
      /\ \A r \in Semaphore : r # s => val'[r] = val[r]
  BY DEF V
<1>2. q[s] \in Fifo /\ Ordered(q[s])
  BY DEF Queues
<1>3. CASE val[s] >= 0
  <2>1. q' = q
    BY <1>3, val[s] \in Int DEF V
  <2> QED BY <1>1, <1>3, <2>1 DEF Queues
<1>4. CASE ~(val[s] >= 0)
  <2> DEFINE u == Front(q[s])
  <2>0. val[s] < 0
    BY <1>4, val[s] \in Int
  <2>1. u \in q[s].mem
    BY <1>2, <2>0, FrontExists, ProcFinite
  <2>2. /\ Remove(q[s], {u}) \in Fifo /\ Ordered(Remove(q[s], {u}))
        /\ Remove(q[s], {u}).mem = q[s].mem \ {u}
    BY <1>2, RemoveOrdered
  <2>3. q' = [q EXCEPT ![s] = Remove(q[s], {u})]
    BY <2>0 DEF V
  <2>4. q'[s] = Remove(q[s], {u}) /\ \A r \in Semaphore : r # s => q'[r] = q[r]
    BY <2>3
  <2>5. q' \in [Semaphore -> Fifo]
    BY <2>3, <2>2
  <2>6. Queues'
    BY <2>4, <2>2 DEF Queues
  <2>7. q'[s].mem = q[s].mem \ {u}
    BY <2>4, <2>2
  <2>8. \E w \in q[s].mem : q'[s].mem = q[s].mem \ {w}
    BY <2>1, <2>7
  <2> HIDE DEF u
  <2> QED BY <1>1, <1>4, <2>0, <2>4, <2>5, <2>6, <2>8
<1> QED BY <1>3, <1>4

-----------------------------------------------------------------------------
(* The invariant.                                                          *)

(* A process at a step is on no queue. *)
LEMMA WaitFacts ==
  ASSUME NEW t \in Proc, NEW l, At(t, l)
  PROVE  pc[t] = l /\ t \notin q[sem_mm].mem /\ t \notin q[sem_pf].mem
PROOF BY DEF At, Waits, Semaphore

(* The lock is kept by a step that does not touch it. *)
LEMMA LockKept ==
  ASSUME OneHolder, Critical' = Critical, val'[sem_mm] = val[sem_mm], q'[sem_mm] = q[sem_mm]
  PROVE  OneHolder'
PROOF BY DEF OneHolder

(* The sets that are counted are finite. *)
LEMMA FiniteParts ==
  ASSUME TypeOK
  PROVE  /\ IsFiniteSet(Reserved) /\ IsFiniteSet(q[sem_mm].mem) /\ IsFiniteSet(q[sem_pf].mem)
         /\ Cardinality(Reserved) \in Nat /\ Cardinality(q[sem_mm].mem) \in Nat
         /\ q[sem_mm].mem \subseteq Proc /\ q[sem_pf].mem \subseteq Proc
PROOF
<1>1. q[sem_mm].mem \subseteq Proc /\ q[sem_pf].mem \subseteq Proc
  BY DEF TypeOK, Fifo, Semaphore
<1>2. Reserved \subseteq Proc
  BY DEF Reserved
<1>3. IsFiniteSet(Reserved) /\ IsFiniteSet(q[sem_mm].mem) /\ IsFiniteSet(q[sem_pf].mem)
  BY <1>1, <1>2, ProcFinite, FS_Subset
<1> QED BY <1>1, <1>3, FS_CardinalityType

(* A P of sem_mm by a process that does not hold it. *)
LEMMA LockP ==
  ASSUME MemInv, NEW t \in Proc, NEW l, NEW m \in {"read", "map"},
         At(t, l), l \notin {"read", "count", "leave", "map", "unlock"},
         P(sem_mm, t), pc' = [pc EXCEPT ![t] = m]
  PROVE  OneHolder'
PROOF
<1>1. pc[t] = l /\ t \notin q[sem_mm].mem /\ sem_mm \in Semaphore
  BY WaitFacts DEF Semaphore
<1>2. /\ val'[sem_mm] = val[sem_mm] - 1
      /\ val[sem_mm] > 0 => q' = q
      /\ val[sem_mm] <= 0 => q'[sem_mm].mem = q[sem_mm].mem \cup {t}
  BY <1>1, PStep DEF MemInv
<1>3. pc'[t] = m /\ \A u \in Proc : u # t => pc'[u] = pc[u]
  BY DEF MemInv, TypeOK
<1>4. CASE val[sem_mm] = 1 /\ q[sem_mm].mem = {} /\ Critical = {}
  <2>1. q'[sem_mm].mem = {} /\ val'[sem_mm] = 0
    BY <1>2, <1>4
  <2>2. Critical' = {t}
    BY <1>3, <1>4, <2>1 DEF Critical
  <2> QED BY <2>1, <2>2, FS_EmptySet DEF OneHolder
<1>5. CASE /\ val[sem_mm] = 0 - Cardinality(q[sem_mm].mem)
           /\ \E u \in Proc : Critical = {u}
  <2>1. Cardinality(q[sem_mm].mem) \in Nat /\ IsFiniteSet(q[sem_mm].mem)
    BY FiniteParts DEF MemInv
  <2>2. q'[sem_mm].mem = q[sem_mm].mem \cup {t}
    BY <1>2, <1>5, <2>1
  <2>3. Cardinality(q'[sem_mm].mem) = Cardinality(q[sem_mm].mem) + 1
    <3>1. Cardinality(q[sem_mm].mem \cup {t}) = Cardinality(q[sem_mm].mem) + 1
      BY <1>1, <2>1, FS_AddElement
    <3> QED BY <2>2, <3>1
  <2>4. Critical' = Critical
    BY <1>1, <1>3, <2>2 DEF Critical
  <2>5. val'[sem_mm] = 0 - Cardinality(q'[sem_mm].mem)
    BY <1>2, <1>5, <2>1, <2>3
  <2> QED BY <1>5, <2>4, <2>5 DEF OneHolder
<1> QED BY <1>4, <1>5 DEF MemInv, OneHolder

(* A V of sem_mm by its holder. *)
LEMMA LockV ==
  ASSUME MemInv, NEW t \in Proc, NEW l \in {"leave", "unlock"}, NEW m \in {"lock", "user"},
         At(t, l), V(sem_mm), pc' = [pc EXCEPT ![t] = m]
  PROVE  /\ OneHolder'
         /\ val[sem_mm] < 0 => q[sem_mm].mem # {}
PROOF
<1>1. pc[t] = l /\ t \notin q[sem_mm].mem /\ sem_mm \in Semaphore
  BY WaitFacts DEF Semaphore
<1>2. t \in Critical
  BY <1>1 DEF Critical
<1>3. val[sem_mm] = 0 - Cardinality(q[sem_mm].mem) /\ Critical = {t}
  BY <1>2 DEF MemInv, OneHolder
<1>4. Cardinality(q[sem_mm].mem) \in Nat /\ IsFiniteSet(q[sem_mm].mem)
      /\ q[sem_mm].mem \subseteq Proc
  BY FiniteParts DEF MemInv
<1>5. val[sem_mm] < 0 => q[sem_mm].mem # {}
  BY <1>3, FS_EmptySet
<1>6. /\ val'[sem_mm] = val[sem_mm] + 1
      /\ val[sem_mm] >= 0 => q' = q
      /\ val[sem_mm] < 0 => \E u \in q[sem_mm].mem : q'[sem_mm].mem = q[sem_mm].mem \ {u}
  BY <1>1, <1>5, VStep DEF MemInv
<1>7. pc'[t] = m /\ \A u \in Proc : u # t => pc'[u] = pc[u]
  BY DEF MemInv, TypeOK
<1>8. CASE val[sem_mm] >= 0
  <2>1. Cardinality(q[sem_mm].mem) = 0
    BY <1>3, <1>4, <1>8
  <2>2. q[sem_mm].mem = {}
    BY <1>4, <2>1, FS_EmptySet
  <2>3. Critical' = {}
    BY <1>3, <1>6, <1>7, <1>8 DEF Critical
  <2> QED BY <1>3, <1>5, <1>6, <1>8, <2>1, <2>2, <2>3 DEF OneHolder
<1>9. CASE ~(val[sem_mm] >= 0)
  <2>0. val[sem_mm] < 0
    BY <1>3, <1>4, <1>9
  <2>1. PICK u \in q[sem_mm].mem : q'[sem_mm].mem = q[sem_mm].mem \ {u}
    BY <1>6, <2>0
  <2>2. Cardinality(q'[sem_mm].mem) = Cardinality(q[sem_mm].mem) - 1
    <3>1. Cardinality(q[sem_mm].mem \ {u}) = Cardinality(q[sem_mm].mem) - 1
      BY <1>4, FS_RemoveElement
    <3> QED BY <2>1, <3>1
  <2>3. u \in Proc /\ u # t /\ pc[u] \in {"read", "map"}
    BY <1>1, <1>4, <2>1 DEF MemInv, WhereTheyWait
  <2>4. Critical' = {u}
    <3>1. \A r \in Proc : r \in Critical' => r = u
      BY <1>3, <1>7, <2>1 DEF Critical
    <3>2. u \in Critical'
      BY <1>7, <2>1, <2>3 DEF Critical
    <3> QED BY <3>1, <3>2 DEF Critical
  <2>5. val'[sem_mm] = 0 - Cardinality(q'[sem_mm].mem)
    BY <1>3, <1>4, <1>6, <2>2
  <2> QED BY <1>5, <2>3, <2>4, <2>5 DEF OneHolder
<1> QED BY <1>8, <1>9

(* The frames of the bootcode are 0 to MAXTPROC - 1, one for each process.  *)
LEMMA InitInv == Init => MemInv
PROOF
<1> SUFFICES ASSUME Init PROVE MemInv
  OBVIOUS
<1> USE DEF Init
<1>1. /\ EmptyFifo \in Fifo /\ Ordered(EmptyFifo) /\ EmptyFifo.mem = {}
      /\ \A s \in Semaphore : q[s] = EmptyFifo
  BY EmptyFifoOrdered
<1>2. MAXTPROC \in Nat /\ MAXFRAMES \in Nat /\ MAXTPROC <= MAXFRAMES /\ Proc = 1 .. MAXTPROC
  BY ProcAssumption, FrameAssumption
<1>3. \A t \in Proc : t - 1 \in Frame /\ t - 1 < MAXTPROC
  BY <1>2 DEF Frame
<1>4. \A t \in Proc : <<t, Boot>> \in Desc
  BY PageAssumption DEF Desc
<1>5. \A x \in Desc : \/ pt[x] = None
                      \/ \E t \in Proc : x = <<t, Boot>> /\ pt[x] = t - 1
  <2> SUFFICES ASSUME NEW x \in Desc, pt[x] # None
               PROVE  \E t \in Proc : x = <<t, Boot>> /\ pt[x] = t - 1
    OBVIOUS
  <2>1. pt[x] = IF \E t \in Proc : x = <<t, Boot>> THEN x[1] - 1 ELSE None
    OBVIOUS
  <2>2. PICK t \in Proc : x = <<t, Boot>>
    BY <2>1
  <2> QED BY <2>1, <2>2
<1>6. TypeOK
  <2>1. pt \in [Desc -> Frame \cup {None}]
    <3>1. \A x \in Desc : pt[x] \in Frame \cup {None}
      BY <1>3, <1>5
    <3>2. pt = [x \in Desc |-> IF \E t \in Proc : x = <<t, Boot>> THEN x[1] - 1 ELSE None]
      OBVIOUS
    <3>3. pt = [x \in Desc |-> pt[x]]
      BY <3>2
    <3> QED BY <3>1, <3>3
  <2>2. \A t \in Proc : 0 \in Frame
    BY <1>2 DEF Frame
  <2>3. val \in [Semaphore -> Int]
    BY <1>2
  <2>4. q \in [Semaphore -> Fifo]
    BY <1>1
  <2>5. page \in [Proc -> Desc] /\ frame \in [Proc -> Frame]
    BY <1>4, <2>2
  <2>6. pf_ctr \in 0 .. MAXFRAMES
    BY <1>2
  <2>7. pc \in [Proc -> Label]
    OBVIOUS
  <2> QED BY <2>1, <2>3, <2>4, <2>5, <2>6, <2>7 DEF TypeOK
<1>7. sem_mm \in Semaphore /\ sem_pf \in Semaphore /\ sem_mm # sem_pf
  BY NameAssumption DEF Semaphore
<1>8. Queues /\ WhereTheyWait
  BY <1>1, <1>7 DEF Queues, WhereTheyWait
<1>9. OneHolder
  BY <1>1, <1>7 DEF OneHolder, Critical
<1>10. FramesLeft
  <2>1. Reserved = {}
    BY DEF Reserved
  <2>2. val[sem_pf] = MAXFRAMES - MAXTPROC
    BY <1>7
  <2> QED BY <1>2, <2>1, <2>2, FS_EmptySet DEF FramesLeft
<1>11. BelowCounter
  BY <1>3, <1>5 DEF BelowCounter
<1>12. OneOwner
  <2>1. \A t \in Proc : ~Taken(t)
    BY DEF Taken
  <2>2. ASSUME NEW x \in Desc, NEW y \in Desc, pt[x] # None, pt[x] = pt[y]
        PROVE  x = y
    <3>1. PICK t \in Proc : x = <<t, Boot>> /\ pt[x] = t - 1
      BY <1>5, <2>2
    <3>2. PICK u \in Proc : y = <<u, Boot>> /\ pt[y] = u - 1
      BY <1>5, <2>2
    <3>3. t = u
      BY <1>2, <2>2, <3>1, <3>2
    <3> QED BY <3>1, <3>2, <3>3
  <2> QED BY <2>1, <2>2 DEF OneOwner
<1> QED BY <1>6, <1>8, <1>9, <1>10, <1>11, <1>12 DEF MemInv

(* The process of a step, and the others. *)
LEMMA StepFacts ==
  ASSUME MemInv, NEW t \in Proc, NEW l, NEW m \in Label,
         At(t, l), pc' = [pc EXCEPT ![t] = m]
  PROVE  /\ pc[t] = l /\ t \notin q[sem_mm].mem /\ t \notin q[sem_pf].mem
         /\ pc'[t] = m /\ \A u \in Proc : u # t => pc'[u] = pc[u]
         /\ pc' \in [Proc -> Label]
         /\ \A u \in q[sem_mm].mem \cup q[sem_pf].mem : u \in Proc /\ u # t
         /\ sem_mm \in Semaphore /\ sem_pf \in Semaphore /\ sem_mm # sem_pf
PROOF
<1>1. pc[t] = l /\ t \notin q[sem_mm].mem /\ t \notin q[sem_pf].mem
  BY WaitFacts
<1>2. q[sem_mm].mem \subseteq Proc /\ q[sem_pf].mem \subseteq Proc
  BY FiniteParts DEF MemInv
<1> QED BY <1>1, <1>2, NameAssumption DEF MemInv, TypeOK, Semaphore

(* A step between two system calls leaves the queues alone. *)
LEMMA QuietStep ==
  ASSUME MemInv, NEW t \in Proc, NEW l, NEW m \in Label,
         At(t, l), pc' = [pc EXCEPT ![t] = m], UNCHANGED semVars
  PROVE  Queues' /\ WhereTheyWait'
         /\ val' \in [Semaphore -> Int] /\ q' \in [Semaphore -> Fifo]
PROOF
<1>1. val' = val /\ q' = q
  BY DEF semVars
<1>2. Queues' /\ val' \in [Semaphore -> Int] /\ q' \in [Semaphore -> Fifo]
  BY <1>1 DEF MemInv, TypeOK, Queues
<1>3. /\ \A u \in Proc : u # t => pc'[u] = pc[u]
      /\ \A u \in q[sem_mm].mem \cup q[sem_pf].mem : u \in Proc /\ u # t
  BY StepFacts
<1>4. WhereTheyWait'
  BY <1>1, <1>3 DEF MemInv, WhereTheyWait
<1> QED BY <1>2, <1>4

(* The frames are kept by a step that changes neither them nor the counter, *)
(* nor who has taken one.                                                   *)
LEMMA FramesKept ==
  ASSUME MemInv, UNCHANGED <<pf_ctr, pt, frame>>,
         \A u \in Proc : pc'[u] \in {"leave", "lock", "map"} => pc[u] \in {"leave", "lock", "map"},
         \A u \in Proc : pc'[u] = "count" => pc[u] = "count"
  PROVE  BelowCounter' /\ OneOwner'
PROOF
<1>1. \A u \in Proc : Taken(u)' => Taken(u)
  BY DEF Taken
<1>2. BelowCounter'
  BY DEF MemInv, BelowCounter
<1>3. OneOwner'
  BY <1>1 DEF MemInv, OneOwner
<1> QED BY <1>2, <1>3

(* One lemma for each action. *)
LEMMA FaultInv ==
  ASSUME MemInv, NEW t \in Proc, Fault(t)
  PROVE  MemInv'
PROOF
<1> USE DEF Fault, Step
<1>1. Queues' /\ WhereTheyWait' /\ val' \in [Semaphore -> Int] /\ q' \in [Semaphore -> Fifo]
  BY QuietStep
<1>2. /\ pc[t] = "user" /\ pc'[t] = "fault" /\ \A u \in Proc : u # t => pc'[u] = pc[u]
      /\ pc' \in [Proc -> Label]
  BY StepFacts
<1>3. PICK x \in Reach(t) : page' = [page EXCEPT ![t] = x]
  OBVIOUS
<1>4. x \in Desc
  BY DEF Reach, Desc
<1>5. TypeOK'
  BY <1>1, <1>2, <1>3, <1>4 DEF MemInv, TypeOK
<1>6. Critical' = Critical /\ Reserved' = Reserved
  BY <1>2 DEF Critical, Reserved, semVars
<1>7. OneHolder'
  BY <1>6, LockKept DEF MemInv, semVars
<1>8. FramesLeft'
  BY <1>6 DEF MemInv, FramesLeft, semVars
<1>9. BelowCounter' /\ OneOwner'
  BY <1>2, FramesKept
<1> QED BY <1>1, <1>5, <1>7, <1>8, <1>9 DEF MemInv

(* A process that ends keeps its frames. *)
LEMMA TerminateInv ==
  ASSUME MemInv, NEW t \in Proc, Terminate(t)
  PROVE  MemInv'
PROOF
<1> USE DEF Terminate, Step
<1>1. Queues' /\ WhereTheyWait' /\ val' \in [Semaphore -> Int] /\ q' \in [Semaphore -> Fifo]
  BY QuietStep
<1>2. /\ pc[t] = "user" /\ pc'[t] = "dead" /\ \A u \in Proc : u # t => pc'[u] = pc[u]
      /\ pc' \in [Proc -> Label]
  BY StepFacts
<1>3. TypeOK'
  BY <1>1, <1>2 DEF MemInv, TypeOK
<1>4. Critical' = Critical /\ Reserved' = Reserved
  BY <1>2 DEF Critical, Reserved, semVars
<1>5. OneHolder'
  BY <1>4, LockKept DEF MemInv, semVars
<1>6. FramesLeft'
  BY <1>4 DEF MemInv, FramesLeft, semVars
<1>7. BelowCounter' /\ OneOwner'
  BY <1>2, FramesKept
<1> QED BY <1>1, <1>3, <1>5, <1>6, <1>7 DEF MemInv

(* sem_pf has a unit for each frame left: a process that gets one reserves *)
(* a frame, a process that blocks does not.                                *)
LEMMA ReserveFrameInv ==
  ASSUME MemInv, NEW t \in Proc, ReserveFrame(t)
  PROVE  MemInv'
PROOF
<1> USE DEF ReserveFrame, Step
<1>1. /\ pc[t] = "fault" /\ t \notin q[sem_mm].mem /\ t \notin q[sem_pf].mem
      /\ pc'[t] = "enter" /\ \A u \in Proc : u # t => pc'[u] = pc[u]
      /\ pc' \in [Proc -> Label]
      /\ \A u \in q[sem_mm].mem \cup q[sem_pf].mem : u \in Proc /\ u # t
      /\ sem_mm \in Semaphore /\ sem_pf \in Semaphore /\ sem_mm # sem_pf
  BY StepFacts
<1>2. /\ val' \in [Semaphore -> Int] /\ q' \in [Semaphore -> Fifo] /\ Queues'
      /\ val'[sem_pf] = val[sem_pf] - 1
      /\ val'[sem_mm] = val[sem_mm] /\ q'[sem_mm] = q[sem_mm]
      /\ val[sem_pf] > 0 => q' = q
      /\ val[sem_pf] <= 0 => q'[sem_pf].mem = q[sem_pf].mem \cup {t}
  BY <1>1, PStep DEF MemInv
<1>3. val[sem_pf] \in Int /\ (val[sem_pf] > 0 \/ val[sem_pf] <= 0)
  BY <1>1 DEF MemInv, TypeOK
<1>4. WhereTheyWait'
  BY <1>1, <1>2, <1>3 DEF MemInv, WhereTheyWait
<1>5. TypeOK'
  BY <1>1, <1>2 DEF MemInv, TypeOK
<1>6. Critical' = Critical
  BY <1>1, <1>2 DEF Critical
<1>7. OneHolder'
  BY <1>2, <1>6, LockKept DEF MemInv
<1>8. FramesLeft'
  <2>0. IsFiniteSet(Reserved) /\ Cardinality(Reserved) \in Nat /\ pf_ctr \in Int /\ MAXFRAMES \in Int
    BY FiniteParts, FrameAssumption DEF MemInv, TypeOK
  <2>1. CASE val[sem_pf] > 0
    <3>1. Reserved' = Reserved \cup {t} /\ t \notin Reserved
      BY <1>1, <1>2, <2>1 DEF Reserved
    <3>2. Cardinality(Reserved') = Cardinality(Reserved) + 1
      BY <2>0, <3>1, FS_AddElement
    <3> QED BY <1>2, <1>3, <2>0, <2>1, <3>2 DEF MemInv, FramesLeft
  <2>2. CASE val[sem_pf] <= 0
    <3>1. Reserved' = Reserved
      BY <1>1, <1>2, <2>2 DEF Reserved
    <3> QED BY <1>2, <1>3, <2>0, <2>2, <3>1 DEF MemInv, FramesLeft
  <2> QED BY <1>3, <2>1, <2>2
<1>9. BelowCounter' /\ OneOwner'
  BY <1>1, FramesKept
<1> QED BY <1>2, <1>4, <1>5, <1>7, <1>8, <1>9 DEF MemInv

(* A process gets sem_mm, or blocks on it. *)
LEMMA EnterInv ==
  ASSUME MemInv, NEW t \in Proc, Enter(t)
  PROVE  MemInv'
PROOF
<1> USE DEF Enter, Step
<1>1. /\ pc[t] = "enter" /\ t \notin q[sem_mm].mem /\ t \notin q[sem_pf].mem
      /\ pc'[t] = "read" /\ \A u \in Proc : u # t => pc'[u] = pc[u]
      /\ pc' \in [Proc -> Label]
      /\ \A u \in q[sem_mm].mem \cup q[sem_pf].mem : u \in Proc /\ u # t
      /\ sem_mm \in Semaphore /\ sem_pf \in Semaphore /\ sem_mm # sem_pf
  BY StepFacts
<1>2. /\ val' \in [Semaphore -> Int] /\ q' \in [Semaphore -> Fifo] /\ Queues'
      /\ val'[sem_pf] = val[sem_pf] /\ q'[sem_pf] = q[sem_pf]
      /\ q' = q \/ q'[sem_mm].mem = q[sem_mm].mem \cup {t}
  <2>1. val[sem_mm] > 0 \/ val[sem_mm] <= 0
    BY <1>1 DEF MemInv, TypeOK
  <2> QED BY <1>1, <2>1, PStep DEF MemInv
<1>3. WhereTheyWait'
  BY <1>1, <1>2 DEF MemInv, WhereTheyWait
<1>4. TypeOK'
  BY <1>1, <1>2 DEF MemInv, TypeOK
<1>5. OneHolder'
  BY LockP
<1>6. Reserved' = Reserved
  BY <1>1, <1>2 DEF Reserved
<1>7. FramesLeft'
  BY <1>2, <1>6 DEF MemInv, FramesLeft
<1>8. BelowCounter' /\ OneOwner'
  BY <1>1, FramesKept
<1> QED BY <1>2, <1>3, <1>4, <1>5, <1>7, <1>8 DEF MemInv

(* The same for the page table. *)
LEMMA LockInv ==
  ASSUME MemInv, NEW t \in Proc, Lock(t)
  PROVE  MemInv'
PROOF
<1> USE DEF Lock, Step
<1>1. /\ pc[t] = "lock" /\ t \notin q[sem_mm].mem /\ t \notin q[sem_pf].mem
      /\ pc'[t] = "map" /\ \A u \in Proc : u # t => pc'[u] = pc[u]
      /\ pc' \in [Proc -> Label]
      /\ \A u \in q[sem_mm].mem \cup q[sem_pf].mem : u \in Proc /\ u # t
      /\ sem_mm \in Semaphore /\ sem_pf \in Semaphore /\ sem_mm # sem_pf
  BY StepFacts
<1>2. /\ val' \in [Semaphore -> Int] /\ q' \in [Semaphore -> Fifo] /\ Queues'
      /\ val'[sem_pf] = val[sem_pf] /\ q'[sem_pf] = q[sem_pf]
      /\ q' = q \/ q'[sem_mm].mem = q[sem_mm].mem \cup {t}
  <2>1. val[sem_mm] > 0 \/ val[sem_mm] <= 0
    BY <1>1 DEF MemInv, TypeOK
  <2> QED BY <1>1, <2>1, PStep DEF MemInv
<1>3. WhereTheyWait'
  BY <1>1, <1>2 DEF MemInv, WhereTheyWait
<1>4. TypeOK'
  BY <1>1, <1>2 DEF MemInv, TypeOK
<1>5. OneHolder'
  BY LockP
<1>6. Reserved' = Reserved
  BY <1>1, <1>2 DEF Reserved
<1>7. FramesLeft'
  BY <1>2, <1>6 DEF MemInv, FramesLeft
<1>8. BelowCounter' /\ OneOwner'
  BY <1>1, FramesKept
<1> QED BY <1>2, <1>3, <1>4, <1>5, <1>7, <1>8 DEF MemInv

(* A process passes sem_mm on. *)
LEMMA LeaveInv ==
  ASSUME MemInv, NEW t \in Proc, Leave(t)
  PROVE  MemInv'
PROOF
<1> USE DEF Leave, Step
<1>1. /\ pc[t] = "leave" /\ t \notin q[sem_mm].mem /\ t \notin q[sem_pf].mem
      /\ pc'[t] = "lock" /\ \A u \in Proc : u # t => pc'[u] = pc[u]
      /\ pc' \in [Proc -> Label]
      /\ \A u \in q[sem_mm].mem \cup q[sem_pf].mem : u \in Proc /\ u # t
      /\ sem_mm \in Semaphore /\ sem_pf \in Semaphore /\ sem_mm # sem_pf
  BY StepFacts
<1>2. OneHolder' /\ (val[sem_mm] < 0 => q[sem_mm].mem # {})
  BY LockV
<1>3. /\ val' \in [Semaphore -> Int] /\ q' \in [Semaphore -> Fifo] /\ Queues'
      /\ val'[sem_pf] = val[sem_pf] /\ q'[sem_pf] = q[sem_pf]
      /\ q'[sem_mm].mem \subseteq q[sem_mm].mem
  <2>1. val[sem_mm] < 0 \/ val[sem_mm] >= 0
    BY <1>1 DEF MemInv, TypeOK
  <2> QED BY <1>1, <1>2, <2>1, VStep DEF MemInv
<1>4. WhereTheyWait'
  BY <1>1, <1>3 DEF MemInv, WhereTheyWait
<1>5. TypeOK'
  BY <1>1, <1>3 DEF MemInv, TypeOK
<1>6. Reserved' = Reserved
  BY <1>1, <1>3 DEF Reserved
<1>7. FramesLeft'
  BY <1>3, <1>6 DEF MemInv, FramesLeft
<1>8. BelowCounter' /\ OneOwner'
  BY <1>1, FramesKept
<1> QED BY <1>2, <1>3, <1>4, <1>5, <1>7, <1>8 DEF MemInv

(* The same for the page table. *)
LEMMA UnlockInv ==
  ASSUME MemInv, NEW t \in Proc, Unlock(t)
  PROVE  MemInv'
PROOF
<1> USE DEF Unlock, Step
<1>1. /\ pc[t] = "unlock" /\ t \notin q[sem_mm].mem /\ t \notin q[sem_pf].mem
      /\ pc'[t] = "user" /\ \A u \in Proc : u # t => pc'[u] = pc[u]
      /\ pc' \in [Proc -> Label]
      /\ \A u \in q[sem_mm].mem \cup q[sem_pf].mem : u \in Proc /\ u # t
      /\ sem_mm \in Semaphore /\ sem_pf \in Semaphore /\ sem_mm # sem_pf
  BY StepFacts
<1>2. OneHolder' /\ (val[sem_mm] < 0 => q[sem_mm].mem # {})
  BY LockV
<1>3. /\ val' \in [Semaphore -> Int] /\ q' \in [Semaphore -> Fifo] /\ Queues'
      /\ val'[sem_pf] = val[sem_pf] /\ q'[sem_pf] = q[sem_pf]
      /\ q'[sem_mm].mem \subseteq q[sem_mm].mem
  <2>1. val[sem_mm] < 0 \/ val[sem_mm] >= 0
    BY <1>1 DEF MemInv, TypeOK
  <2> QED BY <1>1, <1>2, <2>1, VStep DEF MemInv
<1>4. WhereTheyWait'
  BY <1>1, <1>3 DEF MemInv, WhereTheyWait
<1>5. TypeOK'
  BY <1>1, <1>3 DEF MemInv, TypeOK
<1>6. Reserved' = Reserved
  BY <1>1, <1>3 DEF Reserved
<1>7. FramesLeft'
  BY <1>3, <1>6 DEF MemInv, FramesLeft
<1>8. BelowCounter' /\ OneOwner'
  BY <1>1, FramesKept
<1> QED BY <1>2, <1>3, <1>4, <1>5, <1>7, <1>8 DEF MemInv

(* Whoever holds sem_mm holds it alone. *)
LEMMA AloneInCritical ==
  ASSUME MemInv, NEW t \in Proc, t \in Critical, NEW u \in Proc, u \in Critical
  PROVE  u = t
PROOF BY DEF MemInv, OneHolder

(* There is a frame for whoever has a unit of sem_pf. *)
LEMMA FrameLeft ==
  ASSUME MemInv, NEW t \in Reserved
  PROVE  pf_ctr + 1 <= MAXFRAMES /\ pf_ctr \in Frame
PROOF
<1>1. IsFiniteSet(Reserved) /\ Cardinality(Reserved) \in Nat /\ pf_ctr \in Nat /\ MAXFRAMES \in Nat
  BY FiniteParts, FrameAssumption DEF MemInv, TypeOK
<1>2. Cardinality(Reserved) # 0
  BY <1>1, FS_EmptySet
<1>3. val[sem_pf] \in Int
  BY DEF MemInv, TypeOK, Semaphore
<1> QED BY <1>1, <1>2, <1>3 DEF MemInv, FramesLeft, Frame

(* A frame number that is read is nobody's: every other is smaller, and     *)
(* nobody else is between the read and the increment.                       *)
LEMMA ReadCounterInv ==
  ASSUME MemInv, NEW t \in Proc, ReadCounter(t)
  PROVE  MemInv'
PROOF
<1> USE DEF ReadCounter, Step
<1>1. Queues' /\ WhereTheyWait' /\ val' \in [Semaphore -> Int] /\ q' \in [Semaphore -> Fifo]
  BY QuietStep
<1>2. /\ pc[t] = "read" /\ pc'[t] = "count" /\ \A u \in Proc : u # t => pc'[u] = pc[u]
      /\ t \notin q[sem_mm].mem
      /\ pc' \in [Proc -> Label]
  BY StepFacts
<1>3. t \in Critical /\ t \in Reserved
  BY <1>2 DEF Critical, Reserved
<1>4. pf_ctr \in Frame
  BY <1>3, FrameLeft
<1>5. frame'[t] = pf_ctr /\ \A u \in Proc : u # t => frame'[u] = frame[u]
  BY DEF MemInv, TypeOK
<1>6. TypeOK'
  BY <1>1, <1>2, <1>4 DEF MemInv, TypeOK
<1>7. Critical' = Critical /\ Reserved' = Reserved
  BY <1>2 DEF Critical, Reserved, semVars
<1>8. OneHolder'
  BY <1>7, LockKept DEF MemInv, semVars
<1>9. FramesLeft'
  BY <1>7 DEF MemInv, FramesLeft, semVars
<1>10. BelowCounter'
  BY <1>2, <1>5 DEF MemInv, BelowCounter
<1>11. OneOwner'
  <2>1. \A u \in Proc : u # t => pc[u] # "count"
    <3> SUFFICES ASSUME NEW u \in Proc, pc[u] = "count" PROVE u = t
      OBVIOUS
    <3>1. u \in Critical
      BY NameAssumption DEF MemInv, WhereTheyWait, Critical
    <3> QED BY <1>3, <3>1, AloneInCritical
  <2>2. \A u \in Proc : u # t /\ Taken(u)' => Taken(u) /\ frame'[u] = frame[u] /\ frame[u] < pf_ctr
    BY <1>2, <1>5, <2>1 DEF Taken, MemInv, BelowCounter
  <2>3. pf_ctr \in Nat /\ \A x \in Desc : pt[x] # pf_ctr
    BY NameAssumption, <1>4 DEF MemInv, BelowCounter, TypeOK, Frame
  <2>4. \A u \in Proc : u # t /\ Taken(u)' => frame'[u] # pf_ctr
    BY <2>2, <2>3 DEF MemInv, TypeOK, Frame
  <2>5. pt' = pt /\ \A x, y \in Desc : pt[x] # None /\ pt[x] = pt[y] => x = y
    BY DEF MemInv, OneOwner
  <2>6. \A u \in Proc : Taken(u)' => \A x \in Desc : pt'[x] # frame'[u]
    BY <1>5, <2>2, <2>3, <2>5 DEF MemInv, OneOwner
  <2>7. \A u, w \in Proc : Taken(u)' /\ Taken(w)' /\ frame'[u] = frame'[w] => u = w
    BY <1>5, <2>2, <2>4 DEF MemInv, OneOwner
  <2> QED BY <2>5, <2>6, <2>7 DEF OneOwner
<1> QED BY <1>1, <1>6, <1>8, <1>9, <1>10, <1>11 DEF MemInv

(* The counter passes the frame of t; nobody else is about to increment it. *)
LEMMA IncrementInv ==
  ASSUME MemInv, NEW t \in Proc, Increment(t)
  PROVE  MemInv'
PROOF
<1> USE DEF Increment, Step
<1>1. Queues' /\ WhereTheyWait' /\ val' \in [Semaphore -> Int] /\ q' \in [Semaphore -> Fifo]
  BY QuietStep
<1>2. /\ pc[t] = "count" /\ pc'[t] = "leave" /\ \A u \in Proc : u # t => pc'[u] = pc[u]
      /\ t \notin q[sem_mm].mem
      /\ pc' \in [Proc -> Label]
  BY StepFacts
<1>3. t \in Critical /\ t \in Reserved
  BY <1>2 DEF Critical, Reserved
<1>4. pf_ctr + 1 <= MAXFRAMES /\ pf_ctr \in Nat /\ MAXFRAMES \in Nat
  BY <1>3, FrameLeft, FrameAssumption DEF MemInv, TypeOK
<1>5. TypeOK'
  BY <1>1, <1>2, <1>4 DEF MemInv, TypeOK
<1>6. Critical' = Critical
  BY <1>2 DEF Critical, semVars
<1>7. Reserved' = Reserved \ {t}
  BY <1>2 DEF Reserved, semVars
<1>8. OneHolder'
  BY <1>6, LockKept DEF MemInv, semVars
<1>9. FramesLeft'
  <2>1. IsFiniteSet(Reserved) /\ Cardinality(Reserved) \in Nat
    BY FiniteParts DEF MemInv
  <2>2. Cardinality(Reserved') = Cardinality(Reserved) - 1
    BY <1>3, <1>7, <2>1, FS_RemoveElement
  <2>3. val[sem_pf] \in Int /\ val' = val
    BY DEF MemInv, TypeOK, Semaphore, semVars
  <2> QED BY <1>4, <2>1, <2>2, <2>3 DEF MemInv, FramesLeft
<1>10. BelowCounter'
  <2>1. \A u \in Proc : pc'[u] # "count"
    <3> SUFFICES ASSUME NEW u \in Proc, pc'[u] = "count" PROVE FALSE
      OBVIOUS
    <3>1. u # t /\ pc[u] = "count"
      BY <1>2
    <3>2. u \in Critical
      BY <3>1 DEF MemInv, WhereTheyWait, Critical
    <3> QED BY <1>3, <3>1, <3>2, AloneInCritical
  <2>2. \A x \in Desc : pt'[x] # None => pt'[x] < pf_ctr'
    BY <1>4 DEF MemInv, TypeOK, BelowCounter, Frame
  <2>3. \A u \in Proc : pc'[u] \in {"leave", "lock", "map"} => frame'[u] < pf_ctr'
    <3> SUFFICES ASSUME NEW u \in Proc, pc'[u] \in {"leave", "lock", "map"}
                 PROVE  frame[u] < pf_ctr + 1
      OBVIOUS
    <3>1. frame[u] <= pf_ctr
      BY <1>2, <1>4 DEF MemInv, TypeOK, BelowCounter, Frame
    <3>2. frame[u] \in Int
      BY DEF MemInv, TypeOK, Frame
    <3> QED BY <1>4, <3>1, <3>2
  <2> QED BY <2>1, <2>2, <2>3 DEF BelowCounter
<1>11. OneOwner'
  <2>1. \A u \in Proc : Taken(u)' => Taken(u)
    BY <1>2 DEF Taken
  <2> QED BY <2>1 DEF MemInv, OneOwner
<1> QED BY <1>1, <1>5, <1>8, <1>9, <1>10, <1>11 DEF MemInv

(* The frame of t becomes the frame of its page, and t has none any more. *)
LEMMA MapInv ==
  ASSUME MemInv, NEW t \in Proc, Map(t)
  PROVE  MemInv'
PROOF
<1> USE DEF Map, Step
<1>1. Queues' /\ WhereTheyWait' /\ val' \in [Semaphore -> Int] /\ q' \in [Semaphore -> Fifo]
  BY QuietStep
<1>2. /\ pc[t] = "map" /\ pc'[t] = "unlock" /\ \A u \in Proc : u # t => pc'[u] = pc[u]
      /\ pc' \in [Proc -> Label]
  BY StepFacts
<1>3. page[t] \in Desc /\ frame[t] \in Frame /\ frame[t] # None
  BY NameAssumption DEF MemInv, TypeOK, Frame
<1>4. pt'[page[t]] = frame[t] /\ \A x \in Desc : x # page[t] => pt'[x] = pt[x]
  BY <1>3 DEF MemInv, TypeOK
<1>5. TypeOK'
  BY <1>1, <1>2, <1>3 DEF MemInv, TypeOK
<1>6. Critical' = Critical /\ Reserved' = Reserved
  BY <1>2 DEF Critical, Reserved, semVars
<1>7. OneHolder'
  BY <1>6, LockKept DEF MemInv, semVars
<1>8. FramesLeft'
  BY <1>6 DEF MemInv, FramesLeft, semVars
<1>9. BelowCounter'
  BY <1>2, <1>4 DEF MemInv, BelowCounter
<1>10. OneOwner'
  <2>1. Taken(t) /\ ~Taken(t)' /\ \A u \in Proc : Taken(u)' => Taken(u) /\ u # t
    BY <1>2 DEF Taken
  <2>2. \A x \in Desc : pt[x] # frame[t]
    BY <2>1 DEF MemInv, OneOwner
  <2>3. \A x, y \in Desc : pt'[x] # None /\ pt'[x] = pt'[y] => x = y
    BY <1>4, <2>2 DEF MemInv, OneOwner
  <2>4. \A u \in Proc : Taken(u)' => \A x \in Desc : pt'[x] # frame'[u]
    <3> SUFFICES ASSUME NEW u \in Proc, Taken(u)', NEW x \in Desc PROVE pt'[x] # frame[u]
      OBVIOUS
    <3>1. Taken(u) /\ u # t
      BY <2>1
    <3>2. frame[u] # frame[t] /\ pt[x] # frame[u]
      BY <2>1, <3>1 DEF MemInv, OneOwner
    <3> QED BY <1>4, <3>2
  <2>5. \A u, w \in Proc : Taken(u)' /\ Taken(w)' /\ frame'[u] = frame'[w] => u = w
    BY <2>1 DEF MemInv, OneOwner
  <2> QED BY <2>3, <2>4, <2>5 DEF OneOwner
<1> QED BY <1>1, <1>5, <1>7, <1>8, <1>9, <1>10 DEF MemInv

-----------------------------------------------------------------------------
(* A stuttering step. *)
LEMMA StutterInv ==
  ASSUME MemInv, UNCHANGED vars
  PROVE  MemInv'
PROOF
<1> USE DEF vars, semVars
<1>1. Critical' = Critical /\ Reserved' = Reserved
  BY DEF Critical, Reserved
<1>2. TypeOK' /\ Queues' /\ WhereTheyWait' /\ BelowCounter'
  BY DEF MemInv, TypeOK, Queues, WhereTheyWait, BelowCounter
<1>3. OneHolder' /\ FramesLeft'
  BY <1>1 DEF MemInv, OneHolder, FramesLeft
<1>4. OneOwner'
  BY DEF MemInv, OneOwner, Taken
<1> QED BY <1>2, <1>3, <1>4 DEF MemInv

(* MemInv is inductive: frames are handed out by one process at a time and  *)
(* only as long as there are any.                                           *)
THEOREM MemoryInvariant == Spec => []MemInv
PROOF
<1>1. MemInv /\ [Next]_vars => MemInv'
  <2> SUFFICES ASSUME MemInv, [Next]_vars PROVE MemInv'
    OBVIOUS
  <2>1. CASE UNCHANGED vars
    BY <2>1, StutterInv
  <2>2. ASSUME NEW t \in Proc, Fault(t) \/ Handle(t) \/ Terminate(t)
        PROVE  MemInv'
    BY <2>2, FaultInv, ReserveFrameInv, EnterInv, ReadCounterInv, IncrementInv, LeaveInv,
       LockInv, MapInv, UnlockInv, TerminateInv DEF Handle
  <2> QED BY <2>1, <2>2 DEF Next
<1> QED BY <1>1, InitInv, PTL DEF Spec

(* getfreeframe never counts beyond MAXFRAMES, although it does not test    *)
(* its counter, and every table entry is a frame.                           *)
THEOREM FramesInBounds == Spec => []TypeOK
PROOF
<1>1. MemInv => TypeOK
  BY DEF MemInv
<1> QED BY <1>1, MemoryInvariant, PTL

(* A frame has one owner: two pages, of one process or of two, never share  *)
(* a frame, and no frame in use is given to another fault.                  *)
THEOREM FramesNotShared == Spec => []OneOwner
PROOF
<1>1. MemInv => OneOwner
  BY DEF MemInv
<1> QED BY <1>1, MemoryInvariant, PTL

(* A process that runs out of frames does so before it takes sem_mm, so the *)
(* three P's of a fault cannot make everybody wait for everybody.           *)
THEOREM NoDeadlockOnTheLock == Spec => []HolderGoesOn
PROOF
<1>1. ASSUME MemInv, q[sem_mm].mem # {}
      PROVE  \E t \in Proc : pc[t] \in {"read", "count", "leave", "map", "unlock"} /\ ~Waits(t)
  <2>1. PICK t \in Proc : Critical = {t}
    BY <1>1 DEF MemInv, OneHolder
  <2>2. pc[t] \in {"read", "count", "leave", "map", "unlock"} /\ t \notin q[sem_mm].mem
    BY <2>1 DEF Critical
  <2>3. t \notin q[sem_pf].mem
    BY <1>1, <2>2 DEF MemInv, WhereTheyWait
  <2> QED BY <2>2, <2>3 DEF Waits, Semaphore
<1>2. MemInv => HolderGoesOn
  BY <1>1 DEF HolderGoesOn
<1> QED BY <1>2, MemoryInvariant, PTL

-----------------------------------------------------------------------------
(* Pages that are present.                                                 *)

(* A process faults on pages of its own, and shared ones. *)
OwnFaults == \A t \in Proc : page[t] \in Reach(t)

(* While a fault on a page of S is handled, the page is not there. *)
Missing(S) == \A t \in Proc : Faulting(t) /\ page[t] \in S => pt[page[t]] = None

LEMMA OwnFaultsNext == MemInv /\ OwnFaults /\ [Next]_vars => OwnFaults'
PROOF
<1> SUFFICES ASSUME MemInv, OwnFaults, [Next]_vars PROVE OwnFaults'
  OBVIOUS
<1>1. ASSUME NEW t \in Proc, Fault(t) PROVE OwnFaults'
  <2>1. PICK x \in Reach(t) : page' = [page EXCEPT ![t] = x]
    BY <1>1 DEF Fault
  <2> QED BY <2>1 DEF OwnFaults, MemInv, TypeOK
<1>2. CASE UNCHANGED page
  BY <1>2 DEF OwnFaults
<1>3. ASSUME NEW t \in Proc, Handle(t) \/ Terminate(t) PROVE UNCHANGED page
  BY <1>3 DEF Handle, Terminate, ReserveFrame, Enter, ReadCounter, Increment, Leave, Lock, Map, Unlock
<1> QED BY <1>1, <1>2, <1>3 DEF Next, vars

LEMMA MissingNext ==
  ASSUME NEW S \in SUBSET Desc
  PROVE  MemInv /\ Missing(S) /\ SoleFaults(S) /\ [Next]_vars =>
           /\ Missing(S)'
           /\ [\A x \in S : pt[x] # None => pt'[x] = pt[x]]_vars
PROOF
<1> SUFFICES ASSUME MemInv, Missing(S), SoleFaults(S), [Next]_vars
             PROVE  Missing(S)' /\ [\A x \in S : pt[x] # None => pt'[x] = pt[x]]_vars
  OBVIOUS
<1>0. pc \in [Proc -> Label] /\ page \in [Proc -> Desc] /\ pt \in [Desc -> Frame \cup {None}]
  BY DEF MemInv, TypeOK
<1>1. CASE UNCHANGED vars
  BY <1>1 DEF vars, Missing, Faulting
<1>2. ASSUME NEW t \in Proc, Fault(t)
      PROVE  Missing(S)' /\ pt' = pt
  <2>1. PICK x \in Reach(t) : pt[x] = None /\ page' = [page EXCEPT ![t] = x]
    BY <1>2 DEF Fault
  <2>2. /\ page'[t] = x /\ \A u \in Proc : u # t => page'[u] = page[u] /\ pc'[u] = pc[u]
        /\ pt' = pt
    BY <1>0, <1>2, <2>1 DEF Fault, Step
  <2> QED BY <2>1, <2>2 DEF Missing, Faulting
<1>3. ASSUME NEW t \in Proc, Map(t)
      PROVE  Missing(S)' /\ \A x \in S : pt[x] # None => pt'[x] = pt[x]
  <2>1. /\ pc[t] = "map" /\ pc'[t] = "unlock" /\ \A u \in Proc : u # t => pc'[u] = pc[u]
        /\ page' = page /\ page[t] \in Desc
        /\ \A x \in Desc : x # page[t] => pt'[x] = pt[x]
    BY <1>0, <1>3 DEF Map, Step, At
  <2>2. Faulting(t) /\ ~Faulting(t)'
    BY <2>1 DEF Faulting
  <2>3. ASSUME NEW x \in S, pt[x] # None PROVE pt'[x] = pt[x]
    BY <2>1, <2>2, <2>3 DEF Missing
  <2>4. ASSUME NEW u \in Proc, Faulting(u)', page[u] \in S PROVE pt'[page[u]] = None
    <3>1. u # t /\ Faulting(u)
      BY <2>1, <2>2, <2>4 DEF Faulting
    <3>2. page[u] # page[t]
      BY <2>2, <2>4, <3>1 DEF SoleFaults
    <3>3. pt[page[u]] = None
      BY <2>4, <3>1 DEF Missing
    <3> QED BY <2>1, <2>4, <3>2, <3>3
  <2> QED BY <2>1, <2>3, <2>4 DEF Missing
<1>4. ASSUME NEW t \in Proc, NEW l, NEW m, Step(t, l, m), UNCHANGED <<page, pt>>,
             m \in {"fault", "enter", "read", "count", "leave", "lock", "map"} =>
               l \in {"fault", "enter", "read", "count", "leave", "lock", "map"}
      PROVE  Missing(S)' /\ pt' = pt
  <2>1. \A u \in Proc : Faulting(u)' => Faulting(u)
    BY <1>0, <1>4 DEF Faulting, Step, At
  <2> QED BY <1>4, <2>1 DEF Missing
<1>5. ASSUME NEW t \in Proc, Handle(t) \/ Terminate(t), ~Map(t)
      PROVE  Missing(S)' /\ pt' = pt
  <2>1. CASE ReserveFrame(t) \/ Enter(t) \/ ReadCounter(t) \/ Increment(t)
    BY <1>4, <2>1 DEF ReserveFrame, Enter, ReadCounter, Increment
  <2>2. CASE Leave(t) \/ Lock(t) \/ Unlock(t) \/ Terminate(t)
    BY <1>4, <2>2 DEF Leave, Lock, Unlock, Terminate
  <2> QED BY <1>5, <2>1, <2>2 DEF Handle
<1> QED BY <1>1, <1>2, <1>3, <1>5 DEF Next

(* The pages of segment 1, which belong to one process each, keep their     *)
(* frames whatever the processes do.                                        *)
THEOREM PrivatePagesStay == Spec => Stay(Proc \X Private)
PROOF
<1> DEFINE S == Proc \X Private
           StepStays == \A x \in S : pt[x] # None => pt'[x] = pt[x]
<1>1. MemInv /\ Missing(S) /\ SoleFaults(S) /\ [Next]_vars => Missing(S)' /\ [StepStays]_vars
  <2>1. S \in SUBSET Desc
    BY DEF Desc
  <2> QED BY <2>1, MissingNext
<1>2. Init => OwnFaults /\ Missing(S)
  BY PageAssumption DEF Init, OwnFaults, Reach, Missing, Faulting
<1>3. MemInv /\ OwnFaults => SoleFaults(S)
  BY PageAssumption DEF OwnFaults, Reach, SoleFaults
<1> QED BY <1>1, <1>2, <1>3, OwnFaultsNext, MemoryInvariant, PTL DEF Spec, Stay

(* A page loses its frame, and what has been written there, only if it is a *)
(* page with two faults at a time, the second taken before the first one    *)
(* has been served: slmmhandler may do without a second look at the page    *)
(* if there are no such two.                                                *)
THEOREM NoPageLost == Spec /\ []SoleFaults(Desc) => PageStays
PROOF
<1> DEFINE StepStays == \A x \in Desc : pt[x] # None => pt'[x] = pt[x]
<1>1. MemInv /\ Missing(Desc) /\ SoleFaults(Desc) /\ [Next]_vars =>
        Missing(Desc)' /\ [StepStays]_vars
  <2>1. Desc \in SUBSET Desc
    OBVIOUS
  <2> QED BY <2>1, MissingNext
<1>2. Init => Missing(Desc)
  BY DEF Init, Missing, Faulting
<1> QED BY <1>1, <1>2, MemoryInvariant, PTL DEF Spec, PageStays
=============================================================================
