----------------------------- MODULE CronProofs ------------------------------
(***************************************************************************)
(* The protocol of delay, terminate and cron, for any number of            *)
(* T-processes and any delays: nobody is forgotten, cron sleeps only when  *)
(* nothing is left for it to do, and it ends after the T-processes.        *)
(***************************************************************************)
EXTENDS Cron, FiniteSetTheorems, FunctionTheorems, TLAPS

-----------------------------------------------------------------------------
(* The semaphores.                                                         *)

(* A negative value counts the processes of the queue, which are different. *)
SemOK(v, w) ==
  /\ v \in Int /\ v <= MaxVal /\ w \in Seq(Process)
  /\ Len(w) = IF v < 0 THEN -v ELSE 0
  /\ \A j, k \in DOMAIN w : w[j] = w[k] => j = k

SemsOK(S) ==
  /\ S.val \in [Semaphore -> Int] /\ S.queue \in [Semaphore -> Seq(Process)]
  /\ \A s \in Semaphore : SemOK(S.val[s], S.queue[s])

LEMMA Sizes ==
  /\ IsFiniteSet(T) /\ Cardinality(T) = MAXTPROC
  /\ IsFiniteSet(Process) /\ Cardinality(Process) = MAXTPROC + 1
  /\ MaxVal \in Nat /\ MaxVal > MAXTPROC + 1
PROOF
<1>1. IsFiniteSet(T) /\ Cardinality(T) = MAXTPROC
  BY SizeAssumption, FS_Interval DEF T
<1>2. IsFiniteSet(Process) /\ Cardinality(Process) = MAXTPROC + 1
  BY <1>1, NameAssumption, FS_AddElement DEF Process
<1> QED BY <1>1, <1>2, SizeAssumption DEF MaxVal

LEMMA Intervals == ASSUME NEW n \in Nat PROVE Cardinality(1 .. n) = n
PROOF BY FS_Interval

Capped(n) == IF n < MaxVal THEN n + 1 ELSE n

(* R is S after a P of s by p, after a V of s. *)
Locked(S, R, s, p) ==
  /\ R.val = [S.val EXCEPT ![s] = @ - 1]
  /\ \A r \in Semaphore : \A x \in ToSet(R.queue[r]) : x \in ToSet(S.queue[r]) \/ (x = p /\ r = s)

Unlocked(S, R, s) ==
  /\ R.val = [S.val EXCEPT ![s] = Capped(@)]
  /\ \A r \in Semaphore : \A x \in ToSet(R.queue[r]) : x \in ToSet(S.queue[r])

LEMMA PFacts ==
  ASSUME NEW S, SemsOK(S), NEW s \in Semaphore, NEW p \in Process, p \notin ToSet(S.queue[s])
  PROVE  SemsOK(P(S, s, p)) /\ Locked(S, P(S, s, p), s, p)
PROOF
<1> DEFINE v == S.val[s]
           w == S.queue[s]
           x == IF v <= 0 THEN Append(w, p) ELSE w
<1>1. SemOK(v, w) /\ v \in Int /\ w \in Seq(Process) /\ p \notin ToSet(w)
  BY DEF SemsOK
<1>2. /\ P(S, s, p).val = [S.val EXCEPT ![s] = v - 1]
      /\ P(S, s, p).queue = [S.queue EXCEPT ![s] = x]
  BY DEF P, SemsOK
<1> HIDE DEF v, w
<1>3. SemOK(v - 1, x) /\ ToSet(x) \subseteq ToSet(w) \cup {p}
  <2>1. CASE v <= 0
    <3>1. x = Append(w, p)
      BY <2>1
    <3>2. x \in Seq(Process) /\ Len(x) = Len(w) + 1 /\ Len(x) = -(v - 1)
      BY <1>1, <2>1, <3>1 DEF SemOK
    <3>3. \A j \in DOMAIN x : x[j] = IF j = Len(w) + 1 THEN p ELSE w[j]
      BY <1>1, <3>1
    <3>4. \A j \in DOMAIN x : j # Len(w) + 1 => j \in DOMAIN w
      BY <1>1, <3>2
    <3>5. \A j \in DOMAIN w : w[j] # p
      BY <1>1 DEF ToSet
    <3>6. \A j, k \in DOMAIN x : x[j] = x[k] => j = k
      BY <1>1, <3>3, <3>4, <3>5 DEF SemOK
    <3>7. ToSet(x) \subseteq ToSet(w) \cup {p}
      BY <3>3, <3>4 DEF ToSet
    <3> QED BY <1>1, <2>1, <3>2, <3>6, <3>7, Sizes DEF SemOK
  <2>2. CASE ~(v <= 0)
    <3>1. x = w /\ Len(w) = 0 /\ v > 0 /\ ~(v - 1 < 0)
      BY <1>1, <2>2 DEF SemOK
    <3> QED BY <1>1, <3>1, Sizes DEF SemOK
  <2> QED BY <2>1, <2>2
<1>4. x \in Seq(Process) /\ v - 1 \in Int
  BY <1>3 DEF SemOK
<1> HIDE DEF x
<1>5. SemsOK(P(S, s, p))
  BY <1>2, <1>3, <1>4 DEF SemsOK
<1>6. P(S, s, p).queue[s] = x /\ \A r \in Semaphore : r # s => P(S, s, p).queue[r] = S.queue[r]
  BY <1>2 DEF SemsOK
<1>7. P(S, s, p).val = [S.val EXCEPT ![s] = @ - 1]
  BY <1>2 DEF v
<1>8. ASSUME NEW r \in Semaphore, NEW y \in ToSet(P(S, s, p).queue[r])
      PROVE  y \in ToSet(S.queue[r]) \/ (y = p /\ r = s)
  <2>1. CASE r = s
    BY <1>3, <1>6, <1>8, <2>1 DEF w
  <2>2. CASE r # s
    BY <1>6, <1>8, <2>2
  <2> QED BY <2>1, <2>2
<1> QED BY <1>5, <1>7, <1>8 DEF Locked

LEMMA VFacts ==
  ASSUME NEW S, SemsOK(S), NEW s \in Semaphore
  PROVE  SemsOK(V(S, s)) /\ Unlocked(S, V(S, s), s)
PROOF
<1> DEFINE v == S.val[s]
           w == S.queue[s]
           u == IF v < MaxVal THEN v + 1 ELSE v
           x == IF v < 0 THEN Tail(w) ELSE w
<1>1. SemOK(v, w) /\ v \in Int /\ w \in Seq(Process)
  BY DEF SemsOK
<1>2. /\ V(S, s).val = [S.val EXCEPT ![s] = u]
      /\ V(S, s).queue = [S.queue EXCEPT ![s] = x]
  BY DEF V, SemsOK
<1> HIDE DEF v, w
<1>3. SemOK(u, x) /\ ToSet(x) \subseteq ToSet(w)
  <2>1. CASE v < 0
    <3>1. x = Tail(w) /\ u = v + 1 /\ Len(w) = -v /\ w # <<>>
      BY <1>1, <2>1, Sizes DEF SemOK
    <3>2. x \in Seq(Process) /\ Len(x) = Len(w) - 1 /\ \A j \in DOMAIN x : x[j] = w[j + 1]
      BY <1>1, <3>1
    <3>3. \A j \in DOMAIN x : j + 1 \in DOMAIN w
      BY <1>1, <3>2
    <3>4. \A j, k \in DOMAIN x : x[j] = x[k] => j = k
      BY <1>1, <3>2, <3>3 DEF SemOK
    <3>5. ToSet(x) \subseteq ToSet(w)
      BY <3>2, <3>3 DEF ToSet
    <3>6. u \in Int /\ u <= MaxVal /\ Len(x) = IF u < 0 THEN -u ELSE 0
      BY <1>1, <2>1, <3>1, <3>2, Sizes
    <3> QED BY <3>2, <3>4, <3>5, <3>6 DEF SemOK
  <2>2. CASE ~(v < 0)
    <3>1. x = w /\ Len(w) = 0 /\ u >= 0 /\ u <= MaxVal /\ u \in Int
      BY <1>1, <2>2, Sizes DEF SemOK
    <3> QED BY <1>1, <3>1 DEF SemOK
  <2> QED BY <2>1, <2>2
<1>4. x \in Seq(Process) /\ u \in Int
  BY <1>3 DEF SemOK
<1>5. V(S, s).val = [S.val EXCEPT ![s] = Capped(@)]
  BY <1>2 DEF v, Capped
<1> HIDE DEF x, u
<1>6. SemsOK(V(S, s))
  BY <1>2, <1>3, <1>4 DEF SemsOK
<1>7. V(S, s).queue[s] = x /\ \A r \in Semaphore : r # s => V(S, s).queue[r] = S.queue[r]
  BY <1>2 DEF SemsOK
<1>8. ASSUME NEW r \in Semaphore, NEW y \in ToSet(V(S, s).queue[r])
      PROVE  y \in ToSet(S.queue[r])
  <2>1. CASE r = s
    BY <1>3, <1>7, <1>8, <2>1 DEF w
  <2>2. CASE r # s
    BY <1>7, <1>8, <2>2
  <2> QED BY <2>1, <2>2
<1> QED BY <1>5, <1>6, <1>8 DEF Unlocked

-----------------------------------------------------------------------------
(* Delays.                                                                 *)

Labels == {"begin", "user", "io", "lock", "write", "sleep", "exiting", "last", "ending", "dead",
           "start", "top", "scan", "release", "clock"}

(* Where a process is that waits for s: nobody else waits for the entry of  *)
(* a T-process or for wake_up_cron_sem.                                    *)
Place(s, p) ==
  \/ p \in T /\ s = cron_table_sem /\ pc[p] = "write"
  \/ p \in T /\ s = p /\ pc[p] = "user"
  \/ p = cron /\ s = cron_table_sem /\ pc[cron] = "scan"
  \/ p = cron /\ s = wake_up_cron_sem /\ pc[cron] \in {"top", "scan"}

(* Cron is about to release t. *)
Releasing(t) == pc[cron] = "release" /\ i = t

(* The entry of t is set, or cron has just reset it.                       *)
Pending(t) == armed[t] \/ Releasing(t)

(* The semaphore of an entry: -1 while its process sleeps, 1 if cron has    *)
(* released it before its sleep vector.                                    *)
Delayed(t) ==
  /\ val[t] \in {-1, 0, 1}
  /\ val[t] = -1 => Pending(t)
  /\ val[t] = 1 => ~Pending(t)
  /\ ~(armed[t] /\ Releasing(t))
  /\ pc[t] = "sleep" <=> val[t] = 1 \/ (val[t] = 0 /\ Pending(t))

Places ==
  /\ pc \in [Process -> Labels]
  /\ pc[cron] \in {"start", "top", "lock", "scan", "release", "clock", "dead"}
  /\ \A t \in T : pc[t] \in {"begin", "user", "io", "lock", "write", "sleep", "exiting", "last", "ending", "dead"}
  /\ \A s \in Semaphore : \A p \in ToSet(queue[s]) : Place(s, p)

Entries ==
  /\ armed \in [T -> BOOLEAN] /\ left \in [T -> 0 .. MaxDelay]
  /\ i \in 1 .. MAXTPROC + 1 /\ awoken \in BOOLEAN
  /\ pc[cron] = "release" => i \in T

DelayInv == SemsOK(Sems) /\ Places /\ Entries /\ \A t \in T : Delayed(t)

LEMMA Names ==
  /\ T \subseteq Process /\ T \subseteq Semaphore /\ T \subseteq Int
  /\ cron \in Process /\ cron \notin T
  /\ cron_table_sem \in Semaphore /\ wake_up_cron_sem \in Semaphore
  /\ cron_table_sem \notin T /\ wake_up_cron_sem \notin T /\ cron_table_sem # wake_up_cron_sem
PROOF BY NameAssumption DEF Process, Semaphore, T

LEMMA DelayInit == Init => DelayInv
PROOF
<1> SUFFICES ASSUME Init PROVE DelayInv
  OBVIOUS
<1>1. SemsOK(Sems)
  <2>1. val \in [Semaphore -> Int] /\ queue \in [Semaphore -> Seq(Process)]
    BY DEF Init
  <2>2. ASSUME NEW s \in Semaphore PROVE SemOK(val[s], queue[s])
    <3>1. val[s] \in {0, 1} /\ queue[s] = <<>>
      BY DEF Init
    <3> QED BY <3>1, Sizes, SizeAssumption DEF SemOK
  <2> QED BY <2>1, <2>2 DEF SemsOK, Sems
<1>2. Places
  <2>1. \A s \in Semaphore : ToSet(queue[s]) = {}
    BY DEF Init, ToSet
  <2>2. pc[cron] = "start" /\ \A t \in T : pc[t] = "begin"
    BY Names DEF Init
  <2>3. pc \in [Process -> Labels]
    BY DEF Init, Labels
  <2> QED BY <2>1, <2>2, <2>3 DEF Places
<1>3. Entries
  <2>1. armed \in [T -> BOOLEAN] /\ awoken \in BOOLEAN
    BY DEF Init
  <2>2. left \in [T -> 0 .. MaxDelay] /\ i \in 1 .. MAXTPROC + 1
    BY SizeAssumption DEF Init
  <2>3. pc[cron] # "release"
    BY Names DEF Init
  <2> QED BY <2>1, <2>2, <2>3 DEF Entries
<1>4. ASSUME NEW t \in T PROVE Delayed(t)
  <2>1. val[t] = 0 /\ pc[t] = "begin" /\ pc[cron] = "start"
    BY Names DEF Init
  <2>2. ~armed[t]
    BY ZenonT(20) DEF Init
  <2>3. ~Pending(t) /\ ~Releasing(t)
    BY <2>1, <2>2 DEF Pending, Releasing
  <2> QED BY <2>1, <2>3 DEF Delayed
<1> QED BY <1>1, <1>2, <1>3, <1>4 DEF DelayInv

LEMMA StepFacts ==
  ASSUME Places, NEW p \in Process, NEW l, NEW m \in Labels, At(p, l), Goto(p, m)
  PROVE  /\ pc[p] = l /\ pc'[p] = m /\ pc' \in [Process -> Labels]
         /\ \A r \in Process : r # p => pc'[r] = pc[r]
         /\ \A s \in Semaphore : p \notin ToSet(queue[s])
         /\ pc[cron] # "dead"
PROOF BY DEF Places, At, Goto, Ready, Waits

(* The process that takes a step was not waiting, so only what it waits for *)
(* after the step has to be looked at.                                      *)
LEMMA StepPlaces ==
  ASSUME Places, NEW p \in Process, NEW l, NEW m \in Labels, At(p, l), Goto(p, m),
         p = cron => m \in {"start", "top", "lock", "scan", "release", "clock", "dead"},
         p \in T => m \in {"begin", "user", "io", "lock", "write", "sleep", "exiting", "last", "ending", "dead"},
         \A s \in Semaphore : \A x \in ToSet(queue'[s]) :
           x \in ToSet(queue[s]) \/ (x = p /\ Place(s, p)')
  PROVE  Places'
PROOF
<1>1. /\ pc'[p] = m /\ pc' \in [Process -> Labels]
      /\ \A r \in Process : r # p => pc'[r] = pc[r]
      /\ \A s \in Semaphore : p \notin ToSet(queue[s])
  BY StepFacts
<1>2. ASSUME NEW s \in Semaphore, NEW x \in ToSet(queue'[s]) PROVE Place(s, x)'
  <2>1. CASE x \in ToSet(queue[s])
    <3>1. Place(s, x) /\ x # p /\ (x \in T \/ x = cron)
      BY <1>1, <2>1 DEF Places, Place
    <3>2. pc'[x] = pc[x]
      BY <1>1, <3>1, Names
    <3> QED BY <3>1, <3>2 DEF Place
  <2>2. CASE x = p /\ Place(s, p)'
    BY <2>2
  <2> QED BY <2>1, <2>2
<1> QED BY <1>1, <1>2, Names DEF Places

(* Who waits, by the value of the semaphore.                                *)
LEMMA WaitFacts ==
  ASSUME DelayInv
  PROVE  /\ \A t \in T : Waits(t, t) <=> val[t] = -1
         /\ Waits(cron, wake_up_cron_sem) <=> val[wake_up_cron_sem] < 0
         /\ val[wake_up_cron_sem] >= -1
PROOF
<1>1. ASSUME NEW s \in Semaphore, NEW p, \A x \in ToSet(queue[s]) : x = p
      PROVE  /\ p \in ToSet(queue[s]) <=> val[s] < 0
             /\ val[s] \in Int /\ val[s] >= -1
  <2> DEFINE w == queue[s]
             v == val[s]
  <2>1. SemOK(v, w)
    BY DEF DelayInv, SemsOK, Sems
  <2>2. \A j \in DOMAIN w : w[j] = p
    BY <1>1 DEF ToSet
  <2> HIDE DEF w, v
  <2>3. Len(w) <= 1
    <3> SUFFICES ASSUME Len(w) > 1 PROVE FALSE
      BY <2>1 DEF SemOK
    <3>1. 1 \in DOMAIN w /\ 2 \in DOMAIN w
      BY <2>1 DEF SemOK
    <3>2. w[1] = w[2]
      BY <2>2, <3>1
    <3> QED BY <2>1, <3>1, <3>2 DEF SemOK
  <2>4. v < 0 <=> Len(w) = 1
    BY <2>1, <2>3 DEF SemOK
  <2>5. v >= -1 /\ v \in Int
    BY <2>1, <2>3 DEF SemOK
  <2>6. p \in ToSet(w) <=> Len(w) = 1
    <3>1. Len(w) = 1 => w[1] = p /\ 1 \in DOMAIN w
      BY <2>1, <2>2 DEF SemOK
    <3>2. Len(w) # 1 => DOMAIN w = {}
      BY <2>1, <2>3 DEF SemOK
    <3> QED BY <3>1, <3>2 DEF ToSet
  <2> QED BY <2>4, <2>5, <2>6 DEF w, v
<1>2. ASSUME NEW t \in T PROVE Waits(t, t) <=> val[t] = -1
  <2>1. \A x \in ToSet(queue[t]) : x = t
    BY Names DEF DelayInv, Places, Place
  <2>2. /\ t \in ToSet(queue[t]) <=> val[t] < 0
        /\ val[t] \in Int /\ val[t] >= -1
    BY <1>1, <2>1, Names
  <2> QED BY <2>2 DEF Waits
<1>3. /\ Waits(cron, wake_up_cron_sem) <=> val[wake_up_cron_sem] < 0
      /\ val[wake_up_cron_sem] >= -1
  <2>1. \A x \in ToSet(queue[wake_up_cron_sem]) : x = cron
    BY Names DEF DelayInv, Places, Place
  <2> QED BY <1>1, <2>1, Names DEF Waits
<1> QED BY <1>2, <1>3

-----------------------------------------------------------------------------
(* The vectors, applied.                                                   *)

(* Semaphores that are left alone. *)
LEMMA SameSems ==
  ASSUME SemsOK(Sems), UNCHANGED <<val, queue>>
  PROVE  SemsOK(Sems)' /\ \A s \in Semaphore : ToSet(queue'[s]) = ToSet(queue[s])
PROOF BY DEF SemsOK, Sems

(* What a vector leads to is what the next state has. *)
LEMMA Semop ==
  ASSUME NEW S, SemsOK(S), SEMOP(S)
  PROVE  SemsOK(Sems)' /\ val' = S.val /\ queue' = S.queue
PROOF BY DEF SEMOP, SemsOK, Sems

LEMMA PVector ==
  ASSUME SemsOK(Sems), NEW s \in Semaphore, NEW p \in Process, p \notin ToSet(queue[s]),
         SEMOP(P(Sems, s, p))
  PROVE  /\ SemsOK(Sems)' /\ val' = [val EXCEPT ![s] = @ - 1]
         /\ \A r \in Semaphore : \A x \in ToSet(queue'[r]) :
              x \in ToSet(queue[r]) \/ (x = p /\ r = s)
PROOF
<1>1. Sems.val = val /\ Sems.queue = queue
  BY DEF Sems
<1> DEFINE R == P(Sems, s, p)
<1>2. SemsOK(R) /\ Locked(Sems, R, s, p)
  BY <1>1, PFacts
<1> HIDE DEF R
<1>3. SemsOK(Sems)' /\ val' = R.val /\ queue' = R.queue
  BY <1>2, Semop DEF R
<1> QED BY <1>1, <1>2, <1>3 DEF Locked

LEMMA VVector ==
  ASSUME SemsOK(Sems), NEW s \in Semaphore, SEMOP(V(Sems, s))
  PROVE  /\ SemsOK(Sems)' /\ val' = [val EXCEPT ![s] = Capped(@)]
         /\ \A r \in Semaphore : \A x \in ToSet(queue'[r]) : x \in ToSet(queue[r])
PROOF
<1>1. Sems.val = val /\ Sems.queue = queue
  BY DEF Sems
<1> DEFINE R == V(Sems, s)
<1>2. SemsOK(R) /\ Unlocked(Sems, R, s)
  BY <1>1, VFacts
<1> HIDE DEF R
<1>3. SemsOK(Sems)' /\ val' = R.val /\ queue' = R.queue
  BY <1>2, Semop DEF R
<1> QED BY <1>1, <1>2, <1>3 DEF Unlocked

(* <V(cron_table_sem), P(t), V(wake_up_cron_sem)> *)
LEMMA SleepFacts ==
  ASSUME SemsOK(Sems), NEW t \in T, t \notin ToSet(queue[t]), SEMOP(SleepVector(t))
  PROVE  /\ SemsOK(Sems)'
         /\ val' = [[[val EXCEPT ![cron_table_sem] = Capped(@)] EXCEPT ![t] = @ - 1]
                      EXCEPT ![wake_up_cron_sem] = Capped(@)]
         /\ \A r \in Semaphore : \A x \in ToSet(queue'[r]) :
              x \in ToSet(queue[r]) \/ (x = t /\ r = t)
PROOF
<1> DEFINE A == V(Sems, cron_table_sem)
           B == P(A, t, t)
           C == V(B, wake_up_cron_sem)
<1>0. Sems.val = val /\ Sems.queue = queue
  BY DEF Sems
<1>1. SemsOK(A) /\ Unlocked(Sems, A, cron_table_sem)
  BY Names, VFacts
<1>2. t \notin ToSet(A.queue[t]) /\ t \in Process /\ t \in Semaphore
  BY <1>0, <1>1, Names DEF Unlocked
<1> HIDE DEF A
<1>3. SemsOK(B) /\ Locked(A, B, t, t)
  BY <1>1, <1>2, PFacts
<1> HIDE DEF B
<1>4. SemsOK(C) /\ Unlocked(B, C, wake_up_cron_sem)
  BY <1>3, Names, VFacts
<1>5. SEMOP(C)
  BY DEF SleepVector, A, B
<1> HIDE DEF C
<1>6. SemsOK(Sems)' /\ val' = C.val /\ queue' = C.queue
  BY <1>4, <1>5, Semop
<1> QED BY <1>0, <1>1, <1>3, <1>4, <1>6 DEF Locked, Unlocked

(* <V(t), P(wake_up_cron_sem), V(cron_table_sem)> *)
LEMMA ReleaseFacts ==
  ASSUME SemsOK(Sems), NEW t \in T, cron \notin ToSet(queue[wake_up_cron_sem]),
         SEMOP(ReleaseVector(t))
  PROVE  /\ SemsOK(Sems)'
         /\ val' = [[[val EXCEPT ![t] = Capped(@)] EXCEPT ![wake_up_cron_sem] = @ - 1]
                      EXCEPT ![cron_table_sem] = Capped(@)]
         /\ \A r \in Semaphore : \A x \in ToSet(queue'[r]) :
              x \in ToSet(queue[r]) \/ (x = cron /\ r = wake_up_cron_sem)
PROOF
<1> DEFINE A == V(Sems, t)
           B == P(A, wake_up_cron_sem, cron)
           C == V(B, cron_table_sem)
<1>0. Sems.val = val /\ Sems.queue = queue /\ t \in Semaphore
  BY Names DEF Sems
<1>1. SemsOK(A) /\ Unlocked(Sems, A, t)
  BY <1>0, VFacts
<1>2. cron \notin ToSet(A.queue[wake_up_cron_sem])
  BY <1>0, <1>1, Names DEF Unlocked
<1> HIDE DEF A
<1>3. SemsOK(B) /\ Locked(A, B, wake_up_cron_sem, cron)
  BY <1>1, <1>2, Names, PFacts
<1> HIDE DEF B
<1>4. SemsOK(C) /\ Unlocked(B, C, cron_table_sem)
  BY <1>3, Names, VFacts
<1>5. SEMOP(C)
  BY DEF ReleaseVector, A, B
<1> HIDE DEF C
<1>6. SemsOK(Sems)' /\ val' = C.val /\ queue' = C.queue
  BY <1>4, <1>5, Semop
<1> QED BY <1>0, <1>1, <1>3, <1>4, <1>6 DEF Locked, Unlocked

-----------------------------------------------------------------------------
(* DelayInv is inductive: the T-processes.                                 *)

(* Nothing of an entry, or of the process that owns it, has changed.        *)
LEMMA SameEntry ==
  ASSUME NEW t \in T, Delayed(t), val'[t] = val[t], armed'[t] = armed[t],
         Releasing(t)' <=> Releasing(t), pc'[t] = "sleep" <=> pc[t] = "sleep"
  PROVE  Delayed(t)'
PROOF
<1>1. Pending(t)' <=> Pending(t)
  BY ZenonT(20) DEF Pending
<1>2. armed'[t] /\ Releasing(t)' <=> armed[t] /\ Releasing(t)
  BY ZenonT(20)
<1> QED BY <1>1, <1>2, ZenonT(20) DEF Delayed

(* A step of p that changes no entry and no semaphore of an entry, and is   *)
(* not about a release or a sleep.                                         *)
LEMMA OrdinaryStep ==
  ASSUME DelayInv, NEW p \in Process, NEW l, NEW m \in Labels, Step(p, l, m),
         p = cron => m \in {"start", "top", "lock", "scan", "clock", "dead"} /\ l # "release",
         p \in T => m \in {"begin", "user", "io", "lock", "write", "exiting", "last", "ending", "dead"} /\ l # "sleep",
         SemsOK(Sems)', \A t \in T : val'[t] = val[t],
         \A s \in Semaphore : \A x \in ToSet(queue'[s]) :
           x \in ToSet(queue[s]) \/ (x = p /\ Place(s, p)'),
         armed' = armed, left' \in [T -> 0 .. MaxDelay], p = cron \/ i' = i,
         i' \in 1 .. MAXTPROC + 1, awoken' \in BOOLEAN
  PROVE  DelayInv'
PROOF
<1>0. Places /\ Entries /\ \A t \in T : Delayed(t)
  BY DEF DelayInv
<1>1. /\ pc[p] = l /\ pc'[p] = m
      /\ \A r \in Process : r # p => pc'[r] = pc[r]
  BY <1>0, StepFacts DEF Step
<1>3. Places'
  BY <1>0, StepPlaces DEF Step
<1>4. /\ pc'[cron] = "release" <=> pc[cron] = "release"
      /\ pc[cron] = "release" => i' = i
  BY <1>1, Names
<1>5. Entries'
  BY <1>0, <1>4 DEF Entries
<1>6. ASSUME NEW t \in T PROVE Delayed(t)'
  <2>1. Releasing(t)' <=> Releasing(t)
    BY <1>4 DEF Releasing
  <2>2. pc'[t] = "sleep" <=> pc[t] = "sleep"
    BY <1>1, Names
  <2>3. val'[t] = val[t] /\ armed'[t] = armed[t]
    OBVIOUS
  <2> QED BY <1>0, <2>1, <2>2, <2>3, SameEntry
<1> QED BY <1>3, <1>5, <1>6 DEF DelayInv

(* One that touches no semaphore at all. *)
LEMMA QuietStep ==
  ASSUME DelayInv, NEW p \in Process, NEW l, NEW m \in Labels, Step(p, l, m),
         p = cron => m \in {"start", "top", "lock", "scan", "clock", "dead"} /\ l # "release",
         p \in T => m \in {"begin", "user", "io", "lock", "write", "exiting", "last", "ending", "dead"} /\ l # "sleep",
         UNCHANGED <<val, queue, armed, i, awoken>>, left' \in [T -> 0 .. MaxDelay]
  PROVE  DelayInv'
PROOF
<1>1. SemsOK(Sems)' /\ \A s \in Semaphore : ToSet(queue'[s]) = ToSet(queue[s])
  BY SameSems DEF DelayInv
<1>2. i' \in 1 .. MAXTPROC + 1 /\ awoken' \in BOOLEAN /\ \A t \in T : val'[t] = val[t]
  BY DEF DelayInv, Entries
<1> QED BY <1>1, <1>2, OrdinaryStep

LEMMA CountDelay == ASSUME DelayInv, NEW t \in T, Count(t) PROVE DelayInv'
PROOF
<1>1. /\ Step(t, "begin", "user") /\ UNCHANGED <<val, queue, armed, i, awoken>>
      /\ left' \in [T -> 0 .. MaxDelay]
  BY DEF Count, cronVars, DelayInv, Entries
<1> QED BY <1>1, QuietStep, Names DEF Labels

LEMMA IODelay == ASSUME DelayInv, NEW t \in T, StartIO(t) \/ EndIO(t) PROVE DelayInv'
PROOF
<1>1. UNCHANGED <<val, queue, armed, i, awoken>> /\ left' \in [T -> 0 .. MaxDelay]
  BY DEF StartIO, EndIO, tprocVars, cronVars, DelayInv, Entries
<1>2. CASE StartIO(t)
  <2>1. Step(t, "user", "io")
    BY <1>2 DEF StartIO
  <2> QED BY <1>1, <2>1, QuietStep, Names DEF Labels
<1>3. CASE EndIO(t)
  <2>1. Step(t, "io", "user")
    BY <1>3 DEF EndIO
  <2> QED BY <1>1, <2>1, QuietStep, Names DEF Labels
<1> QED BY <1>2, <1>3

LEMMA StartDelayDelay == ASSUME DelayInv, NEW t \in T, StartDelay(t) PROVE DelayInv'
PROOF
<1>1. /\ Step(t, "user", "lock") /\ UNCHANGED <<val, queue, armed, i, awoken>>
      /\ left' \in [T -> 0 .. MaxDelay]
  BY DEF StartDelay, cronVars, DelayInv, Entries
<1> QED BY <1>1, QuietStep, Names DEF Labels

LEMMA TerminateDelay == ASSUME DelayInv, NEW t \in T, Terminate(t) PROVE DelayInv'
PROOF
<1>1. /\ Step(t, "user", "exiting") /\ UNCHANGED <<val, queue, armed, i, awoken>>
      /\ left' \in [T -> 0 .. MaxDelay]
  BY DEF Terminate, cronVars, DelayInv, Entries
<1> QED BY <1>1, QuietStep, Names DEF Labels

LEMMA CronTopDelay == ASSUME DelayInv, CronTop PROVE DelayInv'
PROOF
<1>1. PICK m \in {"dead", "lock"} : Step(cron, "top", m)
  BY DEF CronTop, Step
<1>2. UNCHANGED <<val, queue, armed, i, awoken>> /\ left' \in [T -> 0 .. MaxDelay]
  BY DEF CronTop, tprocVars, cronVars, DelayInv, Entries
<1> QED BY <1>1, <1>2, QuietStep, Names DEF Labels

LEMMA PseudoClockDelay == ASSUME DelayInv, PseudoClock PROVE DelayInv'
PROOF
<1>1. Step(cron, "clock", "top")
  BY DEF PseudoClock
<1>2. UNCHANGED <<val, queue, armed, i, awoken>> /\ left' \in [T -> 0 .. MaxDelay]
  BY DEF PseudoClock, tprocVars, cronVars, DelayInv, Entries
<1> QED BY <1>1, <1>2, QuietStep, Names DEF Labels

LEMMA LockTableDelay == ASSUME DelayInv, NEW t \in T, LockTable(t) PROVE DelayInv'
PROOF
<1>1. /\ Step(t, "lock", "write") /\ SEMOP(P(Sems, cron_table_sem, t))
      /\ UNCHANGED <<armed, i, awoken>>
      /\ left' \in [T -> 0 .. MaxDelay] /\ i \in 1 .. MAXTPROC + 1 /\ awoken \in BOOLEAN
  BY DEF LockTable, tprocVars, cronVars, DelayInv, Entries
<1>2. t \notin ToSet(queue[cron_table_sem]) /\ pc'[t] = "write"
  BY <1>1, StepFacts, Names DEF Step, DelayInv, Labels
<1>3. /\ SemsOK(Sems)' /\ val' = [val EXCEPT ![cron_table_sem] = @ - 1]
      /\ \A s \in Semaphore : \A x \in ToSet(queue'[s]) :
           x \in ToSet(queue[s]) \/ (x = t /\ s = cron_table_sem)
  BY <1>1, <1>2, PVector, Names DEF DelayInv
<1>4. Place(cron_table_sem, t)'
  BY <1>2 DEF Place
<1>5. \A r \in T : val'[r] = val[r]
  BY <1>3, Names DEF DelayInv, SemsOK, Sems
<1>6. \A s \in Semaphore : \A x \in ToSet(queue'[s]) :
        x \in ToSet(queue[s]) \/ (x = t /\ Place(s, t)')
  BY <1>3, <1>4
<1>7. armed' = armed /\ i' = i /\ i' \in 1 .. MAXTPROC + 1 /\ awoken' \in BOOLEAN
  BY <1>1, ZenonT(20)
<1>8. t \in Process /\ t # cron /\ "write" \in Labels
  BY Names DEF Labels
<1> QED BY <1>1, <1>3, <1>5, <1>6, <1>7, <1>8, OrdinaryStep

LEMMA WakeCronDelay == ASSUME DelayInv, NEW t \in T, WakeCron(t) PROVE DelayInv'
PROOF
<1>1. /\ Step(t, "last", "ending") /\ SEMOP(V(Sems, wake_up_cron_sem))
      /\ UNCHANGED <<armed, i, awoken>>
      /\ left' \in [T -> 0 .. MaxDelay] /\ i \in 1 .. MAXTPROC + 1 /\ awoken \in BOOLEAN
  BY DEF WakeCron, tprocVars, cronVars, DelayInv, Entries
<1>2. /\ SemsOK(Sems)' /\ val' = [val EXCEPT ![wake_up_cron_sem] = Capped(@)]
      /\ \A s \in Semaphore : \A x \in ToSet(queue'[s]) : x \in ToSet(queue[s])
  BY <1>1, VVector, Names DEF DelayInv
<1>3. \A r \in T : val'[r] = val[r]
  BY <1>2, Names DEF DelayInv, SemsOK, Sems
<1>4. armed' = armed /\ i' = i /\ i' \in 1 .. MAXTPROC + 1 /\ awoken' \in BOOLEAN
  BY <1>1, ZenonT(20)
<1>5. t \in Process /\ t # cron /\ "ending" \in Labels
  BY Names DEF Labels
<1> QED BY <1>1, <1>2, <1>3, <1>4, <1>5, OrdinaryStep

LEMMA EndDelay == ASSUME DelayInv, NEW t \in T, End(t) PROVE DelayInv'
PROOF
<1>1. CASE TestLast(t)
  <2>1. PICK m \in {"last", "ending"} : Step(t, "exiting", m)
    BY <1>1 DEF TestLast
  <2>2. UNCHANGED <<val, queue, armed, i, awoken>> /\ left' \in [T -> 0 .. MaxDelay]
    BY <1>1 DEF TestLast, tprocVars, cronVars, DelayInv, Entries
  <2> QED BY <2>1, <2>2, QuietStep, Names DEF Labels
<1>2. CASE Die(t)
  <2>1. /\ Step(t, "ending", "dead") /\ UNCHANGED <<val, queue, armed, i, awoken>>
        /\ left' \in [T -> 0 .. MaxDelay]
    BY <1>2 DEF Die, tprocVars, cronVars, DelayInv, Entries
  <2> QED BY <2>1, QuietStep, Names DEF Labels
<1> QED BY <1>1, <1>2, WakeCronDelay DEF End

LEMMA CronStartDelay == ASSUME DelayInv, CronStart PROVE DelayInv'
PROOF
<1>1. /\ Step(cron, "start", "top") /\ SEMOP(P(Sems, wake_up_cron_sem, cron))
      /\ UNCHANGED <<armed, i, awoken>>
      /\ left' \in [T -> 0 .. MaxDelay] /\ i \in 1 .. MAXTPROC + 1 /\ awoken \in BOOLEAN
  BY DEF CronStart, tprocVars, cronVars, DelayInv, Entries
<1>2. cron \notin ToSet(queue[wake_up_cron_sem]) /\ pc'[cron] = "top"
  BY <1>1, StepFacts, Names DEF Step, DelayInv, Labels
<1>3. /\ SemsOK(Sems)' /\ val' = [val EXCEPT ![wake_up_cron_sem] = @ - 1]
      /\ \A s \in Semaphore : \A x \in ToSet(queue'[s]) :
           x \in ToSet(queue[s]) \/ (x = cron /\ s = wake_up_cron_sem)
  BY <1>1, <1>2, PVector, Names DEF DelayInv
<1>4. Place(wake_up_cron_sem, cron)'
  BY <1>2 DEF Place
<1>5. \A r \in T : val'[r] = val[r]
  BY <1>3, Names DEF DelayInv, SemsOK, Sems
<1>6. \A s \in Semaphore : \A x \in ToSet(queue'[s]) :
        x \in ToSet(queue[s]) \/ (x = cron /\ Place(s, cron)')
  BY <1>3, <1>4
<1>7. armed' = armed /\ i' \in 1 .. MAXTPROC + 1 /\ awoken' \in BOOLEAN
  BY <1>1, ZenonT(20)
<1>8. cron \in Process /\ cron \notin T /\ "top" \in Labels
  BY Names DEF Labels
<1> QED BY <1>1, <1>3, <1>5, <1>6, <1>7, <1>8, OrdinaryStep

LEMMA CronLockDelay == ASSUME DelayInv, CronLock PROVE DelayInv'
PROOF
<1>1. /\ Step(cron, "lock", "scan") /\ SEMOP(P(Sems, cron_table_sem, cron))
      /\ armed' = armed /\ i' \in 1 .. MAXTPROC + 1 /\ awoken' \in BOOLEAN
      /\ left' \in [T -> 0 .. MaxDelay]
  <2>1. awoken' \in BOOLEAN
    BY ZenonT(20) DEF CronLock
  <2>2. i' \in 1 .. MAXTPROC + 1
    BY SizeAssumption DEF CronLock
  <2>3. armed' = armed /\ left' \in [T -> 0 .. MaxDelay]
    BY DEF CronLock, tprocVars, DelayInv, Entries
  <2> QED BY <2>1, <2>2, <2>3 DEF CronLock
<1>2. cron \notin ToSet(queue[cron_table_sem]) /\ pc'[cron] = "scan"
  BY <1>1, StepFacts, Names DEF Step, DelayInv, Labels
<1>3. /\ SemsOK(Sems)' /\ val' = [val EXCEPT ![cron_table_sem] = @ - 1]
      /\ \A s \in Semaphore : \A x \in ToSet(queue'[s]) :
           x \in ToSet(queue[s]) \/ (x = cron /\ s = cron_table_sem)
  BY <1>1, <1>2, PVector, Names DEF DelayInv
<1>4. Place(cron_table_sem, cron)'
  BY <1>2 DEF Place
<1>5. \A r \in T : val'[r] = val[r]
  BY <1>3, Names DEF DelayInv, SemsOK, Sems
<1>6. \A s \in Semaphore : \A x \in ToSet(queue'[s]) :
        x \in ToSet(queue[s]) \/ (x = cron /\ Place(s, cron)')
  BY <1>3, <1>4
<1>7. cron \in Process /\ cron \notin T /\ "scan" \in Labels
  BY Names DEF Labels
<1> QED BY <1>1, <1>3, <1>5, <1>6, <1>7, OrdinaryStep

LEMMA CronScannedDelay == ASSUME DelayInv, CronScanned PROVE DelayInv'
PROOF
<1>1. /\ UNCHANGED <<armed, i, awoken>>
      /\ left' \in [T -> 0 .. MaxDelay] /\ i \in 1 .. MAXTPROC + 1 /\ awoken \in BOOLEAN
  BY DEF CronScanned, tprocVars, cronVars, DelayInv, Entries
<1>2. CASE awoken
  <2>1. Step(cron, "scan", "top") /\ UNCHANGED <<val, queue>>
    BY <1>2 DEF CronScanned, Step
  <2> QED BY <1>1, <2>1, QuietStep, Names DEF Labels
<1>3. CASE ~awoken
  <2>1. Step(cron, "scan", "clock") /\ SEMOP(V(Sems, cron_table_sem))
    BY <1>3 DEF CronScanned, Step
  <2>2. /\ SemsOK(Sems)' /\ val' = [val EXCEPT ![cron_table_sem] = Capped(@)]
        /\ \A s \in Semaphore : \A x \in ToSet(queue'[s]) : x \in ToSet(queue[s])
    BY <2>1, VVector, Names DEF DelayInv
  <2>3. \A r \in T : val'[r] = val[r]
    BY <2>2, Names DEF DelayInv, SemsOK, Sems
  <2>4. armed' = armed /\ i' \in 1 .. MAXTPROC + 1 /\ awoken' \in BOOLEAN
    BY <1>1, ZenonT(20)
  <2>5. cron \in Process /\ cron \notin T /\ "clock" \in Labels
    BY Names DEF Labels
  <2> QED BY <1>1, <2>1, <2>2, <2>3, <2>4, <2>5, OrdinaryStep
<1> QED BY <1>2, <1>3

(* The entry is set: its process is not waiting and nobody has released it. *)
LEMMA SetWakeUpTimeDelay == ASSUME DelayInv, NEW t \in T, SetWakeUpTime(t) PROVE DelayInv'
PROOF
<1>0. SemsOK(Sems) /\ Places /\ Entries /\ \A r \in T : Delayed(r)
  BY DEF DelayInv
<1>1. /\ Step(t, "write", "sleep") /\ UNCHANGED <<val, queue, left, i, awoken>>
      /\ armed' = [armed EXCEPT ![t] = TRUE]
  BY DEF SetWakeUpTime, cronVars
<1>2. /\ pc[t] = "write" /\ pc'[t] = "sleep"
      /\ \A r \in Process : r # t => pc'[r] = pc[r]
      /\ t \notin ToSet(queue[t])
  BY <1>0, <1>1, StepFacts, Names DEF Step, Labels
<1>3. SemsOK(Sems)' /\ \A s \in Semaphore : ToSet(queue'[s]) = ToSet(queue[s])
  BY <1>0, <1>1, SameSems
<1>4. Places'
  BY <1>0, <1>1, <1>3, StepPlaces, Names DEF Step, Labels
<1>5. \A r \in T : Releasing(r)' <=> Releasing(r)
  BY <1>1, <1>2, Names DEF Releasing
<1>6. Entries'
  <2>1. armed' \in [T -> BOOLEAN]
    BY <1>0, <1>1 DEF Entries
  <2> QED BY <1>0, <1>1, <1>2, <2>1, Names DEF Entries
<1>7. Delayed(t)'
  <2>1. val[t] = 0 /\ ~Pending(t)
    <3>1. val[t] # -1
      BY <1>2, WaitFacts DEF Waits
    <3> QED BY <1>0, <1>2, <3>1 DEF Delayed
  <2>2. Pending(t)' /\ ~Releasing(t)' /\ val'[t] = 0
    <3>1. armed'[t]
      BY <1>0, <1>1, ZenonT(20) DEF Entries
    <3> QED BY <1>1, <1>5, <2>1, <3>1 DEF Pending
  <2> QED BY <1>2, <2>2 DEF Delayed
<1>8. ASSUME NEW r \in T, r # t PROVE Delayed(r)'
  <2>1. val'[r] = val[r] /\ armed'[r] = armed[r] /\ pc'[r] = pc[r]
    BY <1>0, <1>1, <1>2, <1>8, Names DEF Entries
  <2> QED BY <1>0, <1>5, <2>1, SameEntry
<1> QED BY <1>3, <1>4, <1>6, <1>7, <1>8 DEF DelayInv

(* The sleep vector: it blocks, unless cron has come before. *)
LEMMA SleepDelay == ASSUME DelayInv, NEW t \in T, Sleep(t) PROVE DelayInv'
PROOF
<1>0. SemsOK(Sems) /\ Places /\ Entries /\ \A r \in T : Delayed(r)
  BY DEF DelayInv
<1>1. /\ Step(t, "sleep", "user") /\ UNCHANGED <<armed, left, i, awoken>>
      /\ SEMOP(SleepVector(t))
  BY DEF Sleep, tprocVars, cronVars
<1>2. /\ pc[t] = "sleep" /\ pc'[t] = "user"
      /\ \A r \in Process : r # t => pc'[r] = pc[r]
      /\ t \notin ToSet(queue[t])
  BY <1>0, <1>1, StepFacts, Names DEF Step, Labels
<1>3. /\ SemsOK(Sems)'
      /\ val' = [[[val EXCEPT ![cron_table_sem] = Capped(@)] EXCEPT ![t] = @ - 1]
                   EXCEPT ![wake_up_cron_sem] = Capped(@)]
      /\ \A r \in Semaphore : \A x \in ToSet(queue'[r]) : x \in ToSet(queue[r]) \/ (x = t /\ r = t)
  BY <1>0, <1>1, <1>2, SleepFacts
<1>4. val'[t] = val[t] - 1 /\ \A r \in T : r # t => val'[r] = val[r]
  BY <1>0, <1>3, Names DEF SemsOK, Sems
<1>5. Places'
  <2>1. Place(t, t)'
    BY <1>2 DEF Place
  <2> QED BY <1>0, <1>1, <1>3, <2>1, StepPlaces, Names DEF Step, Labels
<1>6. \A r \in T : Releasing(r)' <=> Releasing(r)
  BY <1>1, <1>2, Names DEF Releasing
<1>7. Entries'
  BY <1>0, <1>1, <1>2, Names DEF Entries
<1>8. Delayed(t)'
  <2>1. Pending(t)' <=> Pending(t)
    BY <1>1, <1>6 DEF Pending
  <2>2. ~(armed'[t] /\ Releasing(t)')
    BY <1>0, <1>1, <1>6, ZenonT(20) DEF Delayed
  <2>3. val[t] = 1 \/ (val[t] = 0 /\ Pending(t))
    BY <1>0, <1>2 DEF Delayed
  <2>4. CASE val[t] = 1
    <3>1. ~Pending(t) /\ val'[t] = 0
      BY <1>0, <1>4, <2>4 DEF Delayed
    <3> QED BY <1>2, <2>1, <2>2, <3>1 DEF Delayed
  <2>5. CASE val[t] = 0 /\ Pending(t)
    <3>1. val'[t] = -1
      BY <1>4, <2>5
    <3> QED BY <1>2, <2>1, <2>2, <2>5, <3>1 DEF Delayed
  <2> QED BY <2>3, <2>4, <2>5
<1>9. ASSUME NEW r \in T, r # t PROVE Delayed(r)'
  <2>1. val'[r] = val[r] /\ armed'[r] = armed[r] /\ pc'[r] = pc[r]
    BY <1>1, <1>2, <1>4, <1>9, Names
  <2> QED BY <1>0, <1>6, <2>1, SameEntry
<1> QED BY <1>3, <1>5, <1>7, <1>8, <1>9 DEF DelayInv

(* Cron takes a due entry, or goes on to the next one. *)
LEMMA CronScanDelay == ASSUME DelayInv, CronScan PROVE DelayInv'
PROOF
<1>0. SemsOK(Sems) /\ Places /\ Entries /\ \A r \in T : Delayed(r)
  BY DEF DelayInv
<1>1. At(cron, "scan") /\ i \in T /\ UNCHANGED <<val, queue, left>>
  BY <1>0, SizeAssumption DEF CronScan, Entries, T
<1>2. SemsOK(Sems)' /\ \A s \in Semaphore : ToSet(queue'[s]) = ToSet(queue[s])
  BY <1>0, <1>1, SameSems
<1>3. pc[cron] = "scan"
  BY <1>1 DEF At
<1>4. CASE Due(i)
  <2>1. /\ Goto(cron, "release") /\ i' = i /\ armed' = [armed EXCEPT ![i] = FALSE] /\ armed[i]
    BY <1>4 DEF CronScan, Due
  <2>2. /\ pc'[cron] = "release"
        /\ \A r \in Process : r # cron => pc'[r] = pc[r]
    BY <1>0, <1>1, <2>1, StepFacts, Names DEF Labels
  <2>3. Places'
    BY <1>0, <1>1, <1>2, <2>1, StepPlaces, Names DEF Labels
  <2>4. Entries'
    <3>1. armed' \in [T -> BOOLEAN]
      BY <1>0, <2>1 DEF Entries
    <3>2. awoken' \in BOOLEAN
      BY <1>4, ZenonT(20) DEF CronScan
    <3> QED BY <1>0, <1>1, <2>1, <3>1, <3>2 DEF Entries
  <2>5. Delayed(i)'
    <3>1. ~armed'[i]
      BY <1>0, <1>1, <2>1, ZenonT(20) DEF Entries
    <3>2. Pending(i) /\ Pending(i)' /\ val'[i] = val[i] /\ pc'[i] = pc[i]
      BY <1>1, <2>1, <2>2, Names DEF Pending, Releasing
    <3>3. ~(armed[i] /\ Releasing(i))' /\ i' = i
      BY <2>1, <3>1, ZenonT(20)
    <3> QED BY <1>0, <1>1, <2>1, <3>2, <3>3 DEF Delayed
  <2>6. ASSUME NEW r \in T, r # i PROVE Delayed(r)'
    <3>1. val'[r] = val[r] /\ armed'[r] = armed[r] /\ pc'[r] = pc[r]
      BY <1>0, <1>1, <2>1, <2>2, <2>6, Names DEF Entries
    <3>2. Releasing(r)' <=> Releasing(r)
      BY <1>3, <2>1, <2>6 DEF Releasing
    <3> QED BY <1>0, <3>1, <3>2, SameEntry
  <2> QED BY <1>2, <2>1, <2>3, <2>4, <2>5, <2>6 DEF DelayInv
<1>5. CASE ~Due(i)
  <2>1. i' = i + 1 /\ UNCHANGED <<pc, armed, awoken>>
    BY <1>5 DEF CronScan
  <2>2. Places'
    BY <1>0, <1>2, <2>1 DEF Places, Place
  <2>3. Entries'
    BY <1>0, <1>1, <1>3, <2>1, SizeAssumption DEF Entries, T
  <2>4. ASSUME NEW r \in T PROVE Delayed(r)'
    <3>1. val'[r] = val[r] /\ armed'[r] = armed[r] /\ pc'[r] = pc[r]
      BY <1>1, <2>1
    <3>2. Releasing(r)' <=> Releasing(r)
      BY <1>3, <2>1 DEF Releasing
    <3> QED BY <1>0, <3>1, <3>2, SameEntry
  <2> QED BY <1>2, <2>2, <2>3, <2>4 DEF DelayInv
<1> QED BY <1>4, <1>5

(* The release: the process runs, or will not block when it goes to sleep.  *)
LEMMA CronReleaseDelay == ASSUME DelayInv, CronRelease PROVE DelayInv'
PROOF
<1>0. SemsOK(Sems) /\ Places /\ Entries /\ \A r \in T : Delayed(r)
  BY DEF DelayInv
<1>1. /\ Step(cron, "release", "scan") /\ UNCHANGED <<armed, left, awoken>>
      /\ SEMOP(ReleaseVector(i)) /\ i' = i + 1
  BY DEF CronRelease, tprocVars
<1>2. /\ pc[cron] = "release" /\ pc'[cron] = "scan" /\ i \in T
      /\ \A r \in Process : r # cron => pc'[r] = pc[r]
      /\ cron \notin ToSet(queue[wake_up_cron_sem])
  BY <1>0, <1>1, StepFacts, Names DEF Step, Labels, Entries
<1>3. /\ SemsOK(Sems)'
      /\ val' = [[[val EXCEPT ![i] = Capped(@)] EXCEPT ![wake_up_cron_sem] = @ - 1]
                   EXCEPT ![cron_table_sem] = Capped(@)]
      /\ \A r \in Semaphore : \A x \in ToSet(queue'[r]) :
           x \in ToSet(queue[r]) \/ (x = cron /\ r = wake_up_cron_sem)
  BY <1>0, <1>1, <1>2, ReleaseFacts
<1>4. val'[i] = Capped(val[i]) /\ \A r \in T : r # i => val'[r] = val[r]
  BY <1>0, <1>2, <1>3, Names DEF SemsOK, Sems
<1>5. Places'
  <2>1. Place(wake_up_cron_sem, cron)'
    BY <1>2 DEF Place
  <2> QED BY <1>0, <1>1, <1>3, <2>1, StepPlaces, Names DEF Step, Labels
<1>6. \A r \in T : ~Releasing(r)' /\ (r # i => ~Releasing(r))
  BY <1>2 DEF Releasing
<1>7. Entries'
  BY <1>0, <1>1, <1>2, SizeAssumption DEF Entries, T
<1>8. ASSUME NEW r \in T, r = i PROVE Delayed(r)'
  <2>1. Releasing(r) /\ Pending(r) /\ ~armed[r]
    BY <1>0, <1>2, <1>8 DEF Delayed, Pending, Releasing
  <2>2. ~Pending(r)' /\ ~Releasing(r)'
    BY <1>1, <1>6, <2>1 DEF Pending
  <2>3. val[r] \in {-1, 0} /\ val'[r] = val[r] + 1
    BY <1>0, <1>4, <1>8, <2>1, Sizes, SizeAssumption DEF Delayed, Capped
  <2>4. pc'[r] = pc[r] /\ (pc[r] = "sleep" <=> val[r] = 0)
    <3>1. pc[r] = "sleep" <=> val[r] = 0
      BY <1>0, <2>1, <2>3 DEF Delayed
    <3> QED BY <1>2, <3>1, Names
  <2> QED BY <2>2, <2>3, <2>4 DEF Delayed
<1>9. ASSUME NEW r \in T, r # i PROVE Delayed(r)'
  <2>1. val'[r] = val[r] /\ armed'[r] = armed[r] /\ pc'[r] = pc[r]
    BY <1>1, <1>2, <1>4, <1>9, Names
  <2> QED BY <1>0, <1>6, <1>9, <2>1, SameEntry
<1> QED BY <1>3, <1>5, <1>7, <1>8, <1>9 DEF DelayInv

LEMMA IdleDelay == ASSUME DelayInv, Tick \/ UNCHANGED vars PROVE DelayInv'
PROOF
<1>0. SemsOK(Sems) /\ Places /\ Entries /\ \A r \in T : Delayed(r)
  BY DEF DelayInv
<1>1. UNCHANGED <<pc, val, queue, armed, i, awoken>> /\ left' \in [T -> 0 .. MaxDelay]
  <2>1. CASE Tick
    <3>1. \A t \in T : left[t] \in 0 .. MaxDelay
      BY <1>0 DEF Entries
    <3>2. \A t \in T : (IF left[t] > 0 THEN left[t] - 1 ELSE 0) \in 0 .. MaxDelay
      BY <3>1, SizeAssumption
    <3> QED BY <2>1, <3>2 DEF Tick, cronVars
  <2>2. CASE UNCHANGED vars
    BY <1>0, <2>2 DEF vars, Entries
  <2> QED BY <2>1, <2>2
<1>2. SemsOK(Sems)' /\ \A s \in Semaphore : ToSet(queue'[s]) = ToSet(queue[s])
  BY <1>0, <1>1, SameSems
<1>3. Places' /\ Entries'
  BY <1>0, <1>1, <1>2 DEF Places, Place, Entries
<1>4. ASSUME NEW r \in T PROVE Delayed(r)'
  <2>1. val'[r] = val[r] /\ armed'[r] = armed[r] /\ pc'[r] = pc[r]
    BY <1>1
  <2>2. Releasing(r)' <=> Releasing(r)
    BY <1>1 DEF Releasing
  <2> QED BY <1>0, <2>1, <2>2, SameEntry
<1> QED BY <1>2, <1>3, <1>4 DEF DelayInv

LEMMA DelayNext == DelayInv /\ [Next]_vars => DelayInv'
PROOF BY CountDelay, IODelay, StartDelayDelay, LockTableDelay, SetWakeUpTimeDelay, SleepDelay,
  TerminateDelay, EndDelay, CronStartDelay, CronTopDelay, CronLockDelay, CronScanDelay, CronReleaseDelay,
  CronScannedDelay, PseudoClockDelay, IdleDelay DEF Next, Delay, Daemon

LEMMA DelayInvariant == Spec => []DelayInv
PROOF BY DelayInit, DelayNext, PTL DEF Spec

(* Nobody is forgotten: the two orders of cron's release and the sleep       *)
(* vector both lead to a process that goes on, and a set entry has a        *)
(* process that needs it, for any number of T-processes and any delays.     *)
THEOREM DelaysRemembered == Spec => []NotForgotten
PROOF
<1>1. ASSUME DelayInv PROVE NotForgotten
  <2>1. ASSUME NEW t \in T, Waits(t, t) PROVE armed[t] \/ (pc[cron] = "release" /\ i = t)
    <3>1. val[t] = -1
      BY <1>1, <2>1, WaitFacts
    <3>2. Pending(t)
      BY <1>1, <3>1 DEF DelayInv, Delayed
    <3> QED BY <3>2 DEF Pending, Releasing
  <2>2. ASSUME NEW t \in T, armed[t] PROVE Waits(t, t) \/ pc[t] = "sleep"
    <3>1. Pending(t)
      BY <2>2 DEF Pending
    <3>2. val[t] = -1 \/ pc[t] = "sleep"
      BY <1>1, <3>1 DEF DelayInv, Delayed
    <3> QED BY <1>1, <3>2, WaitFacts
  <2> QED BY <2>1, <2>2 DEF NotForgotten
<1> QED BY <1>1, DelayInvariant, PTL

-----------------------------------------------------------------------------
(* The T-processes that have begun and not ended.                          *)
Alive   == {"user", "io", "lock", "write", "sleep"}
Exits   == {"exiting", "last", "ending", "dead"}
Running == {t \in T : pc[t] \in Alive}

CountInv ==
  /\ active = Cardinality(Running)
  /\ pc[cron] = "dead" => \A t \in T : pc[t] \in Exits

LEMMA Subsets ==
  ASSUME NEW A \in SUBSET T
  PROVE  /\ IsFiniteSet(A) /\ Cardinality(A) \in Nat /\ Cardinality(A) <= MAXTPROC
         /\ Cardinality(A) = 0 <=> A = {}
         /\ \A t : t \notin A => Cardinality(A \cup {t}) = Cardinality(A) + 1
         /\ \A t \in A : Cardinality(A \ {t}) = Cardinality(A) - 1
PROOF
<1>1. IsFiniteSet(A) /\ Cardinality(A) <= MAXTPROC
  BY Sizes, FS_Subset
<1>2. Cardinality(A) \in Nat
  BY <1>1, FS_CardinalityType
<1>3. Cardinality(A) = 0 <=> A = {}
  BY <1>1, FS_EmptySet
<1>4. \A t : t \notin A => Cardinality(A \cup {t}) = Cardinality(A) + 1
  BY <1>1, FS_AddElement
<1>5. \A t \in A : Cardinality(A \ {t}) = Cardinality(A) - 1
  BY <1>1, FS_RemoveElement
<1> QED BY <1>1, <1>2, <1>3, <1>4, <1>5

LEMMA CountInit == Init => CountInv
PROOF
<1> SUFFICES ASSUME Init PROVE CountInv
  OBVIOUS
<1>1. pc[cron] = "start" /\ \A t \in T : pc[t] = "begin"
  BY Names DEF Init
<1>2. Running = {}
  BY <1>1 DEF Running, Alive
<1>3. Cardinality(Running) = 0
  BY <1>2, FS_EmptySet
<1> QED BY <1>1, <1>3 DEF Init, CountInv

TProcess(t) == \/ Count(t) \/ StartIO(t) \/ EndIO(t) \/ StartDelay(t) \/ Delay(t)
               \/ Terminate(t) \/ End(t)

(* Where the steps of a T-process lead. *)
LEMMA TProcessSteps ==
  ASSUME NEW t \in T, TProcess(t)
  PROVE  \/ Step(t, "begin", "user") /\ active' = active + 1
         \/ Step(t, "user", "exiting") /\ active' = active - 1
         \/ active' = active /\ \E l, m \in Alive : Step(t, l, m)
         \/ active' = active /\ \E l, m \in Exits : Step(t, l, m)
PROOF
<1>1. CASE Count(t) \/ Terminate(t)
  BY <1>1 DEF Count, Terminate
<1>2. CASE StartIO(t) \/ EndIO(t) \/ StartDelay(t) \/ Delay(t)
  <2>1. active' = active
    BY <1>2 DEF StartIO, EndIO, StartDelay, Delay, LockTable, SetWakeUpTime, Sleep, tprocVars
  <2>2. \E l, m \in Alive : Step(t, l, m)
    BY <1>2 DEF StartIO, EndIO, StartDelay, Delay, LockTable, SetWakeUpTime, Sleep, Alive
  <2> QED BY <2>1, <2>2
<1>3. CASE End(t)
  <2>1. active' = active
    BY <1>3 DEF End, TestLast, WakeCron, Die, tprocVars
  <2>2. \E l, m \in Exits : Step(t, l, m)
    BY <1>3 DEF End, TestLast, WakeCron, Die, Exits
  <2> QED BY <2>1, <2>2
<1> QED BY <1>1, <1>2, <1>3 DEF TProcess

LEMMA CountNext == DelayInv /\ CountInv /\ [Next]_vars => CountInv'
PROOF
<1> SUFFICES ASSUME DelayInv, CountInv, [Next]_vars PROVE CountInv'
  OBVIOUS
<1>0. Places
  BY DEF DelayInv
<1>1. ASSUME NEW t \in T, TProcess(t) PROVE CountInv'
  <2>0. t \in Process /\ t # cron
    BY Names
  <2>1. ASSUME NEW l, NEW m \in Labels, Step(t, l, m)
        PROVE  /\ pc[t] = l /\ pc'[t] = m /\ pc'[cron] # "dead"
               /\ \A r \in T : r # t => pc'[r] = pc[r]
    BY <1>0, <2>0, <2>1, StepFacts, Names DEF Step
  <2>2. Running \in SUBSET T
    BY DEF Running
  <2>3. CASE Step(t, "begin", "user") /\ active' = active + 1
    <3>1. /\ pc[t] = "begin" /\ pc'[t] = "user" /\ pc'[cron] # "dead"
          /\ \A r \in T : r # t => pc'[r] = pc[r]
      BY <2>1, <2>3 DEF Labels
    <3>2. t \notin Running /\ Running' = Running \cup {t}
      BY <3>1 DEF Running, Alive
    <3>3. Cardinality(Running') = Cardinality(Running) + 1
      BY <2>2, <3>2, Subsets
    <3> QED BY <2>3, <3>1, <3>3 DEF CountInv
  <2>4. CASE Step(t, "user", "exiting") /\ active' = active - 1
    <3>1. /\ pc[t] = "user" /\ pc'[t] = "exiting" /\ pc'[cron] # "dead"
          /\ \A r \in T : r # t => pc'[r] = pc[r]
      BY <2>1, <2>4 DEF Labels
    <3>2. t \in Running /\ Running' = Running \ {t}
      BY <3>1 DEF Running, Alive
    <3>3. Cardinality(Running') = Cardinality(Running) - 1
      BY <2>2, <3>2, Subsets
    <3> QED BY <2>4, <3>1, <3>3 DEF CountInv
  <2>5. CASE active' = active /\ \E l, m \in Alive : Step(t, l, m)
    <3>1. PICK l \in Alive, m \in Alive : Step(t, l, m)
      BY <2>5
    <3>2. /\ pc'[cron] # "dead" /\ \A r \in T : r # t => pc'[r] = pc[r]
          /\ pc[t] \in Alive /\ pc'[t] \in Alive
      BY <2>1, <3>1 DEF Labels, Alive
    <3>3. Running' = Running
      BY <3>2 DEF Running
    <3> QED BY <2>5, <3>2, <3>3 DEF CountInv
  <2>6. CASE active' = active /\ \E l, m \in Exits : Step(t, l, m)
    <3>1. PICK l \in Exits, m \in Exits : Step(t, l, m)
      BY <2>6
    <3>2. /\ pc'[cron] # "dead" /\ \A r \in T : r # t => pc'[r] = pc[r]
          /\ pc[t] \notin Alive /\ pc'[t] \notin Alive
      BY <2>1, <3>1 DEF Labels, Exits, Alive
    <3>3. Running' = Running
      BY <3>2 DEF Running
    <3> QED BY <2>6, <3>2, <3>3 DEF CountInv
  <2> QED BY <1>1, <2>3, <2>4, <2>5, <2>6, TProcessSteps
<1>2. ASSUME NEW m \in Labels, Goto(cron, m), active' = active,
             m = "dead" => \A t \in T : pc[t] \in Exits
      PROVE  CountInv'
  <2>1. /\ pc'[cron] = m /\ \A t \in T : pc'[t] = pc[t]
    BY <1>0, <1>2, Names DEF Goto, Places
  <2>2. Running' = Running
    BY <2>1 DEF Running
  <2> QED BY <1>2, <2>1, <2>2 DEF CountInv
<1>3. CASE CronTop
  <2>1. CASE NoneLeft
    <3>1. Running = {}
      BY <2>1, Subsets DEF NoneLeft, CountInv, Running
    <3>2. \A t \in T : pc[t] \in Exits
      BY <1>0, <1>3, <3>1 DEF CronTop, Running, Alive, Exits, Places
    <3> QED BY <1>2, <1>3, <2>1, <3>2 DEF CronTop, tprocVars, Labels
  <2>2. CASE ~NoneLeft
    BY <1>2, <1>3, <2>2 DEF CronTop, tprocVars, Labels
  <2> QED BY <2>1, <2>2
<1>4. CASE CronStart \/ CronLock \/ CronRelease \/ CronScanned \/ PseudoClock
  BY <1>2, <1>4 DEF CronStart, CronLock, CronRelease, CronScanned, PseudoClock, Step, tprocVars, Labels
<1>5. CASE CronScan
  <2>1. CASE Due(i)
    BY <1>2, <1>5, <2>1 DEF CronScan, Labels
  <2>2. CASE ~Due(i)
    BY <1>5, <2>2 DEF CronScan, CountInv, Running
  <2> QED BY <2>1, <2>2
<1>6. CASE Tick \/ UNCHANGED vars
  BY <1>6 DEF Tick, vars, CountInv, Running
<1> QED BY <1>1, <1>3, <1>4, <1>5, <1>6 DEF Next, Daemon, TProcess

LEMMA CountInvariant == Spec => []CountInv
PROOF BY DelayInvariant, CountInit, CountNext, PTL DEF Spec

(* Cron takes the system down only when no T-process is left: the count is  *)
(* right although its increments and decrements are spread over processes   *)
(* that can be preempted between them.                                      *)
THEOREM EndsLast == Spec => []ShutsDownLast
PROOF
<1>1. CountInv => ShutsDownLast
  BY DEF CountInv, ShutsDownLast, Exits
<1> QED BY <1>1, CountInvariant, PTL

-----------------------------------------------------------------------------
(* What each action does to the semaphores of the entries and to            *)
(* wake_up_cron_sem.                                                       *)

SameVals == val'[wake_up_cron_sem] = val[wake_up_cron_sem] /\ \A t \in T : val'[t] = val[t]

(* val'[t] is x, and the semaphores of the other entries have not changed.  *)
NewVal(t, x) == val'[t] = x /\ \A r \in T : r # t => val'[r] = val[r]

LEMMA VVals ==
  ASSUME DelayInv, SEMOP(V(Sems, cron_table_sem))
  PROVE  SameVals
PROOF
<1>1. val' = [val EXCEPT ![cron_table_sem] = Capped(@)] /\ val \in [Semaphore -> Int]
  BY VVector, Names DEF DelayInv, SemsOK, Sems
<1> QED BY <1>1, Names DEF SameVals

LEMMA PVals ==
  ASSUME DelayInv, NEW p \in Process, NEW l, At(p, l), SEMOP(P(Sems, cron_table_sem, p))
  PROVE  SameVals
PROOF
<1>1. p \notin ToSet(queue[cron_table_sem])
  BY Names DEF At, Ready, Waits
<1>2. val' = [val EXCEPT ![cron_table_sem] = @ - 1] /\ val \in [Semaphore -> Int]
  BY <1>1, PVector, Names DEF DelayInv, SemsOK, Sems
<1> QED BY <1>2, Names DEF SameVals

LEMMA QuietVals ==
  ASSUME DelayInv,
         \/ \E t \in T : \/ Count(t) \/ StartIO(t) \/ EndIO(t) \/ StartDelay(t) \/ LockTable(t)
                         \/ SetWakeUpTime(t) \/ Terminate(t) \/ TestLast(t) \/ Die(t)
         \/ CronTop \/ CronLock \/ CronScan \/ CronScanned \/ PseudoClock \/ Tick \/ UNCHANGED vars
  PROVE  SameVals
PROOF
<1>1. CASE val' = val
  BY <1>1 DEF SameVals
<1>2. CASE \E t \in T : LockTable(t)
  <2>1. PICK t \in T : At(t, "lock") /\ SEMOP(P(Sems, cron_table_sem, t))
    BY <1>2 DEF LockTable, Step
  <2> QED BY <2>1, PVals, Names
<1>3. CASE CronLock
  BY <1>3, PVals, Names DEF CronLock, Step
<1>4. CASE CronScanned
  <2>1. CASE awoken
    BY <1>1, <1>4, <2>1 DEF CronScanned
  <2>2. CASE ~awoken
    BY <1>4, <2>2, VVals DEF CronScanned
  <2> QED BY <2>1, <2>2
<1>5. CASE \E t \in T : StartIO(t) \/ EndIO(t) \/ TestLast(t) \/ Die(t)
  BY <1>1, <1>5 DEF StartIO, EndIO, TestLast, Die
<1>6. CASE \/ \E t \in T : Count(t) \/ StartDelay(t) \/ SetWakeUpTime(t) \/ Terminate(t)
           \/ CronTop \/ CronScan \/ PseudoClock \/ Tick \/ UNCHANGED vars
  BY <1>1, <1>6 DEF Count, StartDelay, SetWakeUpTime, Terminate, CronTop, CronScan, PseudoClock,
    Tick, vars
<1> QED BY <1>2, <1>3, <1>4, <1>5, <1>6

LEMMA SleepVals ==
  ASSUME DelayInv, NEW t \in T, Sleep(t)
  PROVE  /\ NewVal(t, val[t] - 1) /\ val[t] \in {0, 1} /\ ~Waits(t, t)
         /\ val'[wake_up_cron_sem] = Capped(val[wake_up_cron_sem])
         /\ pc[cron] # "dead"
PROOF
<1>1. /\ Places /\ SemsOK(Sems) /\ Delayed(t) /\ val \in [Semaphore -> Int]
      /\ Step(t, "sleep", "user") /\ SEMOP(SleepVector(t))
  BY DEF DelayInv, SemsOK, Sems, Sleep
<1>2. pc[t] = "sleep" /\ t \notin ToSet(queue[t]) /\ pc[cron] # "dead"
  BY <1>1, StepFacts, Names DEF Step, Labels
<1>3. val' = [[[val EXCEPT ![cron_table_sem] = Capped(@)] EXCEPT ![t] = @ - 1]
                EXCEPT ![wake_up_cron_sem] = Capped(@)]
  BY <1>1, <1>2, SleepFacts
<1>4. NewVal(t, val[t] - 1) /\ val'[wake_up_cron_sem] = Capped(val[wake_up_cron_sem])
  BY <1>1, <1>3, Names DEF NewVal
<1>5. val[t] \in {0, 1}
  BY <1>1, <1>2 DEF Delayed
<1> QED BY <1>2, <1>4, <1>5 DEF Waits

LEMMA ReleaseVals ==
  ASSUME DelayInv, CronRelease
  PROVE  /\ i \in T /\ NewVal(i, val[i] + 1) /\ val[i] \in {-1, 0}
         /\ val'[wake_up_cron_sem] = val[wake_up_cron_sem] - 1
         /\ pc[cron] = "release" /\ pc' = [pc EXCEPT ![cron] = "scan"]
PROOF
<1>1. /\ Places /\ Entries /\ SemsOK(Sems) /\ val \in [Semaphore -> Int]
      /\ Step(cron, "release", "scan") /\ SEMOP(ReleaseVector(i))
  BY DEF DelayInv, SemsOK, Sems, CronRelease
<1>2. pc[cron] = "release" /\ cron \notin ToSet(queue[wake_up_cron_sem]) /\ i \in T
  BY <1>1, StepFacts, Names DEF Step, Labels, Entries
<1>3. val' = [[[val EXCEPT ![i] = Capped(@)] EXCEPT ![wake_up_cron_sem] = @ - 1]
                EXCEPT ![cron_table_sem] = Capped(@)]
  BY <1>1, <1>2, ReleaseFacts
<1>4. val[i] \in {-1, 0}
  <2>1. Pending(i) /\ Delayed(i)
    BY <1>2 DEF Pending, Releasing, DelayInv
  <2> QED BY <2>1 DEF Delayed
<1>5. NewVal(i, Capped(val[i])) /\ val'[wake_up_cron_sem] = val[wake_up_cron_sem] - 1
  BY <1>1, <1>2, <1>3, Names DEF NewVal
<1>6. Capped(val[i]) = val[i] + 1
  BY <1>4, Sizes, SizeAssumption DEF Capped
<1> QED BY <1>1, <1>2, <1>4, <1>5, <1>6 DEF Step, Goto

LEMMA WakeVals ==
  ASSUME DelayInv, NEW p \in Process, NEW l, At(p, l),
         NEW S, S = P(Sems, wake_up_cron_sem, p) \/ S = V(Sems, wake_up_cron_sem), SEMOP(S)
  PROVE  /\ \A t \in T : val'[t] = val[t]
         /\ S = P(Sems, wake_up_cron_sem, p) => val'[wake_up_cron_sem] = val[wake_up_cron_sem] - 1
         /\ S = V(Sems, wake_up_cron_sem) => val'[wake_up_cron_sem] = Capped(val[wake_up_cron_sem])
PROOF
<1>0. SemsOK(Sems) /\ val \in [Semaphore -> Int]
  BY DEF DelayInv, SemsOK, Sems
<1>1. ASSUME S = P(Sems, wake_up_cron_sem, p)
      PROVE  val' = [val EXCEPT ![wake_up_cron_sem] = @ - 1]
  <2>1. p \notin ToSet(queue[wake_up_cron_sem])
    BY Names DEF At, Ready, Waits
  <2> QED BY <1>0, <1>1, <2>1, PVector, Names
<1>2. ASSUME S = V(Sems, wake_up_cron_sem)
      PROVE  val' = [val EXCEPT ![wake_up_cron_sem] = Capped(@)]
  BY <1>0, <1>2, VVector, Names
<1> QED BY <1>0, <1>1, <1>2, Names

-----------------------------------------------------------------------------
(* A release comes when the time is over.                                  *)
DueInv == \A t \in T : Releasing(t) => left[t] = 0

LEMMA DueNext == DelayInv /\ DueInv /\ [Next]_vars => DueInv'
PROOF
<1> SUFFICES ASSUME DelayInv, DueInv, [Next]_vars, NEW t \in T, Releasing(t)'
             PROVE  left'[t] = 0
  BY DEF DueInv
<1>0. Places /\ Entries /\ Delayed(t)
  BY DEF DelayInv
<1>1. CASE CronScan
  <2>1. CASE Due(i)
    BY <1>1, <2>1 DEF CronScan, Due, Releasing
  <2>2. CASE ~Due(i)
    BY <1>1, <2>2 DEF CronScan, Releasing, At
  <2> QED BY <2>1, <2>2
<1>2. CASE CronStart \/ CronTop \/ CronLock \/ CronRelease \/ CronScanned \/ PseudoClock
  <2>1. \E m \in Labels : Goto(cron, m) /\ m # "release"
    BY <1>2 DEF CronStart, CronTop, CronLock, CronRelease, CronScanned, PseudoClock, Step, Labels
  <2>2. pc'[cron] # "release"
    BY <1>0, <2>1, Names DEF Goto, Places
  <2> QED BY <2>2 DEF Releasing
<1>3. CASE Tick \/ UNCHANGED vars
  <2>1. Releasing(t)
    BY <1>3 DEF Releasing, Tick, vars, cronVars
  <2>2. left[t] = 0
    BY <2>1 DEF DueInv
  <2> QED BY <1>3, <2>2 DEF Tick, vars
<1>4. ASSUME NEW r \in T, TProcess(r) PROVE left'[t] = 0
  <2>1. i' = i /\ pc'[cron] = pc[cron]
    <3>1. i' = i
      BY <1>4 DEF TProcess, Count, StartIO, EndIO, StartDelay, Delay, LockTable, SetWakeUpTime, Sleep,
        Terminate, End, TestLast, WakeCron, Die, cronVars
    <3>2. \E m \in Labels : Goto(r, m)
      BY <1>4, TProcessSteps DEF Step, Labels, Alive, Exits
    <3> QED BY <1>0, <3>1, <3>2, Names DEF Goto, Places
  <2>2. Releasing(t) /\ left[t] = 0
    BY <2>1 DEF Releasing, DueInv
  <2>3. CASE left' = left
    BY <2>2, <2>3
  <2>4. CASE StartDelay(r)
    <3>1. r # t
      <4> SUFFICES ASSUME r = t PROVE FALSE
        OBVIOUS
      <4>1. pc[t] = "user" /\ ~Waits(t, t)
        BY <2>4, Names DEF StartDelay, Step, At, Ready
      <4>2. val[t] # -1
        BY <4>1, WaitFacts
      <4>3. Pending(t)
        BY <2>2 DEF Pending
      <4> QED BY <1>0, <4>1, <4>2, <4>3 DEF Delayed
    <3> QED BY <1>0, <2>2, <2>4, <3>1 DEF StartDelay, Entries
  <2> QED BY <1>4, <2>3, <2>4
      DEF TProcess, Count, StartIO, EndIO, Delay, LockTable, SetWakeUpTime, Sleep, Terminate,
        End, TestLast, WakeCron, Die, tprocVars
<1> QED BY <1>1, <1>2, <1>3, <1>4 DEF Next, Daemon, TProcess

LEMMA DueInvariant == Spec => []DueInv
PROOF
<1>1. Init => DueInv
  BY Names DEF Init, DueInv, Releasing
<1> QED BY <1>1, DelayInvariant, DueNext, PTL DEF Spec

(* Only a release ends the sleep of a process, and only the process that is *)
(* released.                                                               *)
WaitsInv == \A t \in T : Waits(t, t) <=> val[t] = -1

LEMMA WaitsInvariant == Spec => []WaitsInv
PROOF
<1>1. DelayInv => WaitsInv
  BY WaitFacts DEF WaitsInv
<1> QED BY <1>1, DelayInvariant, PTL

LEMMA SleepEndsByRelease ==
  ASSUME DelayInv, WaitsInv', [Next]_vars, NEW t \in T, Waits(t, t), ~Waits(t, t)'
  PROVE  CronRelease /\ i = t
PROOF
<1>1. val[t] = -1 /\ val'[t] # -1
  <2>1. val[t] = -1
    BY WaitFacts
  <2>2. val'[t] # -1
    BY DEF WaitsInv
  <2> QED BY <2>1, <2>2
<1>2. ~SameVals
  BY <1>1 DEF SameVals
<1>3. ASSUME NEW r \in T, Sleep(r) PROVE FALSE
  <2>1. NewVal(r, val[r] - 1) /\ val[r] \in {0, 1}
    BY <1>3, SleepVals
  <2> QED BY <1>1, <2>1 DEF NewVal
<1>4. ASSUME NEW r \in T, WakeCron(r) PROVE FALSE
  <2>1. At(r, "last") /\ SEMOP(V(Sems, wake_up_cron_sem))
    BY <1>4 DEF WakeCron, Step
  <2>2. \A u \in T : val'[u] = val[u]
    BY <2>1, WakeVals, Names
  <2> QED BY <1>1, <2>2
<1>5. ASSUME CronStart PROVE FALSE
  <2>1. \A u \in T : val'[u] = val[u]
    BY <1>5, WakeVals, Names DEF CronStart, Step
  <2> QED BY <1>1, <2>1
<1>6. CASE CronRelease
  <2>1. i \in T /\ NewVal(i, val[i] + 1)
    BY <1>6, ReleaseVals
  <2>2. i = t
    BY <1>1, <2>1 DEF NewVal
  <2> QED BY <1>6, <2>2
<1> QED BY <1>2, <1>3, <1>4, <1>5, <1>6, QuietVals DEF Next, Delay, End, Daemon

(* No delay is too short, whatever the order of the entries and the time     *)
(* that passes between cron's look at an entry and the release.             *)
THEOREM LongEnough == Spec => AtLeastThisLong
PROOF
<1>1. ASSUME DelayInv, WaitsInv', DueInv, [Next]_vars
      PROVE  [\A t \in T : Waits(t, t) /\ ~Waits(t, t)' => left[t] = 0]_vars
  <2>1. ASSUME NEW t \in T, Waits(t, t), ~Waits(t, t)' PROVE left[t] = 0
    <3>1. CronRelease /\ i = t
      BY <1>1, <2>1, SleepEndsByRelease
    <3>2. Releasing(t)
      BY <1>1, <3>1, ReleaseVals DEF Releasing
    <3> QED BY <1>1, <3>2 DEF DueInv
  <2> QED BY <2>1
<1> QED BY <1>1, DelayInvariant, WaitsInvariant, DueInvariant, PTL DEF Spec, AtLeastThisLong

-----------------------------------------------------------------------------
(* What wake_up_cron_sem counts.                                           *)
Asleep == {t \in T : val[t] = -1}
Early  == {t \in T : val[t] = 1}
Ended  == {t \in T : pc[t] \in {"ending", "dead"}}

(* Every sleep vector adds one for cron and every release takes one, so what *)
(* is left, but for the delays that are under way and cron's first P, has    *)
(* been added by processes that have ended and found active_t_processes 0.   *)
EndVs == val[wake_up_cron_sem] + (IF pc[cron] = "start" THEN 0 ELSE 1)
          + Cardinality(Early) - Cardinality(Asleep)

LastInv ==
  /\ EndVs >= 0 /\ EndVs <= Cardinality(Ended)
  /\ (\A t \in T : pc[t] \in {"ending", "dead"}) => EndVs >= 1

LEMMA LastInit == Init => LastInv
PROOF
<1> SUFFICES ASSUME Init PROVE LastInv
  OBVIOUS
<1>1. /\ pc[cron] = "start" /\ val[wake_up_cron_sem] = 0
      /\ \A t \in T : pc[t] = "begin" /\ val[t] = 0
  BY Names DEF Init
<1>2. Asleep = {} /\ Early = {} /\ Ended = {}
  BY <1>1 DEF Asleep, Early, Ended
<1>3. Cardinality(Asleep) = 0 /\ Cardinality(Early) = 0 /\ Cardinality(Ended) = 0
  BY <1>2, FS_EmptySet
<1>4. 1 \in T
  BY SizeAssumption DEF T
<1>5. EndVs = 0
  BY <1>1, <1>3 DEF EndVs
<1> QED BY <1>1, <1>3, <1>4, <1>5 DEF LastInv

(* The sets are small, so that wake_up_cron_sem is far from its bound.      *)
LEMMA LastFacts ==
  ASSUME DelayInv, LastInv
  PROVE  /\ Asleep \in SUBSET T /\ Early \in SUBSET T /\ Ended \in SUBSET T
         /\ Cardinality(Asleep) \in Nat /\ Cardinality(Early) \in Nat /\ Cardinality(Ended) \in Nat
         /\ val[wake_up_cron_sem] \in Int
         /\ Capped(val[wake_up_cron_sem]) = val[wake_up_cron_sem] + 1
         /\ EndVs \in Int
PROOF
<1>1. Asleep \in SUBSET T /\ Early \in SUBSET T /\ Ended \in SUBSET T
  BY DEF Asleep, Early, Ended
<1>2. /\ Cardinality(Asleep) \in Nat /\ Cardinality(Early) \in Nat /\ Cardinality(Ended) \in Nat
      /\ IsFiniteSet(Asleep) /\ IsFiniteSet(Ended)
  BY <1>1, Subsets
<1>3. Asleep \cap Ended = {}
  <2>1. ASSUME NEW t \in T, val[t] = -1 PROVE pc[t] = "user"
    <3>1. t \in ToSet(queue[t])
      BY <2>1, WaitFacts DEF Waits
    <3>2. Place(t, t)
      BY <3>1, Names DEF DelayInv, Places
    <3> QED BY <3>2, Names DEF Place
  <2> QED BY <2>1 DEF Asleep, Ended
<1>4. Cardinality(Asleep) + Cardinality(Ended) <= MAXTPROC
  <2>1. Cardinality(Asleep \cup Ended) = Cardinality(Asleep) + Cardinality(Ended) - Cardinality(Asleep \cap Ended)
    BY <1>2, FS_Union
  <2>2. Cardinality(Asleep \cap Ended) = 0
    BY <1>3, FS_EmptySet
  <2>3. Asleep \cup Ended \in SUBSET T
    BY <1>1
  <2>4. Cardinality(Asleep \cup Ended) <= MAXTPROC
    BY <2>3, Subsets
  <2> QED BY <1>2, <2>1, <2>2, <2>4
<1>5. val[wake_up_cron_sem] \in Int
  BY Names DEF DelayInv, SemsOK, Sems
<1>6. val[wake_up_cron_sem] < MaxVal /\ EndVs \in Int
  BY <1>2, <1>4, <1>5, Sizes, SizeAssumption DEF LastInv, EndVs
<1> QED BY <1>1, <1>2, <1>5, <1>6 DEF Capped

(* The sets after a change of one entry's semaphore.                        *)
LEMMA NewSets ==
  ASSUME NEW t \in T, NEW x, NewVal(t, x)
  PROVE  /\ Asleep' = IF x = -1 THEN Asleep \cup {t} ELSE Asleep \ {t}
         /\ Early' = IF x = 1 THEN Early \cup {t} ELSE Early \ {t}
PROOF BY DEF NewVal, Asleep, Early

(* Nothing changes that counts. *)
LEMMA LastQuiet ==
  ASSUME LastInv, SameVals, Ended' = Ended,
         pc'[cron] = "start" <=> pc[cron] = "start"
  PROVE  LastInv'
PROOF
<1>1. Asleep' = Asleep /\ Early' = Early
  BY DEF SameVals, Asleep, Early
<1>2. EndVs' = EndVs
  BY <1>1 DEF EndVs, SameVals
<1>3. \A t \in T : pc'[t] \in {"ending", "dead"} <=> pc[t] \in {"ending", "dead"}
  BY DEF Ended
<1> QED BY <1>2, <1>3 DEF LastInv

LEMMA LastSleep == ASSUME DelayInv, LastInv, NEW t \in T, Sleep(t) PROVE LastInv'
PROOF
<1>1. /\ NewVal(t, val[t] - 1) /\ val[t] \in {0, 1}
      /\ val'[wake_up_cron_sem] = Capped(val[wake_up_cron_sem])
  BY SleepVals
<1>2. /\ Asleep \in SUBSET T /\ Early \in SUBSET T
      /\ Cardinality(Asleep) \in Nat /\ Cardinality(Early) \in Nat
      /\ val[wake_up_cron_sem] \in Int /\ val'[wake_up_cron_sem] = val[wake_up_cron_sem] + 1
  BY <1>1, LastFacts
<1>3. /\ pc'[cron] = pc[cron]
      /\ \A r \in T : pc'[r] \in {"ending", "dead"} <=> pc[r] \in {"ending", "dead"}
  BY StepFacts, Names DEF DelayInv, Sleep, Step, Labels
<1>4. CASE val[t] = 0
  <2>1. Asleep' = Asleep \cup {t} /\ Early' = Early \ {t} /\ t \notin Asleep /\ t \notin Early
    BY <1>1, <1>4, NewSets DEF Asleep, Early
  <2>2. Cardinality(Asleep') = Cardinality(Asleep) + 1 /\ Early' = Early
    BY <1>2, <2>1, Subsets
  <2>3. EndVs' = EndVs
    BY <1>2, <1>3, <2>2 DEF EndVs
  <2> QED BY <1>3, <2>3 DEF LastInv, Ended
<1>5. CASE val[t] = 1
  <2>1. Asleep' = Asleep \ {t} /\ Early' = Early \ {t} /\ t \notin Asleep /\ t \in Early
    BY <1>1, <1>5, NewSets DEF Asleep, Early
  <2>2. Cardinality(Early') = Cardinality(Early) - 1 /\ Asleep' = Asleep
    BY <1>2, <2>1, Subsets
  <2>3. EndVs' = EndVs
    BY <1>2, <1>3, <2>2 DEF EndVs
  <2> QED BY <1>3, <2>3 DEF LastInv, Ended
<1> QED BY <1>1, <1>4, <1>5

LEMMA LastRelease == ASSUME DelayInv, LastInv, CronRelease PROVE LastInv'
PROOF
<1>1. /\ i \in T /\ NewVal(i, val[i] + 1) /\ val[i] \in {-1, 0}
      /\ val'[wake_up_cron_sem] = val[wake_up_cron_sem] - 1
      /\ pc[cron] = "release" /\ pc' = [pc EXCEPT ![cron] = "scan"]
  BY ReleaseVals
<1>2. /\ Asleep \in SUBSET T /\ Early \in SUBSET T
      /\ Cardinality(Asleep) \in Nat /\ Cardinality(Early) \in Nat
      /\ val[wake_up_cron_sem] \in Int
  BY LastFacts
<1>3. /\ pc[cron] # "start" /\ pc'[cron] # "start" /\ \A r \in T : pc'[r] = pc[r]
  BY <1>1, Names DEF DelayInv, Places
<1>4. CASE val[i] = 0
  <2>1. Asleep' = Asleep \ {i} /\ Early' = Early \cup {i} /\ i \notin Asleep /\ i \notin Early
    BY <1>1, <1>4, NewSets DEF Asleep, Early
  <2>2. Cardinality(Early') = Cardinality(Early) + 1 /\ Asleep' = Asleep
    BY <1>2, <2>1, Subsets
  <2>3. EndVs' = EndVs
    BY <1>1, <1>2, <1>3, <2>2 DEF EndVs
  <2> QED BY <1>3, <2>3 DEF LastInv, Ended
<1>5. CASE val[i] = -1
  <2>1. Asleep' = Asleep \ {i} /\ Early' = Early \ {i} /\ i \in Asleep /\ i \notin Early
    BY <1>1, <1>5, NewSets DEF Asleep, Early
  <2>2. Cardinality(Asleep') = Cardinality(Asleep) - 1 /\ Early' = Early
    BY <1>1, <1>2, <2>1, Subsets
  <2>3. EndVs' = EndVs
    BY <1>1, <1>2, <1>3, <2>2 DEF EndVs
  <2> QED BY <1>3, <2>3 DEF LastInv, Ended
<1> QED BY <1>1, <1>4, <1>5

(* A process has passed its test, and its V if the test asks for one: one   *)
(* more that can have added to EndVs.                                      *)
LEMMA OneMoreEnded ==
  ASSUME DelayInv, LastInv, NEW t \in T, NEW l, l \notin {"ending", "dead"}, Step(t, l, "ending")
  PROVE  /\ pc'[cron] = pc[cron] /\ pc[t] = l /\ \A r \in T : r # t => pc'[r] = pc[r]
         /\ Cardinality(Ended) \in Nat /\ Cardinality(Ended') = Cardinality(Ended) + 1
PROOF
<1>1. /\ pc[t] = l /\ pc'[t] = "ending" /\ pc'[cron] = pc[cron]
      /\ \A r \in T : r # t => pc'[r] = pc[r]
  BY StepFacts, Names DEF DelayInv, Step, Labels
<1>2. Ended' = Ended \cup {t} /\ t \notin Ended
  BY <1>1 DEF Ended
<1> QED BY <1>1, <1>2, LastFacts, Subsets

LEMMA LastTest == ASSUME DelayInv, CountInv, LastInv, NEW t \in T, TestLast(t) PROVE LastInv'
PROOF
<1>0. SameVals
  BY QuietVals
<1>1. CASE active = 0
  <2>1. Step(t, "exiting", "last")
    BY <1>1 DEF TestLast
  <2>2. /\ pc[t] = "exiting" /\ pc'[t] = "last" /\ pc'[cron] = pc[cron]
        /\ \A r \in T : r # t => pc'[r] = pc[r]
    BY <2>1, StepFacts, Names DEF DelayInv, Step, Labels
  <2>3. Ended' = Ended
    BY <2>2 DEF Ended
  <2> QED BY <1>0, <2>2, <2>3, LastQuiet
<1>2. CASE active # 0
  <2>1. Step(t, "exiting", "ending")
    BY <1>2 DEF TestLast
  <2>2. /\ pc'[cron] = pc[cron] /\ pc[t] = "exiting" /\ \A r \in T : r # t => pc'[r] = pc[r]
        /\ Cardinality(Ended) \in Nat /\ Cardinality(Ended') = Cardinality(Ended) + 1
    BY <2>1, OneMoreEnded
  <2>3. Asleep' = Asleep /\ Early' = Early
    BY <1>0 DEF SameVals, Asleep, Early
  <2>4. EndVs' = EndVs /\ EndVs \in Int
    BY <1>0, <2>2, <2>3, LastFacts DEF EndVs, SameVals
  <2>5. \E r \in T : pc'[r] \notin {"ending", "dead"}
    <3>1. Running # {}
      BY <1>2, FS_EmptySet DEF CountInv
    <3>2. PICK r \in T : pc[r] \in Alive
      BY <3>1 DEF Running
    <3>3. r # t /\ pc[r] \notin {"ending", "dead"}
      BY <2>2, <3>2 DEF Alive
    <3> QED BY <2>2, <3>3
  <2> QED BY <2>2, <2>4, <2>5 DEF LastInv
<1> QED BY <1>1, <1>2

LEMMA LastWake == ASSUME DelayInv, LastInv, NEW t \in T, WakeCron(t) PROVE LastInv'
PROOF
<1>1. Step(t, "last", "ending") /\ At(t, "last") /\ SEMOP(V(Sems, wake_up_cron_sem))
  BY DEF WakeCron, Step
<1>2. /\ pc'[cron] = pc[cron]
      /\ Cardinality(Ended) \in Nat /\ Cardinality(Ended') = Cardinality(Ended) + 1
  BY <1>1, OneMoreEnded
<1>3. /\ Cardinality(Asleep) \in Nat /\ Cardinality(Early) \in Nat
      /\ val[wake_up_cron_sem] \in Int /\ EndVs \in Int
      /\ Capped(val[wake_up_cron_sem]) = val[wake_up_cron_sem] + 1
  BY LastFacts
<1>4. /\ \A r \in T : val'[r] = val[r]
      /\ val'[wake_up_cron_sem] = val[wake_up_cron_sem] + 1
  BY <1>1, <1>3, WakeVals, Names
<1>5. Asleep' = Asleep /\ Early' = Early
  BY <1>4 DEF Asleep, Early
<1>6. EndVs' = EndVs + 1
  BY <1>2, <1>3, <1>4, <1>5 DEF EndVs
<1> QED BY <1>2, <1>3, <1>6 DEF LastInv

LEMMA LastStart == ASSUME DelayInv, LastInv, CronStart PROVE LastInv'
PROOF
<1>1. /\ \A t \in T : val'[t] = val[t]
      /\ val'[wake_up_cron_sem] = val[wake_up_cron_sem] - 1
  BY WakeVals, Names DEF CronStart, Step
<1>2. /\ pc[cron] = "start" /\ pc'[cron] = "top" /\ \A t \in T : pc'[t] = pc[t]
  BY StepFacts, Names DEF DelayInv, CronStart, Step, Labels
<1>3. Asleep' = Asleep /\ Early' = Early /\ Ended' = Ended
  BY <1>1, <1>2 DEF Asleep, Early, Ended
<1>4. EndVs' = EndVs
  BY <1>1, <1>2, <1>3, LastFacts DEF EndVs
<1> QED BY <1>2, <1>3, <1>4 DEF LastInv

LEMMA LastNext == DelayInv /\ CountInv /\ LastInv /\ [Next]_vars => LastInv'
PROOF
<1> SUFFICES ASSUME DelayInv, CountInv, LastInv, [Next]_vars PROVE LastInv'
  OBVIOUS
<1>0. Places
  BY DEF DelayInv
<1>1. ASSUME NEW t \in T,
             \/ Count(t) \/ StartIO(t) \/ EndIO(t) \/ StartDelay(t) \/ LockTable(t)
             \/ SetWakeUpTime(t) \/ Terminate(t) \/ Die(t)
      PROVE  LastInv'
  <2>1. SameVals
    BY <1>1, QuietVals
  <2>2. PICK l \in Labels, m \in Labels :
          Step(t, l, m) /\ (l \in {"ending", "dead"} <=> m \in {"ending", "dead"})
    BY <1>1 DEF Count, StartIO, EndIO, StartDelay, LockTable, SetWakeUpTime, Terminate, Die, Labels
  <2>3. /\ pc[t] = l /\ pc'[t] = m /\ pc'[cron] = pc[cron]
        /\ \A r \in T : r # t => pc'[r] = pc[r]
    BY <1>0, <2>2, StepFacts, Names DEF Step
  <2>4. Ended' = Ended
    BY <2>2, <2>3 DEF Ended
  <2> QED BY <2>1, <2>3, <2>4, LastQuiet
<1>2. CASE CronTop \/ CronLock \/ CronScan \/ CronScanned \/ PseudoClock
  <2>1. SameVals
    BY <1>2, QuietVals
  <2>2. /\ pc[cron] # "start"
        /\ pc' = pc \/ \E m \in Labels : m # "start" /\ Goto(cron, m)
    BY <1>2 DEF CronTop, CronLock, CronScan, CronScanned, PseudoClock, Step, At, Labels
  <2>3. pc'[cron] # "start" /\ \A r \in T : pc'[r] = pc[r]
    BY <1>0, <2>2, Names DEF Goto, Places
  <2>4. Ended' = Ended
    BY <2>3 DEF Ended
  <2> QED BY <2>1, <2>2, <2>3, <2>4, LastQuiet
<1>3. CASE Tick \/ UNCHANGED vars
  <2>1. SameVals /\ pc' = pc
    BY <1>3, QuietVals DEF Tick, vars
  <2>2. Ended' = Ended
    BY <2>1 DEF Ended
  <2> QED BY <2>1, <2>2, LastQuiet
<1> QED BY <1>1, <1>2, <1>3, LastSleep, LastRelease, LastTest, LastWake, LastStart
        DEF Next, Delay, End, Daemon

LEMMA LastInvariant == Spec => []LastInv
PROOF BY DelayInvariant, CountInvariant, LastInit, LastNext, PTL DEF Spec

(* Cron never sleeps through work: while it waits on wake_up_cron_sem,       *)
(* nobody is delayed and somebody is left, or a process that was released    *)
(* early is about to wake it.                                              *)
THEOREM CronNotNeeded == Spec => []CronAwake
PROOF
<1>1. ASSUME DelayInv, LastInv PROVE CronAwake
  <2> SUFFICES ASSUME Waits(cron, wake_up_cron_sem)
               PROVE  \/ \E t \in T : pc[t] = "sleep" /\ ~armed[t]
                      \/ (\A t \in T : ~Waits(t, t)) /\ (\E t \in T : pc[t] \notin {"ending", "dead"})
    BY DEF CronAwake
  <2>1. val[wake_up_cron_sem] = -1
    BY <1>1, LastFacts, WaitFacts
  <2>2. pc[cron] # "start"
    <3>1. Place(wake_up_cron_sem, cron)
      BY <1>1, Names DEF DelayInv, Places, Waits
    <3> QED BY <3>1, Names DEF Place
  <2>3. EndVs = Cardinality(Early) - Cardinality(Asleep)
    BY <1>1, <2>1, <2>2, LastFacts DEF EndVs
  <2>4. CASE Early = {}
    <3>1. Cardinality(Early) = 0
      BY <2>4, FS_EmptySet
    <3>2. Cardinality(Asleep) = 0 /\ EndVs = 0
      BY <1>1, <2>3, <3>1, LastFacts DEF LastInv
    <3>3. Asleep = {}
      BY <1>1, <3>2, LastFacts, Subsets
    <3>4. \A t \in T : ~Waits(t, t)
      BY <1>1, <3>3, WaitFacts DEF Asleep
    <3>5. \E t \in T : pc[t] \notin {"ending", "dead"}
      BY <1>1, <3>2 DEF LastInv
    <3> QED BY <3>4, <3>5
  <2>5. CASE Early # {}
    <3>1. PICK t \in T : val[t] = 1
      BY <2>5 DEF Early
    <3>2. ~Pending(t) /\ pc[t] = "sleep"
      BY <1>1, <3>1 DEF DelayInv, Delayed
    <3>3. ~armed[t]
      BY <3>2 DEF Pending
    <3> QED BY <3>2, <3>3
  <2> QED BY <2>4, <2>5
<1> QED BY <1>1, DelayInvariant, LastInvariant, PTL

-----------------------------------------------------------------------------
(* The variables stay in their types: no semaphore goes below minus the      *)
(* number of processes, and active_t_processes counts T-processes.          *)
THEOREM CronTypes == Spec => []TypeOK
PROOF
<1>1. ASSUME DelayInv, CountInv PROVE TypeOK
  <2>1. ASSUME NEW s \in Semaphore PROVE val[s] \in -Cardinality(Process) .. MaxVal
    <3> DEFINE w == queue[s]
    <3>1. SemOK(val[s], w)
      BY <1>1 DEF DelayInv, SemsOK, Sems
    <3> HIDE DEF w
    <3>2. w \in Seq(Process) /\ Len(w) \in Nat /\ \A j, k \in 1 .. Len(w) : w[j] = w[k] => j = k
      BY <3>1 DEF SemOK
    <3>3. w \in Injection(1 .. Len(w), Process)
      BY <3>2, Fun_IsInj
    <3>4. Cardinality(1 .. Len(w)) <= Cardinality(Process)
      BY <3>3, Sizes, FS_Injection
    <3>5. Cardinality(1 .. Len(w)) = Len(w)
      BY <3>2, Intervals
    <3> QED BY <3>1, <3>2, <3>4, <3>5, Sizes, SizeAssumption DEF SemOK
  <2>2. val \in [Semaphore -> -Cardinality(Process) .. MaxVal]
    BY <1>1, <2>1 DEF DelayInv, SemsOK, Sems
  <2>3. queue \in [Semaphore -> Seq(Process)]
    BY <1>1 DEF DelayInv, SemsOK, Sems
  <2>4. active \in 0 .. MAXTPROC
    <3>1. Running \in SUBSET T
      BY DEF Running
    <3> QED BY <1>1, <3>1, Subsets, SizeAssumption DEF CountInv
  <2>5. pc \in [Process -> Labels] /\ Entries
    BY <1>1 DEF DelayInv, Places
  <2> QED BY <2>2, <2>3, <2>4, <2>5 DEF TypeOK, Labels, Entries
<1> QED BY <1>1, DelayInvariant, CountInvariant, PTL
=============================================================================
