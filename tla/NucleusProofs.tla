--------------------------- MODULE NucleusProofs ----------------------------
(***************************************************************************)
(* The invariant Inv of the nucleus and the order of its queues, for every *)
(* number of processes, semaphores, devices and vectors.                   *)
(***************************************************************************)
EXTENDS NucleusInv, FifoProofs

-----------------------------------------------------------------------------
(* The queue operators, on well-formed queues.                             *)

LEMMA EnqueueQueues ==
  ASSUME NEW Q, Queues(Q), NEW k \in Queue, NEW p \in Proc, p \notin Q[k].mem
  PROVE  /\ Queues(Enqueue(Q, k, p))
         /\ Enqueue(Q, k, p)[k].mem = Q[k].mem \cup {p}
         /\ \A j \in Queue : j # k => Enqueue(Q, k, p)[j] = Q[j]
         /\ Q[k].mem # {} => Front(Enqueue(Q, k, p)[k]) = Front(Q[k])
         /\ Q[k].mem = {} => Front(Enqueue(Q, k, p)[k]) = p
PROOF
<1>1. Q[k] \in Fifo /\ Ordered(Q[k])
  BY DEF Queues
<1>2. /\ Enqueue(Q, k, p)[k] = Insert(Q[k], p)
      /\ \A j \in Queue : j # k => Enqueue(Q, k, p)[j] = Q[j]
      /\ Insert(Q[k], p) \in Fifo => Enqueue(Q, k, p) \in [Queue -> Fifo]
  BY DEF Queues, Enqueue
<1>3. /\ Insert(Q[k], p) \in Fifo /\ Ordered(Insert(Q[k], p))
      /\ Insert(Q[k], p).mem = Q[k].mem \cup {p}
      /\ Q[k].mem # {} => Front(Insert(Q[k], p)) = Front(Q[k])
      /\ Q[k].mem = {} => Front(Insert(Q[k], p)) = p
  BY <1>1, InsertOrdered, ProcAssumption
<1>4. \A j \in Queue : Ordered(Enqueue(Q, k, p)[j])
  BY <1>2, <1>3 DEF Queues
<1> QED BY <1>2, <1>3, <1>4 DEF Queues

LEMMA DequeueQueues ==
  ASSUME NEW Q, Queues(Q), NEW k \in Queue, NEW p
  PROVE  /\ Queues(Dequeue(Q, k, p))
         /\ Dequeue(Q, k, p)[k].mem = Q[k].mem \ {p}
         /\ \A j \in Queue : j # k => Dequeue(Q, k, p)[j] = Q[j]
PROOF
<1>1. Q[k] \in Fifo /\ Ordered(Q[k])
  BY DEF Queues
<1>2. /\ Dequeue(Q, k, p)[k] = Remove(Q[k], {p})
      /\ \A j \in Queue : j # k => Dequeue(Q, k, p)[j] = Q[j]
      /\ Remove(Q[k], {p}) \in Fifo => Dequeue(Q, k, p) \in [Queue -> Fifo]
  BY DEF Queues, Dequeue
<1>3. /\ Remove(Q[k], {p}) \in Fifo /\ Ordered(Remove(Q[k], {p}))
      /\ Remove(Q[k], {p}).mem = Q[k].mem \ {p}
  BY <1>1, RemoveOrdered
<1>4. \A j \in Queue : Ordered(Dequeue(Q, k, p)[j])
  BY <1>2, <1>3 DEF Queues
<1> QED BY <1>2, <1>3, <1>4 DEF Queues

LEMMA FrontOfQueue ==
  ASSUME NEW Q, Queues(Q), NEW k \in Queue, Q[k].mem # {}
  PROVE  Front(Q[k]) \in Q[k].mem /\ Front(Q[k]) \in Proc
PROOF
<1>1. Q[k] \in Fifo /\ Ordered(Q[k])
  BY DEF Queues
<1>2. Front(Q[k]) \in Q[k].mem
  BY <1>1, FrontExists, ProcAssumption
<1> QED BY <1>1, <1>2 DEF Fifo

(* V of a semaphore whose front waits for nothing else. *)
LEMMA ReleaseQueues ==
  ASSUME NEW Q, Queues(Q), NEW s \in Semaphore, Q[s].mem # {},
         \A k \in Queue : k # s => Front(Q[s]) \notin Q[k].mem
  PROVE  /\ Queues(Release(Q, s))
         /\ Release(Q, s)[s].mem = Q[s].mem \ {Front(Q[s])}
         /\ Release(Q, s)[RQ].mem = Q[RQ].mem \cup {Front(Q[s])}
         /\ \A k \in Semaphore : k # s => Release(Q, s)[k] = Q[k]
         /\ Q[RQ].mem # {} => Front(Release(Q, s)[RQ]) = Front(Q[RQ])
PROOF
<1> DEFINE p == Front(Q[s])
           R == Dequeue(Q, s, p)
<1>0. s \in Queue /\ RQ \in Queue /\ RQ # s /\ RQ \notin Semaphore
  BY QueueAssumption DEF Queue
<1>1. p \in Q[s].mem /\ p \in Proc
  BY <1>0, FrontOfQueue
<1>h. \A k \in Queue : k # s => p \notin Q[k].mem
  OBVIOUS
<1>d. Release(Q, s) = IF \E k \in Queue : p \in R[k].mem THEN R ELSE Enqueue(R, RQ, p)
  BY DEF Release
<1> HIDE DEF p
<1>2. /\ Queues(R) /\ R[s].mem = Q[s].mem \ {p}
      /\ \A j \in Queue : j # s => R[j] = Q[j]
  BY <1>0, DequeueQueues
<1> HIDE DEF R
<1>3. \A k \in Queue : p \notin R[k].mem
  BY <1>2, <1>h
<1>4. Release(Q, s) = Enqueue(R, RQ, p)
  BY <1>3, <1>d
<1>5. /\ Queues(Enqueue(R, RQ, p))
      /\ Enqueue(R, RQ, p)[RQ].mem = R[RQ].mem \cup {p}
      /\ \A j \in Queue : j # RQ => Enqueue(R, RQ, p)[j] = R[j]
      /\ R[RQ].mem # {} => Front(Enqueue(R, RQ, p)[RQ]) = Front(R[RQ])
  BY <1>0, <1>1, <1>2, <1>3, EnqueueQueues
<1>6. Semaphore \subseteq Queue
  BY DEF Queue
<1> QED BY <1>0, <1>2, <1>4, <1>5, <1>6 DEF p

(* V of a semaphore whose front waits for another one too: it stays blocked. *)
LEMMA ReleaseBlocked ==
  ASSUME NEW Q, Queues(Q), NEW s \in Semaphore, Q[s].mem # {},
         NEW k \in Queue, k # s, Front(Q[s]) \in Q[k].mem
  PROVE  /\ Queues(Release(Q, s))
         /\ Release(Q, s)[s].mem = Q[s].mem \ {Front(Q[s])}
         /\ \A j \in Queue : j # s => Release(Q, s)[j] = Q[j]
PROOF
<1> DEFINE p == Front(Q[s])
           R == Dequeue(Q, s, p)
<1>1. s \in Queue
  BY DEF Queue
<1>2. /\ Queues(R) /\ R[s].mem = Q[s].mem \ {p}
      /\ \A j \in Queue : j # s => R[j] = Q[j]
  BY <1>1, DequeueQueues
<1>3. Release(Q, s) = R
  BY <1>2 DEF Release
<1> QED BY <1>2, <1>3

(* The cardinality of the queue of a semaphore, one process more or less. *)
LEMMA QueueCardinality ==
  ASSUME NEW Q, Queues(Q), NEW k \in Queue
  PROVE  /\ IsFiniteSet(Q[k].mem) /\ Cardinality(Q[k].mem) \in Nat
         /\ Q[k].mem \subseteq Proc
         /\ Cardinality(Q[k].mem) = 0 <=> Q[k].mem = {}
PROOF
<1>1. Q[k].mem \subseteq Proc
  BY DEF Queues, Fifo
<1>2. IsFiniteSet(Q[k].mem)
  BY <1>1, FS_Subset, ProcAssumption
<1> QED BY <1>1, <1>2, FS_CardinalityType, FS_EmptySet

-----------------------------------------------------------------------------
(* If a process can wait for several semaphores, there are fewer semaphores *)
(* to wait for than descriptors.                                            *)
LEMMA FewSemaphores ==
  ASSUME Inv, ~ \A v \in Vectors : SingleP(v)
  PROVE  Cardinality(Active(q)) \in Nat /\ Cardinality(Active(q)) < NumDesc
PROOF
<1>1. IsFiniteSet(Awaited) /\ Cardinality(Awaited) < NumDesc
  BY DisciplineAssumption
<1>2. Active(q) \subseteq Awaited
  BY DEF Inv, WaitsFor, Active
<1>3. /\ IsFiniteSet(Active(q)) /\ Cardinality(Active(q)) <= Cardinality(Awaited)
  BY <1>1, <1>2, FS_Subset
<1> QED BY <1>1, <1>3, FS_CardinalityType, BoundAssumption

(* If it cannot, then while a process runs that is not blocked, every active *)
(* semaphore has a front of its own and none of them is the running process. *)
(* So the descriptors of insertBlocked do not run out.                      *)
LEMMA ActiveBound ==
  ASSUME Inv, cpu \in {"run", "semop"}, ~blocked
  PROVE  Cardinality(Active(q)) \in Nat /\ Cardinality(Active(q)) < NumDesc
PROOF
<1>0. CASE ~ \A v \in Vectors : SingleP(v)
  BY <1>0, FewSemaphores
<1>1. CASE IsFiniteSet(Awaited) /\ Cardinality(Awaited) < NumDesc
  <2>1. Active(q) \subseteq Awaited
    BY DEF Inv, WaitsFor, Active
  <2>2. /\ IsFiniteSet(Active(q)) /\ Cardinality(Active(q)) <= Cardinality(Awaited)
    BY <1>1, <2>1, FS_Subset
  <2> QED BY <1>1, <2>2, FS_CardinalityType, BoundAssumption
<1>2. CASE (\A v \in Vectors : SingleP(v)) /\ Cardinality(Proc) <= NumDesc
  <2> DEFINE A == Active(q)
             B == Proc \ {Caller}
             g == [s \in A |-> Front(q[s])]
  <2>1. Caller \in q[RQ].mem /\ Caller \in Proc
    BY FrontOfQueue DEF Inv, Preemptible, Caller, Queue
  <2>2. ASSUME NEW s \in A
        PROVE  s \in Semaphore /\ Front(q[s]) \in q[s].mem /\ Front(q[s]) \in B
    <3>1. s \in Semaphore /\ s \in Queue /\ q[s].mem # {}
      BY DEF Active, Queue
    <3>2. Front(q[s]) \in q[s].mem /\ Front(q[s]) \in Proc
      BY <3>1, FrontOfQueue DEF Inv
    <3>3. Caller \notin q[s].mem
      BY <2>1, <3>1 DEF Inv, ReadyOrBlocked
    <3> QED BY <3>1, <3>2, <3>3
  <2>3. \A s, t \in A : g[s] = g[t] => s = t
    BY <1>2, <2>2 DEF Inv, WaitsFor
  <2>4. g \in Injection(A, B)
    BY <2>2, <2>3 DEF Injection, IsInjective
  <2>5. /\ IsFiniteSet(B) /\ Cardinality(B) = Cardinality(Proc) - 1
        /\ Cardinality(Proc) \in Nat
    BY <2>1, ProcAssumption, FS_RemoveElement, FS_CardinalityType
  <2>6. IsFiniteSet(A) /\ Cardinality(A) <= Cardinality(B)
    <3> HIDE DEF A, B, g
    <3> QED BY <2>4, <2>5, FS_Injection
  <2>7. Cardinality(A) \in Nat
    BY <2>6, FS_CardinalityType
  <2> QED BY <1>2, <2>5, <2>6, <2>7, BoundAssumption
<1> QED BY <1>0, <1>1, <1>2, DisciplineAssumption

(* So a P that blocks inserts its caller. *)
LEMMA InsertBlockedQueues ==
  ASSUME Inv, cpu \in {"run", "semop"}, ~blocked \/ ~ \A v \in Vectors : SingleP(v),
         NEW Q, NEW p, \A s \in Semaphore : Q[s] = q[s], NEW s \in Semaphore
  PROVE  InsertBlocked(Q, s, p) = Enqueue(Q, s, p)
PROOF
<1>1. Cardinality(Active(q)) \in Nat /\ Cardinality(Active(q)) < NumDesc
  BY ActiveBound, FewSemaphores
<1>2. Active(Q) = Active(q)
  BY DEF Active
<1>3. ~(Cardinality(Active(q)) >= NumDesc)
  BY <1>1, BoundAssumption
<1> QED BY <1>2, <1>3 DEF InsertBlocked

(* What schedule() and intdeadlock() decide, from queues that are in order. *)
LEMMA ScheduleStep ==
  ASSUME NEW t \in {"off", "armed", "pending"}, live' \subseteq Proc, Queues(q'),
         NoLostProcess', DeviceHandshake', DeviceOwner', cpu' = Dispatch(q'),
         timer' = Rearm(q', t)
  PROVE  /\ HonestHalt' /\ IdleIsWakeable' /\ Preemptible' /\ ClockRuns'
         /\ cpu' \in {"run", "idle", "normal", "deadlock"}
         /\ timer' \in {"off", "armed", "pending"}
PROOF
<1> USE DEF Dispatch, Rearm, Arm
<1>1. /\ cpu' \in {"run", "idle", "normal", "deadlock"}
      /\ timer' \in {"off", "armed", "pending"}
  OBVIOUS
<1>2. cpu' = "run" => q'[RQ].mem # {}
  OBVIOUS
<1>3. q'[RQ].mem # {} \/ q'[PClock].mem # {} => timer' # "off"
  OBVIOUS
<1>4. Preemptible' /\ ClockRuns'
  BY <1>1, <1>2, <1>3 DEF Preemptible, ClockRuns
<1>5. HonestHalt'
  <2>1. ASSUME cpu' = "normal" PROVE live' = {}
    <3>1. \A k \in Queue : q'[k].mem = {}
      BY <2>1 DEF Active, Queue
    <3> QED BY <3>1 DEF NoLostProcess
  <2>2. ASSUME cpu' = "deadlock"
        PROVE  live' # {} /\ \A p \in live' : \E s \in Sem : p \in q'[s].mem
    <3>1. /\ \A k \in Queue \ Sem : q'[k].mem = {}
          /\ \E s \in Semaphore : q'[s].mem # {}
      BY <2>2 DEF Active, Queue, Semaphore
    <3>2. \A p \in live' : \E s \in Sem : p \in q'[s].mem
      BY <3>1 DEF NoLostProcess
    <3>3. PICK s \in Semaphore : q'[s].mem # {}
      BY <3>1
    <3>4. PICK p \in Proc : p \in q'[s].mem
      BY <3>3, QueueCardinality DEF Queue
    <3> QED BY <3>2, <3>3, <3>4 DEF NoLostProcess, Queue
  <2> QED BY <2>1, <2>2 DEF HonestHalt
<1>6. IdleIsWakeable'
  <2> SUFFICES ASSUME cpu' = "idle"
               PROVE  /\ q'[RQ].mem = {}
                      /\ \/ \E d \in busy' : q'[d].mem # {}
                         \/ q'[PClock].mem # {} /\ timer' # "off"
    BY DEF IdleIsWakeable
  <2>1. q'[RQ].mem = {} /\ \E s \in Dev \cup {PClock} : q'[s].mem # {}
    OBVIOUS
  <2>2. ASSUME NEW d \in Dev, q'[d].mem # {} PROVE d \in busy'
    <3>1. PICK p \in Proc : p \in q'[d].mem
      BY <2>2, QueueCardinality DEF Queue, Semaphore
    <3> QED BY <3>1 DEF DeviceHandshake, DeviceOwner
  <2> QED BY <2>1, <2>2, <1>3
<1> QED BY <1>1, <1>4, <1>5, <1>6

-----------------------------------------------------------------------------
(* Every step keeps Inv.                                                   *)

LEMMA Disjoint ==
  /\ RQ \in Queue /\ RQ \notin Semaphore /\ PClock \in Semaphore
  /\ Semaphore \subseteq Queue /\ Dev \subseteq Semaphore /\ Sem \subseteq Semaphore
  /\ PClock \notin Dev /\ PClock \notin Sem /\ Sem \cap Dev = {}
  /\ Queue = Semaphore \cup {RQ}
PROOF BY QueueAssumption DEF Queue, Semaphore

LEMMA InitInv == Init => Inv
PROOF
<1> SUFFICES ASSUME Init PROVE Inv
  OBVIOUS
<1>1. /\ Queues(q) /\ q[RQ].mem = {Root} /\ Caller = Root
      /\ \A s \in Semaphore : q[s].mem = {}
  <2>1. EmptyFifo \in Fifo /\ Ordered(EmptyFifo) /\ EmptyFifo.mem = {}
    BY EmptyFifoOrdered
  <2>2. /\ Insert(EmptyFifo, Root) \in Fifo /\ Ordered(Insert(EmptyFifo, Root))
        /\ Insert(EmptyFifo, Root).mem = {Root} /\ Front(Insert(EmptyFifo, Root)) = Root
    BY <2>1, ProcAssumption, InsertOrdered
  <2>3. q[RQ] = Insert(EmptyFifo, Root) /\ \A s \in Semaphore : q[s] = EmptyFifo
    BY Disjoint DEF Init
  <2>4. Queues(q)
    BY <2>1, <2>2, Disjoint DEF Queues, Init
  <2> QED BY <2>1, <2>2, <2>3, <2>4 DEF Caller
<1>2. val \in [Semaphore -> Nat]
  BY BoundAssumption DEF Init
<1>3. TypeOK
  <2>1. vec \in Seq(Vpop) /\ i = 1 /\ busy = {} /\ cpu = "run"
    BY DEF Init
  <2>4. blocked \in BOOLEAN
    BY Zenon DEF Init
  <2>2. parent \in [Proc -> Proc \cup {None}] /\ io \in [Proc -> Dev \cup {None}]
    BY DEF Init
  <2>3. live \subseteq Proc /\ timer = "armed" /\ ticks \in 0 .. Ticks - 1
    BY ProcAssumption, BoundAssumption DEF Init
  <2> QED BY <1>1, <1>2, <2>1, <2>2, <2>3, <2>4 DEF TypeOK, Queues
<1>4. Accounting
  <2> SUFFICES ASSUME NEW s \in Semaphore
               PROVE  Cardinality(q[s].mem) = IF val[s] < 0 THEN -val[s] ELSE 0
    BY DEF Accounting
  <2>1. Cardinality(q[s].mem) = 0
    BY <1>1, FS_EmptySet
  <2>2. val[s] \in Nat
    BY <1>2
  <2> QED BY <2>1, <2>2
<1>5. NoLostProcess
  BY <1>1, Disjoint DEF NoLostProcess, Init
<1>6. ReadyOrBlocked /\ WaitsFor /\ Preemptible /\ ClockRuns /\ CallState
  BY <1>1, Disjoint DEF Init, ReadyOrBlocked, WaitsFor, Preemptible, ClockRuns, CallState
<1>7. Descended
  BY DEF Descended, Init
<1>8. HonestHalt /\ IdleIsWakeable
  BY DEF HonestHalt, IdleIsWakeable, Init
<1>9. DeviceHandshake /\ DeviceOwner
  BY <1>1, Disjoint, ProcAssumption DEF DeviceHandshake, DeviceOwner, Init
<1> QED BY <1>1, <1>3, <1>4, <1>5, <1>6, <1>7, <1>8, <1>9 DEF Inv

(* The running process is live, ready and, outside SYS3, on no other queue. *)
LEMMA CallerFacts ==
  ASSUME Inv, cpu \in {"run", "semop"}
  PROVE  /\ q[RQ].mem # {} /\ Caller \in q[RQ].mem /\ Caller \in Proc /\ Caller \in live
         /\ timer # "off"
         /\ ~blocked => \A s \in Semaphore : Caller \notin q[s].mem
PROOF
<1>1. q[RQ].mem # {} /\ timer # "off"
  BY DEF Inv, Preemptible
<1>2. Caller \in q[RQ].mem /\ Caller \in Proc
  BY <1>1, Disjoint, FrontOfQueue DEF Inv, Caller
<1> QED BY <1>1, <1>2, Disjoint DEF Inv, NoLostProcess, ReadyOrBlocked

(* A step that leaves the queues, the values and the processes alone.      *)
LEMMA QuietStep ==
  ASSUME Inv, UNCHANGED <<live, parent, q, val>>
  PROVE  /\ Queues(q') /\ Accounting' /\ NoLostProcess' /\ WaitsFor' /\ Descended'
         /\ Caller' = Caller
PROOF BY DEF Inv, Queues, Accounting, NoLostProcess, WaitsFor, Descended, Closed, Caller

(* Whoever waits less keeps to what it waits for. *)
LEMMA WaitsForFewer ==
  ASSUME WaitsFor, \A s \in Semaphore : q'[s].mem \subseteq q[s].mem
  PROVE  WaitsFor'
PROOF
<1>1. ASSUME NEW s \in Semaphore, NEW t \in Semaphore, s # t,
             s \notin Sem \/ \A v \in Vectors : SingleP(v)
      PROVE  q'[s].mem \cap q'[t].mem = {}
  BY <1>1 DEF WaitsFor
<1> QED BY <1>1 DEF WaitsFor

LEMMA StutterInv == Inv /\ UNCHANGED vars => Inv'
PROOF
<1> SUFFICES ASSUME Inv, UNCHANGED vars PROVE Inv'
  OBVIOUS
<1> USE DEF vars
<1>1. Queues(q') /\ Accounting' /\ NoLostProcess' /\ WaitsFor' /\ Descended' /\ Caller' = Caller
  BY QuietStep
<1>2. TypeOK'
  BY DEF Inv, TypeOK
<1>3. ReadyOrBlocked' /\ Preemptible' /\ ClockRuns'
  BY <1>1 DEF Inv, ReadyOrBlocked, Preemptible, ClockRuns
<1>4. CallState'
  BY <1>1 DEF Inv, CallState
<1>5. HonestHalt' /\ IdleIsWakeable'
  BY DEF Inv, HonestHalt, IdleIsWakeable
<1>6. DeviceHandshake' /\ DeviceOwner'
  BY DEF Inv, DeviceHandshake, DeviceOwner
<1> QED BY <1>1, <1>2, <1>3, <1>4, <1>5, <1>6 DEF Inv

LEMMA TimerExpiresInv == Inv /\ TimerExpires => Inv'
PROOF
<1> SUFFICES ASSUME Inv, TimerExpires PROVE Inv'
  OBVIOUS
<1> USE DEF TimerExpires, procVars, callVars, devVars
<1>1. Queues(q') /\ Accounting' /\ NoLostProcess' /\ WaitsFor' /\ Descended' /\ Caller' = Caller
  BY QuietStep
<1>2. TypeOK'
  BY DEF Inv, TypeOK
<1>3. ReadyOrBlocked' /\ Preemptible' /\ ClockRuns'
  BY <1>1 DEF Inv, ReadyOrBlocked, Preemptible, ClockRuns
<1>4. CallState'
  BY <1>1 DEF Inv, CallState
<1>5. HonestHalt' /\ IdleIsWakeable'
  BY DEF Inv, HonestHalt, IdleIsWakeable
<1>6. DeviceHandshake' /\ DeviceOwner'
  BY DEF Inv, DeviceHandshake, DeviceOwner
<1> QED BY <1>1, <1>2, <1>3, <1>4, <1>5, <1>6 DEF Inv

LEMMA NotUsedInv == Inv /\ NotUsed => Inv'
PROOF
<1> SUFFICES ASSUME Inv, NotUsed PROVE Inv'
  OBVIOUS
<1> USE DEF NotUsed, procVars, callVars, devVars
<1>1. Queues(q') /\ Accounting' /\ NoLostProcess' /\ WaitsFor' /\ Descended' /\ Caller' = Caller
  BY QuietStep
<1>2. TypeOK'
  BY DEF Inv, TypeOK
<1>3. ReadyOrBlocked' /\ Preemptible' /\ ClockRuns'
  BY <1>1 DEF Inv, ReadyOrBlocked, Preemptible, ClockRuns
<1>4. CallState'
  BY <1>1 DEF Inv, CallState
<1>5. HonestHalt' /\ IdleIsWakeable'
  BY DEF Inv, HonestHalt, IdleIsWakeable
<1>6. DeviceHandshake' /\ DeviceOwner'
  BY DEF Inv, DeviceHandshake, DeviceOwner
<1> QED BY <1>1, <1>2, <1>3, <1>4, <1>5, <1>6 DEF Inv

LEMMA StartIOInv == ASSUME NEW d \in Dev PROVE Inv /\ StartIO(d) => Inv'
PROOF
<1> SUFFICES ASSUME Inv, StartIO(d) PROVE Inv'
  OBVIOUS
<1> USE DEF StartIO, procVars, callVars
<1>0. Caller \in Proc /\ Caller \in live /\ \A s \in Semaphore : Caller \notin q[s].mem
  BY CallerFacts DEF Inv, CallState
<1>1. Queues(q') /\ Accounting' /\ NoLostProcess' /\ WaitsFor' /\ Descended' /\ Caller' = Caller
  BY QuietStep
<1>2. TypeOK'
  BY DEF Inv, TypeOK
<1>3. ReadyOrBlocked' /\ Preemptible' /\ ClockRuns'
  BY <1>1 DEF Inv, ReadyOrBlocked, Preemptible, ClockRuns
<1>4. CallState'
  BY <1>1 DEF Inv, CallState
<1>5. HonestHalt' /\ IdleIsWakeable'
  BY DEF Inv, HonestHalt, IdleIsWakeable
<1>6. \A p \in Proc : io'[p] = IF p = Caller THEN d ELSE io[p]
  BY <1>0 DEF Inv, TypeOK
<1>7. DeviceHandshake'
  BY <1>0, <1>6, Disjoint DEF Inv, DeviceHandshake
<1>8. DeviceOwner'
  BY <1>0, <1>6, Disjoint, ProcAssumption DEF Inv, DeviceOwner
<1> QED BY <1>1, <1>2, <1>3, <1>4, <1>5, <1>7, <1>8 DEF Inv

LEMMA SemopInv == Inv /\ Semop => Inv'
PROOF
<1> SUFFICES ASSUME Inv, Semop PROVE Inv'
  OBVIOUS
<1> USE DEF Semop, procVars, devVars
<1>1. Queues(q') /\ Accounting' /\ NoLostProcess' /\ WaitsFor' /\ Descended' /\ Caller' = Caller
  BY QuietStep
<1>2. TypeOK'
  <2>1. vec' \in Seq(Vpop) /\ i' = 1 /\ cpu' = "semop"
    BY VectorAssumption
  <2>3. blocked' \in BOOLEAN
    BY Zenon
  <2>2. UNCHANGED <<live, parent, q, val, timer, ticks, busy, io>>
    OBVIOUS
  <2> HIDE DEF Semop
  <2> QED BY <2>1, <2>2, <2>3 DEF Inv, TypeOK
<1>3. ReadyOrBlocked' /\ Preemptible' /\ ClockRuns'
  BY <1>1 DEF Inv, ReadyOrBlocked, Preemptible, ClockRuns, CallState
<1>4. CallState'
  <2>1. \A s \in Semaphore : Caller \notin q[s].mem
    BY CallerFacts DEF Inv, CallState
  <2> QED BY <1>1, <2>1 DEF CallState
<1>5. HonestHalt' /\ IdleIsWakeable'
  BY DEF Inv, HonestHalt, IdleIsWakeable
<1>6. DeviceHandshake' /\ DeviceOwner'
  BY DEF Inv, DeviceHandshake, DeviceOwner
<1> QED BY <1>1, <1>2, <1>3, <1>4, <1>5, <1>6 DEF Inv

(* SYS1: a new leaf of the tree, at the back of the ready queue.           *)
LEMMA CreateProcInv == Inv /\ CreateProc => Inv'
PROOF
<1> SUFFICES ASSUME Inv, CreateProc PROVE Inv'
  OBVIOUS
<1>0. /\ cpu = "run" /\ UNCHANGED <<val, cpu, vec, i, blocked, timer, ticks, busy, io>>
      /\ cpu \in {"run", "semop"} /\ ~blocked
  BY DEF CreateProc, callVars, devVars, Inv, CallState
<1>1. CASE UNCHANGED <<live, parent, q>>
  BY <1>0, <1>1, StutterInv DEF vars
<1>2. ASSUME NEW c \in Proc \ live, live' = live \cup {c},
             parent' = [parent EXCEPT ![c] = Caller], q' = Enqueue(q, RQ, c)
      PROVE  Inv'
  <2>1. /\ q[RQ].mem # {} /\ Caller \in q[RQ].mem /\ Caller \in Proc /\ Caller \in live
        /\ \A s \in Semaphore : Caller \notin q[s].mem
    BY <1>0, CallerFacts
  <2>2. \A k \in Queue : c \notin q[k].mem
    BY DEF Inv, NoLostProcess
  <2>3. /\ Queues(q') /\ q'[RQ].mem = q[RQ].mem \cup {c} /\ Caller' = Caller
        /\ \A s \in Semaphore : q'[s] = q[s]
    BY <1>2, <2>1, <2>2, Disjoint, EnqueueQueues DEF Inv, Caller
  <2>4. TypeOK'
    BY <1>0, <1>2, <2>1, <2>3 DEF Inv, TypeOK, Queues
  <2>5. Accounting'
    BY <1>0, <2>3 DEF Inv, Accounting
  <2>6. NoLostProcess'
    BY <1>2, <2>3, Disjoint DEF Inv, NoLostProcess
  <2>7. ReadyOrBlocked' /\ WaitsFor'
    BY <1>0, <2>2, <2>3, Disjoint DEF Inv, ReadyOrBlocked, WaitsFor
  <2>8. Preemptible' /\ ClockRuns' /\ CallState' /\ HonestHalt' /\ IdleIsWakeable'
    BY <1>0, <2>3, Disjoint
    DEF Inv, Preemptible, ClockRuns, CallState, HonestHalt, IdleIsWakeable
  <2>9. Descended'
    <3>1. Root \in live /\ live \subseteq Proc /\ parent \in [Proc -> Proc \cup {None}]
      BY <2>1 DEF Inv, Descended, TypeOK
    <3>2. ASSUME NEW S \in SUBSET Proc, Root \in S, Closed(S)' PROVE live' \subseteq S
      <4>1. Closed(S)
        BY <1>2, <3>1, <3>2 DEF Closed
      <4>2. live \subseteq S
        BY <2>1, <3>2, <4>1 DEF Inv, Descended
      <4>3. c \in live' /\ parent'[c] = Caller
        BY <1>2, <3>1
      <4> QED BY <1>2, <2>1, <3>2, <4>2, <4>3 DEF Closed
    <3> QED BY <1>2, <3>1, <3>2 DEF Descended
  <2>10. DeviceHandshake' /\ DeviceOwner'
    BY <1>0, <1>2, <2>3, Disjoint DEF Inv, DeviceHandshake, DeviceOwner
  <2> QED BY <2>3, <2>4, <2>5, <2>6, <2>7, <2>8, <2>9, <2>10 DEF Inv
<1> QED BY <1>1, <1>2 DEF CreateProc

(* Subtree(p) is the least set with p that is closed under "child of".     *)
LEMMA SubtreeFacts ==
  ASSUME live \subseteq Proc, NEW p \in Proc
  PROVE  /\ p \in Subtree(p) /\ Subtree(p) \subseteq Proc /\ Closed(Subtree(p))
         /\ \A S \in SUBSET Proc : p \in S /\ Closed(S) => Subtree(p) \subseteq S
PROOF BY DEF Subtree, Closed

(* NoOrphans is what Descended says of the live processes.                 *)
LEMMA DescendedNoOrphans == Inv => NoOrphans
PROOF
<1> SUFFICES ASSUME Inv PROVE NoOrphans
  OBVIOUS
<1>1. live \subseteq Proc /\ Descended /\ Root \in Proc
  BY ProcAssumption DEF Inv, TypeOK
<1>2. CASE Root \notin live
  BY <1>1, <1>2 DEF Descended, NoOrphans
<1>3. CASE Root \in live
  <2>1. Closed(live)
    BY DEF Closed
  <2>2. Subtree(Root) \subseteq live
    BY <1>1, <1>3, <2>1, SubtreeFacts
  <2>3. live \subseteq Subtree(Root)
    BY <1>1, <1>3, SubtreeFacts DEF Descended
  <2> QED BY <1>3, <2>2, <2>3 DEF NoOrphans
<1> QED BY <1>2, <1>3

(* SYS2: the family leaves the process table and all the queues, and every  *)
(* semaphore gets back what its members were waiting for.                  *)
LEMMA KillProcInv == Inv /\ KillProc => Inv'
PROOF
<1> SUFFICES ASSUME Inv, KillProc PROVE Inv'
  OBVIOUS
<1> DEFINE K == Subtree(Caller)
           Q == [k \in Queue |-> Remove(q[k], K)]
<1>0. /\ cpu = "run" /\ UNCHANGED <<vec, i, blocked, ticks, busy>> /\ ~blocked
      /\ live' = live \ K /\ q' = Q /\ val' = GiveBack(K)
      /\ parent' = [p \in Proc |-> IF p \in K THEN None ELSE parent[p]]
      /\ io' = [p \in Proc |-> IF p \in K THEN None ELSE io[p]]
      /\ cpu' = Dispatch(q') /\ timer' = Rearm(q', timer)
  BY DEF KillProc, Kill, callVars, Inv, CallState, Schedule
<1>1. Caller \in Proc /\ Caller \in live /\ cpu \in {"run", "semop"}
  BY <1>0, CallerFacts
<1>2. live \subseteq Proc /\ parent \in [Proc -> Proc \cup {None}]
  BY DEF Inv, TypeOK
<1>3. Caller \in K /\ K \subseteq Proc /\ Closed(K)
  BY <1>1, <1>2, SubtreeFacts
<1> HIDE DEF K
<1>4. Queues(q') /\ \A k \in Queue : q'[k].mem = q[k].mem \ K
  <2>1. \A k \in Queue : q[k] \in Fifo /\ Ordered(q[k])
    BY DEF Inv, Queues
  <2>2. \A k \in Queue : /\ Remove(q[k], K) \in Fifo /\ Ordered(Remove(q[k], K))
                         /\ Remove(q[k], K).mem = q[k].mem \ K
    BY <2>1, RemoveOrdered
  <2> QED BY <1>0, <2>2 DEF Queues
<1> HIDE DEF Q
<1>5. ASSUME NEW s \in Semaphore
      PROVE  /\ val[s] \in Int /\ val'[s] \in Int /\ val'[s] >= val[s]
             /\ Cardinality(q'[s].mem) = IF val'[s] < 0 THEN -val'[s] ELSE 0
  <2>1. /\ IsFiniteSet(q[s].mem) /\ Cardinality(q[s].mem) \in Nat
        /\ Cardinality(q[s].mem) = 0 <=> q[s].mem = {}
    BY QueueCardinality, Disjoint DEF Inv
  <2>2. /\ Cardinality(q[s].mem \cap K) \in Nat
        /\ Cardinality(q[s].mem \ K) = Cardinality(q[s].mem) - Cardinality(q[s].mem \cap K)
        /\ Cardinality(q[s].mem \ K) \in Nat
    BY <2>1, FS_Difference, FS_Intersection, FS_CardinalityType
  <2>3. val'[s] = val[s] + Cardinality(q[s].mem \cap K) /\ val[s] \in Int
    BY <1>0 DEF GiveBack, Inv, TypeOK
  <2>4. Cardinality(q[s].mem) = IF val[s] < 0 THEN -val[s] ELSE 0
    BY DEF Inv, Accounting
  <2>5. q'[s].mem = q[s].mem \ K
    BY <1>4, Disjoint
  <2> QED BY <2>2, <2>3, <2>4, <2>5
<1>6. Accounting'
  BY <1>5 DEF Accounting
<1>7. NoLostProcess'
  BY <1>0, <1>4 DEF Inv, NoLostProcess
<1>8. ReadyOrBlocked' /\ WaitsFor'
  BY <1>0, <1>4, Disjoint DEF Inv, ReadyOrBlocked, WaitsFor
<1>9. \A p \in Proc : (p \in K => io'[p] = None) /\ (p \notin K => io'[p] = io[p])
  BY <1>0
<1>10. DeviceHandshake'
  BY <1>0, <1>4, <1>5, <1>9, Disjoint, ProcAssumption DEF Inv, DeviceHandshake
<1>11. DeviceOwner'
  <2>1. ASSUME NEW d \in Dev, NEW p \in q'[d].mem PROVE io'[p] = d
    <3>1. p \in Proc /\ p \in q[d].mem /\ p \notin K
      BY <1>4, <2>1, Disjoint, QueueCardinality
    <3> QED BY <1>9, <3>1 DEF Inv, DeviceOwner
  <2> QED BY <1>0, <1>9, <2>1 DEF Inv, DeviceOwner
<1>12. Descended'
  <2>1. ASSUME live' # {} PROVE Root \in live'
    <3>1. Root \in live
      BY <1>1 DEF Inv, Descended
    <3>2. ASSUME Root \in K PROVE FALSE
      <4>1. live \subseteq K
        BY <1>1, <1>3, <3>2 DEF Inv, Descended
      <4> QED BY <1>0, <2>1, <4>1
    <3> QED BY <1>0, <3>1, <3>2
  <2>2. ASSUME NEW S \in SUBSET Proc, Root \in S, Closed(S)' PROVE live' \subseteq S
    <3>1. Closed(S \cup K)
      <4>1. \A x \in live \ K : parent'[x] = parent[x]
        BY <1>0, <1>2
      <4> QED BY <1>0, <1>3, <2>2, <4>1 DEF Closed
    <3>2. live \subseteq S \cup K
      BY <1>1, <1>3, <2>2, <3>1 DEF Inv, Descended
    <3> QED BY <1>0, <3>2
  <2> QED BY <2>1, <2>2 DEF Descended
<1>13. /\ HonestHalt' /\ IdleIsWakeable' /\ Preemptible' /\ ClockRuns'
       /\ cpu' \in {"run", "idle", "normal", "deadlock"}
       /\ timer' \in {"off", "armed", "pending"}
  <2>1. timer \in {"off", "armed", "pending"} /\ live' \subseteq Proc
    BY <1>0, <1>2 DEF Inv, TypeOK
  <2> QED BY <1>0, <1>4, <1>7, <1>10, <1>11, <2>1, ScheduleStep
<1>14. CallState'
  BY <1>0, <1>13 DEF CallState
<1>15. TypeOK'
  <2>1. val' \in [Semaphore -> Int]
    BY <1>0, <1>5 DEF GiveBack
  <2>2. io' \in [Proc -> Dev \cup {None}] /\ parent' \in [Proc -> Proc \cup {None}]
    BY <1>0 DEF Inv, TypeOK
  <2> QED BY <1>0, <1>4, <1>13, <2>1, <2>2 DEF Inv, TypeOK, Queues
<1> QED
  BY <1>4, <1>6, <1>7, <1>8, <1>10, <1>11, <1>12, <1>13, <1>14, <1>15 DEF Inv

(* One element of a SYS3.                                                  *)
LEMMA SemopStepInv == Inv /\ SemopStep => Inv'
PROOF
<1> SUFFICES ASSUME Inv, SemopStep PROVE Inv'
  OBVIOUS
<1> DEFINE s == vec[i].sem
<1>0. /\ cpu = "semop" /\ i <= Len(vec) /\ i' = i + 1
      /\ UNCHANGED <<live, parent, cpu, vec, timer, ticks, busy, io>>
      /\ val' = [val EXCEPT ![s] = @ + vec[i].op]
  BY DEF SemopStep, procVars, devVars
<1>1. /\ i \in Nat \ {0} /\ vec \in Seq(Vpop) /\ vec \in Vectors /\ POnce(vec)
      /\ i \in DOMAIN vec
  BY <1>0, DisciplineAssumption DEF Inv, TypeOK, CallState
<1>2. s \in Sem /\ s \in Semaphore /\ s \in Queue /\ s # RQ /\ vec[i].op \in {LOCK, UNLOCK}
  <2>1. vec[i] \in Vpop
    BY <1>1
  <2>2. vec[i].sem \in Sem /\ vec[i].op \in {LOCK, UNLOCK}
    BY <2>1 DEF Vpop
  <2> QED BY <2>2, Disjoint
<1>3. /\ q[RQ].mem # {} /\ Caller \in q[RQ].mem /\ Caller \in Proc /\ Caller \in live
      /\ ~blocked => \A t \in Semaphore : Caller \notin q[t].mem
  BY <1>0, CallerFacts
<1>4. /\ \A t \in Semaphore : Caller \in q[t].mem =>
           \E j \in DOMAIN vec : j < i /\ vec[j].op = LOCK /\ vec[j].sem = t
      /\ Caller \notin q[s].mem
      /\ blocked => \E t \in Semaphore : t # s /\ Caller \in q[t].mem
  <2>1. /\ \A t \in Semaphore : Caller \in q[t].mem =>
             \E j \in DOMAIN vec : j < i /\ vec[j].op = LOCK /\ vec[j].sem = t
        /\ blocked => \E t \in Semaphore : Caller \in q[t].mem
    BY <1>0 DEF Inv, CallState
  <2>2. Caller \notin q[s].mem
    BY <1>1, <1>2, <2>1 DEF POnce
  <2> QED BY <2>1, <2>2
<1>5. /\ val[s] \in Int /\ val' \in [Semaphore -> Int] /\ val'[s] = val[s] + vec[i].op
      /\ \A t \in Semaphore : t # s => val'[t] = val[t]
  BY <1>0, <1>2 DEF Inv, TypeOK, LOCK, UNLOCK
<1>6. /\ IsFiniteSet(q[s].mem) /\ Cardinality(q[s].mem) = (IF val[s] < 0 THEN -val[s] ELSE 0)
      /\ Cardinality(q[s].mem) = 0 <=> q[s].mem = {}
  BY <1>2, QueueCardinality DEF Inv, Accounting
<1> HIDE DEF s
<1>b. \A j \in DOMAIN vec : j < i => j < i'
  BY <1>0, <1>1
<1>7. /\ timer' # "off"
      /\ i' \in Nat \ {0} /\ \A d \in Dev : d # s
  BY <1>0, <1>1, <1>2, Disjoint DEF Inv, Preemptible
<1>8. ASSUME Queues(q'), \A t \in Semaphore : t # s => q'[t] = q[t],
             q'[RQ].mem # {}, Caller' = Caller, blocked' \in BOOLEAN,
             Cardinality(q'[s].mem) = (IF val'[s] < 0 THEN -val'[s] ELSE 0),
             \A p \in Proc : (\E k \in Queue : p \in q'[k].mem) <=> (\E k \in Queue : p \in q[k].mem),
             ReadyOrBlocked', WaitsFor',
             blocked' => \E t \in Semaphore : Caller \in q'[t].mem,
             \A t \in Semaphore : Caller \in q'[t].mem =>
               \E j \in DOMAIN vec : j < i' /\ vec[j].op = LOCK /\ vec[j].sem = t
      PROVE  Inv'
  <2>1. TypeOK'
    <3>1. cpu' \in {"run", "semop", "idle", "normal", "deadlock"} /\ q' \in [Queue -> Fifo]
      BY <1>0, <1>8 DEF Queues
    <3> QED BY <1>0, <1>5, <1>7, <1>8, <3>1 DEF Inv, TypeOK
  <2>2. Accounting'
    BY <1>5, <1>8 DEF Inv, Accounting
  <2>3. NoLostProcess'
    BY <1>0, <1>8 DEF Inv, NoLostProcess
  <2>4. Preemptible' /\ ClockRuns' /\ HonestHalt' /\ IdleIsWakeable'
    <3>1. cpu' = "semop" /\ timer' # "off"
      BY <1>0, <1>7
    <3> QED BY <1>8, <3>1 DEF Preemptible, ClockRuns, HonestHalt, IdleIsWakeable
  <2>5. CallState'
    BY <1>0, <1>1, <1>8 DEF CallState
  <2>6. Descended'
    BY <1>0 DEF Inv, Descended, Closed
  <2>7. DeviceHandshake' /\ DeviceOwner'
    <3>1. \A d \in Dev : val'[d] = val[d] /\ q'[d] = q[d]
      BY <1>5, <1>7, <1>8, Disjoint
    <3>2. DeviceHandshake /\ DeviceOwner
      BY DEF Inv
    <3>3. DeviceHandshake'
      BY <1>0, <3>1, <3>2 DEF DeviceHandshake
    <3>4. DeviceOwner'
      BY <1>0, <3>1, <3>2 DEF DeviceOwner
    <3> QED BY <3>3, <3>4
  <2> QED BY <1>8, <2>1, <2>2, <2>3, <2>4, <2>5, <2>6, <2>7 DEF Inv
<1>9. CASE vec[i].op = LOCK /\ val[s] <= 0 /\ blocked' = TRUE /\ q' = InsertBlocked(q, s, Caller)
  <2>0. ASSUME \A v \in Vectors : SingleP(v), NEW t \in Semaphore
        PROVE  Caller \notin q[t].mem
    BY <1>1, <1>4, <1>9, <2>0 DEF SingleP
  <2>1. Caller \notin q[s].mem /\ (~blocked \/ ~ \A v \in Vectors : SingleP(v))
    BY <1>4, <2>0
  <2>2. q' = Enqueue(q, s, Caller)
    BY <1>0, <1>2, <1>9, <2>1, InsertBlockedQueues
  <2>3. /\ Queues(q') /\ q'[s].mem = q[s].mem \cup {Caller}
        /\ \A k \in Queue : k # s => q'[k] = q[k]
    BY <1>2, <1>3, <2>1, <2>2, EnqueueQueues DEF Inv
  <2>4. Caller' = Caller /\ q'[RQ].mem = q[RQ].mem
    BY <1>2, <2>3, Disjoint DEF Caller
  <2>5. Cardinality(q'[s].mem) = IF val'[s] < 0 THEN -val'[s] ELSE 0
    <3>1. Cardinality(q'[s].mem) = Cardinality(q[s].mem) + 1
      BY <1>6, <2>1, <2>3, FS_AddElement
    <3>2. Cardinality(q[s].mem) = -val[s]
      BY <1>5, <1>6, <1>9
    <3>3. val'[s] = val[s] - 1
      BY <1>5, <1>9 DEF LOCK
    <3> QED BY <1>5, <1>9, <3>1, <3>2, <3>3
  <2>6. ReadyOrBlocked'
    BY <1>3, <1>9, <2>1, <2>3, <2>4, Disjoint DEF Inv, ReadyOrBlocked
  <2>7. WaitsFor'
    <3>1. ASSUME NEW t \in Semaphore \ Sem PROVE Caller \notin q[t].mem
      <4>1. \A j \in DOMAIN vec : vec[j].sem \in Sem
        <5>1. \A j \in DOMAIN vec : vec[j] \in Vpop
          BY <1>1
        <5> QED BY <5>1 DEF Vpop
      <4> QED BY <1>4, <3>1, <4>1
    <3>2. s \in Awaited
      BY <1>1, <1>2, <1>9 DEF Awaited, s
    <3>3. ASSUME NEW t \in Semaphore, NEW r \in Semaphore, t # r,
                 t \notin Sem \/ \A v \in Vectors : SingleP(v)
          PROVE  q'[t].mem \cap q'[r].mem = {}
      <4>1. q[t].mem \cap q[r].mem = {}
        BY <3>3 DEF Inv, WaitsFor
      <4>2. Caller \notin q[t].mem /\ (t = s => Caller \notin q[r].mem)
        BY <1>2, <2>0, <3>1, <3>3
      <4>3. /\ t # s => q'[t] = q[t]
            /\ r # s => q'[r] = q[r]
        BY <2>3, Disjoint
      <4> QED BY <2>3, <3>3, <4>1, <4>2, <4>3
    <3>4. \A t \in Semaphore : q'[t].mem # {} => t \in Awaited
      BY <2>3, <3>2, Disjoint DEF Inv, WaitsFor
    <3> QED BY <3>3, <3>4 DEF WaitsFor
  <2>8. \A p \in Proc : (\E k \in Queue : p \in q'[k].mem) <=> (\E k \in Queue : p \in q[k].mem)
    BY <1>2, <1>3, <2>3, Disjoint
  <2>9. /\ \E t \in Semaphore : Caller \in q'[t].mem
        /\ \A t \in Semaphore : Caller \in q'[t].mem =>
             \E j \in DOMAIN vec : j < i' /\ vec[j].op = LOCK /\ vec[j].sem = t
    <3>1. \E t \in Semaphore : Caller \in q'[t].mem
      BY <1>2, <2>3
    <3>2. ASSUME NEW t \in Semaphore, Caller \in q'[t].mem
          PROVE  \E j \in DOMAIN vec : j < i' /\ vec[j].op = LOCK /\ vec[j].sem = t
      <4>1. CASE t = s
        <5>1. vec[i].sem = t
          BY <4>1 DEF s
        <5> QED BY <1>0, <1>1, <1>9, <5>1
      <4>2. CASE t # s
        <5>1. Caller \in q[t].mem
          BY <2>3, <3>2, <4>2, Disjoint
        <5>2. PICK j \in DOMAIN vec : j < i /\ vec[j].op = LOCK /\ vec[j].sem = t
          BY <1>4, <5>1
        <5>3. j < i'
          BY <1>0, <1>1, <5>2
        <5> QED BY <5>2, <5>3
      <4> QED BY <4>1, <4>2
    <3> QED BY <3>1, <3>2
  <2>10. blocked' \in BOOLEAN
    BY <1>9, Zenon
  <2> QED BY <1>3, <1>8, <2>3, <2>4, <2>5, <2>6, <2>7, <2>8, <2>9, <2>10, Disjoint
<1>10. ASSUME UNCHANGED <<blocked, q>>,
              val[s] >= 0 /\ val'[s] >= 0
       PROVE  Inv'
  <2>1. /\ Queues(q') /\ Caller' = Caller /\ ReadyOrBlocked' /\ WaitsFor'
        /\ blocked' \in BOOLEAN
    BY <1>10 DEF Inv, TypeOK, Queues, Caller, ReadyOrBlocked, WaitsFor
  <2>2. Cardinality(q'[s].mem) = IF val'[s] < 0 THEN -val'[s] ELSE 0
    <3>1. q'[s] = q[s] /\ ~(val[s] < 0) /\ ~(val'[s] < 0)
      BY <1>2, <1>5, <1>10
    <3> QED BY <1>6, <3>1
  <2>3. /\ blocked' => \E t \in Semaphore : Caller \in q'[t].mem
        /\ \A t \in Semaphore : Caller \in q'[t].mem =>
             \E j \in DOMAIN vec : j < i' /\ vec[j].op = LOCK /\ vec[j].sem = t
    BY <1>b, <1>4, <1>10
  <2> QED BY <1>3, <1>8, <1>10, <2>1, <2>2, <2>3
<1>11. CASE vec[i].op = UNLOCK /\ val[s] < 0 /\ q' = Release(q, s) /\ UNCHANGED blocked
  <2> DEFINE p == Front(q[s])
  <2>1. q[s].mem # {} /\ p \in q[s].mem /\ p \in Proc
    BY <1>2, <1>5, <1>6, <1>11, FrontOfQueue DEF Inv
  <2>2. p # Caller /\ p \notin q[RQ].mem
    BY <1>2, <1>4, <2>1 DEF Inv, ReadyOrBlocked
  <2> HIDE DEF p
  <2>3. /\ Queues(q') /\ q'[s].mem = q[s].mem \ {p}
        /\ \A t \in Semaphore : t # s => q'[t] = q[t]
        /\ Caller' = Caller
        /\ \/ /\ q'[RQ].mem = q[RQ].mem \cup {p}
              /\ \A k \in Queue : k # s => p \notin q[k].mem
           \/ /\ q'[RQ] = q[RQ]
              /\ \E t \in Semaphore : t # s /\ p \in q[t].mem
    <3>1. CASE \A k \in Queue : k # s => p \notin q[k].mem
      BY <1>2, <1>3, <1>11, <2>1, <3>1, ReleaseQueues DEF Inv, p, Caller
    <3>2. CASE \E k \in Queue : k # s /\ p \in q[k].mem
      <4>1. PICK k \in Queue : k # s /\ p \in q[k].mem
        BY <3>2
      <4>2. k \in Semaphore
        BY <2>2, <4>1, Disjoint
      <4>3. /\ Queues(q') /\ q'[s].mem = q[s].mem \ {p}
            /\ \A j \in Queue : j # s => q'[j] = q[j]
        BY <1>2, <1>11, <2>1, <4>1, ReleaseBlocked DEF Inv, p
      <4> QED BY <1>2, <4>1, <4>2, <4>3, Disjoint DEF Caller
    <3> QED BY <3>1, <3>2
  <2>4. Cardinality(q'[s].mem) = IF val'[s] < 0 THEN -val'[s] ELSE 0
    <3>1. Cardinality(q'[s].mem) = Cardinality(q[s].mem) - 1
      <4>1. IsFiniteSet(q[s].mem) /\ p \in q[s].mem /\ q'[s].mem = q[s].mem \ {p}
        BY <1>6, <2>1, <2>3 DEF p
      <4> QED BY <4>1, FS_RemoveElement
    <3>2. Cardinality(q[s].mem) = -val[s]
      BY <1>5, <1>6, <1>11
    <3>3. val'[s] = val[s] + 1
      BY <1>5, <1>11 DEF UNLOCK
    <3> QED BY <1>5, <1>11, <3>1, <3>2, <3>3
  <2>5. ReadyOrBlocked'
    BY <1>2, <1>11, <2>3, Disjoint DEF Inv, ReadyOrBlocked
  <2>6. WaitsFor'
    BY <2>3, WaitsForFewer DEF Inv
  <2>7. \A r \in Proc : (\E k \in Queue : r \in q'[k].mem) <=> (\E k \in Queue : r \in q[k].mem)
    BY <1>2, <2>1, <2>3, Disjoint
  <2>8. \A t \in Semaphore : Caller \in q'[t].mem <=> Caller \in q[t].mem
    BY <2>2, <2>3
  <2>9. /\ blocked' => \E t \in Semaphore : Caller \in q'[t].mem
        /\ \A t \in Semaphore : Caller \in q'[t].mem =>
             \E j \in DOMAIN vec : j < i' /\ vec[j].op = LOCK /\ vec[j].sem = t
    BY <1>b, <1>4, <1>11, <2>8
  <2>10. blocked' \in BOOLEAN
    BY <1>11 DEF Inv, TypeOK
  <2>11. q'[RQ].mem # {}
    BY <1>3, <2>3
  <2> QED BY <1>8, <2>3, <2>4, <2>5, <2>6, <2>7, <2>9, <2>10, <2>11
<1>12. CASE vec[i].op = LOCK /\ val[s] > 0 /\ UNCHANGED <<blocked, q>>
  BY <1>5, <1>10, <1>12 DEF LOCK
<1>13. CASE vec[i].op = UNLOCK /\ ~(val[s] < 0) /\ UNCHANGED <<blocked, q>>
  BY <1>5, <1>10, <1>13 DEF UNLOCK
<1> QED BY <1>9, <1>11, <1>12, <1>13 DEF SemopStep, s

(* The end of a SYS3: a caller that is blocked leaves the ready queue.     *)
LEMMA SemopReturnInv == Inv /\ SemopReturn => Inv'
PROOF
<1> SUFFICES ASSUME Inv, SemopReturn PROVE Inv'
  OBVIOUS
<1>0. /\ cpu = "semop" /\ UNCHANGED <<live, parent, val, ticks, busy, io>>
      /\ vec' = <<>> /\ i' = 1 /\ ~blocked'
  BY DEF SemopReturn, procVars, devVars
<1>b. blocked' \in BOOLEAN
  BY Zenon DEF SemopReturn
<1>1. /\ q[RQ].mem # {} /\ Caller \in q[RQ].mem /\ Caller \in Proc /\ Caller \in live
  BY <1>0, CallerFacts
<1>2. CASE blocked /\ q' = Dequeue(q, RQ, Caller) /\ Schedule(q')
  <2>1. /\ Queues(q') /\ q'[RQ].mem = q[RQ].mem \ {Caller}
        /\ \A s \in Semaphore : q'[s] = q[s]
    BY <1>2, Disjoint, DequeueQueues DEF Inv
  <2>2. \E s \in Semaphore : Caller \in q[s].mem
    BY <1>0, <1>2 DEF Inv, CallState
  <2>3. Accounting' /\ WaitsFor' /\ ReadyOrBlocked'
    BY <1>0, <2>1, Disjoint DEF Inv, Accounting, WaitsFor, ReadyOrBlocked
  <2>4. NoLostProcess'
    BY <1>0, <2>1, <2>2, Disjoint DEF Inv, NoLostProcess
  <2>5. DeviceHandshake' /\ DeviceOwner'
    BY <1>0, <2>1, Disjoint DEF Inv, DeviceHandshake, DeviceOwner
  <2>6. /\ HonestHalt' /\ IdleIsWakeable' /\ Preemptible' /\ ClockRuns'
        /\ cpu' \in {"run", "idle", "normal", "deadlock"}
        /\ timer' \in {"off", "armed", "pending"}
    <3>1. timer \in {"off", "armed", "pending"} /\ live' \subseteq Proc
      BY <1>0 DEF Inv, TypeOK
    <3> QED BY <1>2, <2>1, <2>4, <2>5, <3>1, ScheduleStep DEF Schedule
  <2>7. CallState'
    BY <1>0, <2>6 DEF CallState
  <2>8. TypeOK'
    <3>1. vec' \in Seq(Vpop) /\ i' \in Nat \ {0}
      BY <1>0
    <3> QED BY <1>0, <1>b, <2>1, <2>6, <3>1 DEF Inv, TypeOK, Queues
  <2>9. Descended'
    BY <1>0 DEF Inv, Descended, Closed
  <2> QED BY <2>1, <2>3, <2>4, <2>5, <2>6, <2>7, <2>8, <2>9 DEF Inv
<1>3. CASE ~blocked /\ cpu' = "run" /\ UNCHANGED <<q, timer>>
  <2>1. Queues(q') /\ Accounting' /\ NoLostProcess' /\ WaitsFor' /\ Descended' /\ Caller' = Caller
    BY <1>0, <1>3, QuietStep
  <2>2. TypeOK'
    <3>1. vec' \in Seq(Vpop) /\ i' \in Nat \ {0}
      BY <1>0
    <3> QED BY <1>0, <1>b, <1>3, <3>1 DEF Inv, TypeOK
  <2>3. ReadyOrBlocked' /\ Preemptible' /\ ClockRuns' /\ CallState'
    BY <1>0, <1>3, <2>1 DEF Inv, ReadyOrBlocked, Preemptible, ClockRuns, CallState
  <2>4. HonestHalt' /\ IdleIsWakeable' /\ DeviceHandshake' /\ DeviceOwner'
    BY <1>0, <1>3 DEF Inv, HonestHalt, IdleIsWakeable, DeviceHandshake, DeviceOwner
  <2> QED BY <2>1, <2>2, <2>3, <2>4 DEF Inv
<1> QED BY <1>2, <1>3 DEF SemopReturn

(* SYS7 and SYS8, the part that is the same: the caller goes to the back of *)
(* the queue of s, and the next process is dispatched.                      *)
LEMMA LockStep ==
  ASSUME Inv, cpu = "run", NEW s \in Dev \cup {PClock}, IntsemopLock(s),
         UNCHANGED <<live, parent, vec, i, blocked, ticks, busy>>,
         io' \in [Proc -> Dev \cup {None}],
         val[s] <= 0 /\ s \in Dev => val[s] = 0 /\ s \in busy /\ io[Caller] = s,
         val[s] <= 0 => io' = io,
         val[s] > 0 => /\ DeviceOwner'
                       /\ s \in Dev => \A p \in Proc : io'[p] # s
                       /\ \A d \in Dev : \A p \in Proc : io'[p] = d => io[p] = d
  PROVE  Inv'
PROOF
<1>1. /\ q[RQ].mem # {} /\ Caller \in q[RQ].mem /\ Caller \in Proc /\ Caller \in live
      /\ timer # "off" /\ cpu \in {"run", "semop"} /\ ~blocked
      /\ \A t \in Semaphore : Caller \notin q[t].mem
  BY CallerFacts DEF Inv, CallState
<1>2. s \in Semaphore /\ s \in Queue /\ s # RQ /\ s \notin Sem
  BY Disjoint
<1>3. /\ val[s] \in Int /\ val' \in [Semaphore -> Int] /\ val'[s] = val[s] - 1
      /\ \A t \in Semaphore : t # s => val'[t] = val[t]
  BY <1>2 DEF Inv, TypeOK, IntsemopLock
<1>4. /\ IsFiniteSet(q[s].mem) /\ Cardinality(q[s].mem) = (IF val[s] < 0 THEN -val[s] ELSE 0)
      /\ Cardinality(q[s].mem) = 0 <=> q[s].mem = {}
  BY <1>2, QueueCardinality DEF Inv, Accounting
<1>5. Descended' /\ blocked' \in BOOLEAN
  BY DEF Inv, Descended, Closed, TypeOK
<1>6. CASE val[s] <= 0
  <2> DEFINE D == Dequeue(q, RQ, Caller)
  <2>1. q' = InsertBlocked(D, s, Caller) /\ Schedule(q') /\ io' = io
    BY <1>6 DEF IntsemopLock
  <2>2. /\ Queues(D) /\ D[RQ].mem = q[RQ].mem \ {Caller}
        /\ \A k \in Queue : k # RQ => D[k] = q[k]
    BY Disjoint, DequeueQueues DEF Inv
  <2> HIDE DEF D
  <2>3. q' = Enqueue(D, s, Caller)
    BY <1>1, <1>2, <2>1, <2>2, Disjoint, InsertBlockedQueues
  <2>4. /\ Queues(q') /\ q'[s].mem = q[s].mem \cup {Caller}
        /\ q'[RQ].mem = q[RQ].mem \ {Caller}
        /\ \A t \in Semaphore : t # s => q'[t] = q[t]
    BY <1>1, <1>2, <2>2, <2>3, Disjoint, EnqueueQueues
  <2>5. Accounting'
    <3>1. Cardinality(q'[s].mem) = Cardinality(q[s].mem) + 1
      <4>1. /\ IsFiniteSet(q[s].mem) /\ Caller \notin q[s].mem
            /\ q'[s].mem = q[s].mem \cup {Caller}
        BY <1>1, <1>2, <1>4, <2>4
      <4> QED BY <4>1, FS_AddElement
    <3>2. Cardinality(q[s].mem) = -val[s]
      BY <1>3, <1>4, <1>6
    <3>3. Cardinality(q'[s].mem) = IF val'[s] < 0 THEN -val'[s] ELSE 0
      BY <1>3, <1>6, <3>1, <3>2
    <3> QED BY <1>3, <2>4, <3>3 DEF Inv, Accounting
  <2>6. NoLostProcess'
    BY <1>1, <1>2, <2>4, Disjoint DEF Inv, NoLostProcess
  <2>7. ReadyOrBlocked' /\ WaitsFor'
    <3>1. s \in Awaited
      BY DEF Awaited
    <3>2. ReadyOrBlocked'
      BY <1>1, <1>2, <2>4, Disjoint DEF Inv, ReadyOrBlocked
    <3> QED BY <1>1, <1>2, <2>4, <3>1, <3>2, Disjoint DEF Inv, WaitsFor
  <2>8. DeviceHandshake'
    BY <1>1, <1>2, <1>3, <1>6, <2>1, <2>4, Disjoint DEF Inv, DeviceHandshake
  <2>9. DeviceOwner'
    BY <1>1, <1>2, <1>6, <2>1, <2>4, Disjoint DEF Inv, DeviceOwner
  <2>10. /\ HonestHalt' /\ IdleIsWakeable' /\ Preemptible' /\ ClockRuns'
         /\ cpu' \in {"run", "idle", "normal", "deadlock"}
         /\ timer' \in {"off", "armed", "pending"}
    <3>1. timer \in {"off", "armed", "pending"} /\ live' \subseteq Proc
      BY DEF Inv, TypeOK
    <3> QED BY <2>1, <2>4, <2>6, <2>8, <2>9, <3>1, ScheduleStep DEF Schedule
  <2>11. CallState'
    BY <1>1, <2>10 DEF CallState
  <2>12. TypeOK'
    BY <1>3, <1>5, <2>4, <2>10 DEF Inv, TypeOK, Queues
  <2> QED
    BY <1>5, <2>4, <2>5, <2>6, <2>7, <2>8, <2>9, <2>10, <2>11, <2>12 DEF Inv
<1>7. CASE ~(val[s] <= 0)
  <2>0. val[s] > 0
    BY <1>3, <1>7
  <2>1. UNCHANGED <<q, cpu, timer>>
    BY <1>7 DEF IntsemopLock
  <2>2. /\ Queues(q') /\ NoLostProcess' /\ WaitsFor' /\ ReadyOrBlocked' /\ Preemptible'
        /\ ClockRuns' /\ Caller' = Caller
    BY <2>1 DEF Inv, Queues, NoLostProcess, WaitsFor, ReadyOrBlocked, Preemptible,
                ClockRuns, Caller
  <2>3. CallState' /\ HonestHalt' /\ IdleIsWakeable'
    BY <2>1, <2>2 DEF Inv, CallState, HonestHalt, IdleIsWakeable
  <2>4. Accounting'
    <3>1. q'[s] = q[s] /\ ~(val[s] < 0) /\ ~(val'[s] < 0)
      BY <1>3, <2>0, <2>1
    <3>2. Cardinality(q'[s].mem) = IF val'[s] < 0 THEN -val'[s] ELSE 0
      BY <1>4, <3>1
    <3> QED BY <1>3, <2>1, <3>2 DEF Inv, Accounting
  <2>5. DeviceHandshake'
    <3>1. q[s].mem = {} /\ q' = q /\ busy' = busy /\ val'[s] >= -1
      BY <1>3, <1>4, <2>0, <2>1
    <3> SUFFICES ASSUME NEW d \in Dev
                 PROVE  /\ val'[d] >= -1
                        /\ \A p \in Proc : io'[p] = d =>
                             IF p \in q[d].mem THEN d \in busy ELSE d \in busy \/ val'[d] >= 1
      BY <3>1 DEF DeviceHandshake
    <3>2. CASE d = s
      BY <2>0, <3>1, <3>2
    <3>3. CASE d # s
      <4>1. val'[d] = val[d]
        BY <1>3, <3>3, Disjoint
      <4> QED BY <2>0, <4>1 DEF Inv, DeviceHandshake
    <3> QED BY <3>2, <3>3
  <2>6. TypeOK'
    BY <1>3, <1>5, <2>1 DEF Inv, TypeOK
  <2> QED BY <1>5, <2>0, <2>2, <2>3, <2>4, <2>5, <2>6 DEF Inv
<1> QED BY <1>6, <1>7

(* SYS7. *)
LEMMA WaitForPClockInv == Inv /\ WaitForPClock => Inv'
PROOF
<1> SUFFICES ASSUME Inv, WaitForPClock PROVE Inv'
  OBVIOUS
<1>1. /\ cpu = "run" /\ IntsemopLock(PClock)
      /\ UNCHANGED <<live, parent, vec, i, blocked, ticks, busy, io>>
  BY DEF WaitForPClock, procVars, callVars, devVars
<1>2. io' \in [Proc -> Dev \cup {None}] /\ PClock \notin Dev
  BY <1>1, Disjoint DEF Inv, TypeOK
<1>3. ASSUME val[PClock] > 0 PROVE DeviceOwner'
  <2>1. val[PClock] \in Int
    BY Disjoint DEF Inv, TypeOK
  <2>2. q' = q
    BY <1>1, <1>3, <2>1 DEF IntsemopLock
  <2> QED BY <1>1, <2>2 DEF Inv, DeviceOwner
<1> QED BY <1>1, <1>2, <1>3, LockStep

(* SYS8. *)
LEMMA WaitForIOInv == ASSUME NEW d \in Dev PROVE Inv /\ WaitForIO(d) => Inv'
PROOF
<1> SUFFICES ASSUME Inv, WaitForIO(d) PROVE Inv'
  OBVIOUS
<1>1. /\ cpu = "run" /\ IntsemopLock(d) /\ io[Caller] = d
      /\ UNCHANGED <<live, parent, vec, i, blocked, ticks, busy>>
      /\ io' = IF val[d] > 0 THEN [io EXCEPT ![Caller] = None] ELSE io
  BY DEF WaitForIO, procVars, callVars
<1>2. /\ Caller \in Proc /\ cpu \in {"run", "semop"} /\ d \in Semaphore /\ d \in Queue
      /\ \A t \in Semaphore : Caller \notin q[t].mem
  BY <1>1, Disjoint, CallerFacts DEF Inv, CallState
<1>3. io' \in [Proc -> Dev \cup {None}]
  BY <1>1, <1>2 DEF Inv, TypeOK
<1>4. val[d] \in Int
  BY <1>2 DEF Inv, TypeOK
<1>5. ASSUME val[d] <= 0 PROVE val[d] = 0 /\ d \in busy /\ io' = io
  <2>1. q[d].mem = {}
    <3>1. \A p \in q[d].mem : p \in Proc /\ io[p] = d
      BY <1>2, QueueCardinality DEF Inv, DeviceOwner
    <3> QED BY <1>1, <1>2, <3>1, ProcAssumption DEF Inv, DeviceOwner
  <2>2. Cardinality(q[d].mem) = 0
    BY <1>2, <2>1, QueueCardinality DEF Inv
  <2>3. Cardinality(q[d].mem) = IF val[d] < 0 THEN -val[d] ELSE 0
    BY <1>2 DEF Inv, Accounting
  <2>4. val[d] = 0
    BY <1>4, <1>5, <2>2, <2>3
  <2>5. d \in busy
    BY <1>1, <1>2, <2>4 DEF Inv, DeviceHandshake
  <2> QED BY <1>1, <2>4, <2>5
<1>6. ASSUME val[d] > 0
      PROVE  /\ DeviceOwner' /\ \A p \in Proc : io'[p] # d
             /\ \A e \in Dev : \A p \in Proc : io'[p] = e => io[p] = e
  <2>1. q' = q
    BY <1>1, <1>4, <1>6 DEF IntsemopLock
  <2>2. \A p \in Proc : io'[p] = IF p = Caller THEN None ELSE io[p]
    BY <1>1, <1>2, <1>6 DEF Inv, TypeOK
  <2>3. /\ \A p \in Proc : io'[p] # d
        /\ \A e \in Dev : \A p \in Proc : io'[p] = e => io[p] = e
    BY <1>1, <1>2, <2>2, ProcAssumption, Disjoint DEF Inv, DeviceOwner
  <2>4. \A e \in Dev : \A p \in q[e].mem : p \in Proc /\ p # Caller
    BY <1>2, Disjoint, QueueCardinality DEF Inv
  <2>5. DeviceOwner'
    BY <1>1, <2>1, <2>2, <2>4 DEF Inv, DeviceOwner
  <2> QED BY <2>3, <2>5
<1> QED BY <1>1, <1>3, <1>4, <1>5, <1>6, LockStep

(* Between calls, who waits for a device or the pseudo-clock is on no other  *)
(* queue.                                                                   *)
LEMMA OnlyWaits ==
  ASSUME Inv, ~blocked, NEW s \in Semaphore \ Sem, NEW p \in q[s].mem
  PROVE  \A k \in Queue : k # s => p \notin q[k].mem
PROOF BY Disjoint DEF Inv, WaitsFor, ReadyOrBlocked

(* The round robin, on the queues. *)
LEMMA RotateQueues ==
  ASSUME NEW Q, Queues(Q)
  PROVE  /\ Queues(Rotate(Q)) /\ Rotate(Q)[RQ].mem = Q[RQ].mem
         /\ \A s \in Semaphore : Rotate(Q)[s] = Q[s]
PROOF
<1> DEFINE p == Front(Q[RQ])
           D == Dequeue(Q, RQ, p)
           R == Enqueue(D, RQ, p)
<1>0. CASE Q[RQ].mem = {}
  BY <1>0 DEF Rotate
<1>1. CASE Q[RQ].mem # {}
  <2>1. p \in Q[RQ].mem /\ p \in Proc /\ Rotate(Q) = R
    BY <1>1, Disjoint, FrontOfQueue DEF Rotate
  <2> HIDE DEF p
  <2>2. /\ Queues(D) /\ D[RQ].mem = Q[RQ].mem \ {p}
        /\ \A s \in Semaphore : D[s] = Q[s]
    BY Disjoint, DequeueQueues
  <2> HIDE DEF D
  <2>3. /\ Queues(R) /\ R[RQ].mem = D[RQ].mem \cup {p}
        /\ \A s \in Semaphore : R[s] = D[s]
    BY <2>1, <2>2, Disjoint, EnqueueQueues
  <2> QED BY <2>1, <2>2, <2>3
<1> QED BY <1>0, <1>1

(* The interval timer. *)
LEMMA ClockInterruptInv == Inv /\ ClockInterrupt => Inv'
PROOF
<1> SUFFICES ASSUME Inv, ClockInterrupt PROVE Inv'
  OBVIOUS
<1> DEFINE R == Rotate(q)
           woken == ticks + 1 >= Ticks /\ R[PClock].mem # {}
<1>0. /\ cpu \in {"run", "idle"} /\ ~blocked
      /\ UNCHANGED <<live, parent, vec, i, blocked, busy, io>>
      /\ ticks' = (IF ticks + 1 >= Ticks THEN 0 ELSE ticks + 1)
      /\ q' = (IF woken /\ val[PClock] < 0 THEN Release(R, PClock) ELSE R)
      /\ val' = (IF woken THEN [val EXCEPT ![PClock] = @ + 1] ELSE val)
      /\ cpu' = Dispatch(q') /\ timer' = Rearm(q', "off")
  BY DEF ClockInterrupt, PseudoClock, procVars, callVars, devVars, Inv, CallState
<1>1. /\ Queues(R) /\ R[RQ].mem = q[RQ].mem /\ \A s \in Semaphore : R[s] = q[s]
  BY RotateQueues DEF Inv
<1> HIDE DEF R
<1>2. /\ val \in [Semaphore -> Int] /\ live \subseteq Proc /\ ticks' \in 0 .. Ticks - 1
      /\ Descended' /\ blocked' \in BOOLEAN
  <2>1. ticks \in 0 .. Ticks - 1 /\ Ticks \in Nat \ {0}
    BY BoundAssumption DEF Inv, TypeOK
  <2>2. ticks' \in 0 .. Ticks - 1
    BY <1>0, <2>1
  <2>3. val \in [Semaphore -> Int] /\ live \subseteq Proc /\ blocked' \in BOOLEAN
    BY <1>0 DEF Inv, TypeOK
  <2>4. Descended'
    BY <1>0 DEF Inv, Descended, Closed
  <2> QED BY <2>2, <2>3, <2>4
<1>3. PICK p : /\ Queues(q') /\ \A s \in Semaphore : s # PClock => q'[s] = q[s]
               /\ val' \in [Semaphore -> Int]
               /\ \A s \in Semaphore : s # PClock => val'[s] = val[s]
               /\ \/ /\ p \in q[PClock].mem /\ q'[PClock].mem = q[PClock].mem \ {p}
                     /\ q'[RQ].mem = q[RQ].mem \cup {p}
                     /\ val'[PClock] = val[PClock] + 1 /\ val[PClock] < 0
                  \/ q'[PClock] = q[PClock] /\ q'[RQ].mem = q[RQ].mem /\ val' = val
  <2>1. CASE woken
    <3>1. q[PClock].mem # {}
      BY <1>1, <2>1, Disjoint
    <3>2. val[PClock] < 0
      BY <3>1, Disjoint, QueueCardinality DEF Inv, Accounting
    <3>3. q' = Release(R, PClock) /\ val' = [val EXCEPT ![PClock] = @ + 1]
      BY <1>0, <2>1, <3>2
    <3> DEFINE p == Front(q[PClock])
    <3>4. p \in q[PClock].mem
      BY <3>1, Disjoint, FrontOfQueue DEF Inv
    <3>5. \A k \in Queue : k # PClock => p \notin R[k].mem
      BY <1>0, <1>1, <3>4, OnlyWaits, Disjoint
    <3>6. p = Front(R[PClock]) /\ R[PClock].mem # {}
      BY <1>1, <3>1, Disjoint
    <3> HIDE DEF p
    <3>7. /\ Queues(q') /\ q'[PClock].mem = R[PClock].mem \ {p}
          /\ q'[RQ].mem = R[RQ].mem \cup {p}
          /\ \A s \in Semaphore : s # PClock => q'[s] = R[s]
      BY <1>1, <3>3, <3>5, <3>6, Disjoint, ReleaseQueues
    <3> QED BY <1>1, <1>2, <3>2, <3>3, <3>4, <3>7, Disjoint
  <2>2. CASE ~woken
    <3>1. q' = R /\ val' = val
      BY <1>0, <2>2
    <3> QED BY <1>1, <1>2, <3>1, Disjoint
  <2> QED BY <2>1, <2>2
<1>4. Accounting'
  <2> SUFFICES ASSUME NEW s \in Semaphore
               PROVE  Cardinality(q'[s].mem) = IF val'[s] < 0 THEN -val'[s] ELSE 0
    BY DEF Accounting
  <2>1. /\ Cardinality(q[s].mem) = (IF val[s] < 0 THEN -val[s] ELSE 0) /\ val[s] \in Int
        /\ IsFiniteSet(q[s].mem)
    BY <1>2, QueueCardinality, Disjoint DEF Inv, Accounting
  <2>2. CASE s = PClock /\ p \in q[PClock].mem /\ q'[PClock].mem = q[PClock].mem \ {p}
             /\ val'[PClock] = val[PClock] + 1 /\ val[PClock] < 0
    <3>1. Cardinality(q'[s].mem) = Cardinality(q[s].mem) - 1
      <4>1. IsFiniteSet(q[s].mem) /\ p \in q[s].mem /\ q'[s].mem = q[s].mem \ {p}
        BY <2>1, <2>2
      <4> QED BY <4>1, FS_RemoveElement
    <3> QED BY <2>1, <2>2, <3>1
  <2>3. CASE q'[s] = q[s] /\ val'[s] = val[s]
    BY <2>1, <2>3
  <2> QED BY <1>3, <2>2, <2>3
<1>5. NoLostProcess'
  BY <1>0, <1>3, Disjoint DEF Inv, NoLostProcess
<1>6. ReadyOrBlocked' /\ WaitsFor'
  <2>1. \A s \in Semaphore : q[RQ].mem \cap q[s].mem = {}
    BY <1>0 DEF Inv, ReadyOrBlocked
  <2>2. \A s \in Semaphore : s # PClock => q[PClock].mem \cap q[s].mem = {}
    BY Disjoint DEF Inv, WaitsFor
  <2>3. \A s \in Semaphore : q'[RQ].mem \cap q'[s].mem = {}
    BY <1>3, <2>1, <2>2, Disjoint
  <2>4. \A s \in Semaphore : q'[s].mem \subseteq q[s].mem
    BY <1>3
  <2>5. WaitsFor'
    BY <2>4, WaitsForFewer DEF Inv
  <2> QED BY <2>3, <2>5 DEF ReadyOrBlocked
<1>7. DeviceHandshake' /\ DeviceOwner'
  BY <1>0, <1>3, Disjoint DEF Inv, DeviceHandshake, DeviceOwner
<1>8. /\ HonestHalt' /\ IdleIsWakeable' /\ Preemptible' /\ ClockRuns'
      /\ cpu' \in {"run", "idle", "normal", "deadlock"}
      /\ timer' \in {"off", "armed", "pending"}
  BY <1>0, <1>2, <1>3, <1>5, <1>7, ScheduleStep
<1>9. CallState'
  BY <1>0, <1>8 DEF CallState
<1>10. TypeOK'
  BY <1>0, <1>2, <1>3, <1>8 DEF Inv, TypeOK, Queues
<1> QED BY <1>2, <1>3, <1>4, <1>5, <1>6, <1>7, <1>8, <1>9, <1>10 DEF Inv

(* inthandler, on the queues: the one process that waits for the device, if *)
(* any, leaves for the ready queue, behind a process that runs.             *)
LEMMA DeviceQueues ==
  ASSUME NEW d \in Dev, Inv, DeviceInterrupt(d)
  PROVE  \E p :
       /\ Queues(q') /\ \A s \in Semaphore : s # d => q'[s] = q[s]
       /\ q'[d].mem = {} /\ val'[d] >= 0
       /\ \/ /\ val[d] = -1 /\ p \in Proc /\ q[d].mem = {p}
             /\ q'[RQ].mem = q[RQ].mem \cup {p}
             /\ q[RQ].mem # {} => Caller' = Caller
          \/ /\ val[d] # -1 /\ val'[d] >= 1 /\ q[d].mem = {}
             /\ q' = q /\ Caller' = Caller
PROOF
<1>0. /\ ~blocked /\ val' = [val EXCEPT ![d] = @ + 1]
      /\ q' = (IF val[d] = -1 THEN Release(q, d) ELSE q)
  BY DEF DeviceInterrupt, Inv, CallState
<1>1. /\ d \in Semaphore /\ d \in Queue /\ d # RQ
      /\ val[d] \in Int /\ val[d] >= -1 /\ IsFiniteSet(q[d].mem)
      /\ val' \in [Semaphore -> Int] /\ val'[d] = val[d] + 1
      /\ \A s \in Semaphore : s # d => val'[s] = val[s]
      /\ q[d].mem \subseteq Proc
  BY <1>0, Disjoint, QueueCardinality DEF Inv, TypeOK, DeviceHandshake
<1>2. Cardinality(q[d].mem) = (IF val[d] < 0 THEN -val[d] ELSE 0)
  BY <1>1 DEF Inv, Accounting
<1>3. CASE val[d] = -1
  <2>1. PICK p : q[d].mem = {p}
    <3>1. Cardinality(q[d].mem) = 1
      <4> DEFINE n == Cardinality(q[d].mem)
      <4>1. val[d] + 1 = 0
        BY <1>3
      <4>2. val[d] < 0 /\ -val[d] = 1
        BY <1>1, <4>1
      <4>3. n = 1
        BY <1>2, <4>2
      <4> QED BY <4>3
    <3> QED BY <1>1, <3>1, FS_Singleton
  <2>2. Front(q[d]) = p /\ p \in Proc
    BY <1>1, <2>1, FrontOfQueue DEF Inv
  <2>3. \A k \in Queue : k # d => p \notin q[k].mem
    BY <1>0, <1>1, <2>1, OnlyWaits, Disjoint
  <2>4. /\ Queues(q') /\ q'[d].mem = q[d].mem \ {p} /\ q'[RQ].mem = q[RQ].mem \cup {p}
        /\ \A s \in Semaphore : s # d => q'[s] = q[s]
        /\ q[RQ].mem # {} => Front(q'[RQ]) = Front(q[RQ])
    <3>1. q' = Release(q, d) /\ Queues(q) /\ q[d].mem # {}
      BY <1>0, <1>3, <2>1 DEF Inv
    <3>2. \A k \in Queue : k # d => Front(q[d]) \notin q[k].mem
      BY <2>2, <2>3
    <3>3. /\ Queues(Release(q, d))
          /\ Release(q, d)[d].mem = q[d].mem \ {Front(q[d])}
          /\ Release(q, d)[RQ].mem = q[RQ].mem \cup {Front(q[d])}
          /\ \A s \in Semaphore : s # d => Release(q, d)[s] = q[s]
          /\ q[RQ].mem # {} => Front(Release(q, d)[RQ]) = Front(q[RQ])
      BY <1>1, <3>1, <3>2, ReleaseQueues
    <3> QED BY <2>2, <3>1, <3>3
  <2> QED BY <1>1, <1>3, <2>1, <2>2, <2>4 DEF Caller
<1>4. CASE val[d] # -1
  <2>1. val[d] >= 0 /\ val'[d] >= 1
    BY <1>1, <1>4
  <2>2. Cardinality(q[d].mem) = 0
    BY <1>1, <1>2, <2>1
  <2>3. q[d].mem = {}
    BY <1>1, <2>2, FS_EmptySet
  <2> QED BY <1>0, <1>1, <1>4, <2>1, <2>3 DEF Inv, Caller
<1> QED BY <1>3, <1>4

(* A device interrupt. *)
LEMMA DeviceInterruptInv == ASSUME NEW d \in Dev PROVE Inv /\ DeviceInterrupt(d) => Inv'
PROOF
<1> SUFFICES ASSUME Inv, DeviceInterrupt(d) PROVE Inv'
  OBVIOUS
<1>0. /\ cpu \in {"run", "idle"} /\ ~blocked /\ d \in busy
      /\ UNCHANGED <<live, parent, vec, i, blocked, ticks>>
      /\ busy' = busy \ {d} /\ val' = [val EXCEPT ![d] = @ + 1]
      /\ q' = (IF val[d] = -1 THEN Release(q, d) ELSE q)
      /\ io' = [p \in Proc |-> IF val[d] = -1 /\ p \in q[d].mem THEN None ELSE io[p]]
      /\ IF q[RQ].mem # {} THEN UNCHANGED <<cpu, timer>> ELSE Schedule(q')
  BY DEF DeviceInterrupt, procVars, callVars, Inv, CallState
<1>1. /\ d \in Semaphore /\ d \in Queue /\ d # RQ /\ d # PClock /\ d \notin Sem
      /\ val[d] \in Int /\ val[d] >= -1 /\ IsFiniteSet(q[d].mem)
      /\ val' \in [Semaphore -> Int] /\ val'[d] = val[d] + 1
      /\ \A s \in Semaphore : s # d => val'[s] = val[s]
      /\ q[d].mem \subseteq Proc
  BY <1>0, Disjoint, QueueCardinality DEF Inv, TypeOK, DeviceHandshake
<1>2. Cardinality(q[d].mem) = (IF val[d] < 0 THEN -val[d] ELSE 0)
  BY <1>1 DEF Inv, Accounting
<1>3. Descended' /\ blocked' \in BOOLEAN /\ live' \subseteq Proc
  BY <1>0 DEF Inv, TypeOK, Descended, Closed
<1>4. PICK p : /\ Queues(q') /\ \A s \in Semaphore : s # d => q'[s] = q[s]
               /\ q'[d].mem = {} /\ val'[d] >= 0
               /\ \/ /\ val[d] = -1 /\ p \in Proc /\ q[d].mem = {p}
                     /\ q'[RQ].mem = q[RQ].mem \cup {p}
                     /\ q[RQ].mem # {} => Caller' = Caller
                  \/ /\ val[d] # -1 /\ val'[d] >= 1 /\ q[d].mem = {}
                     /\ q' = q /\ Caller' = Caller
  BY DeviceQueues
<1>5. Accounting'
  <2>1. Cardinality(q'[d].mem) = IF val'[d] < 0 THEN -val'[d] ELSE 0
    <3>1. Cardinality(q'[d].mem) = 0
      BY <1>4, FS_EmptySet
    <3>2. ~(val'[d] < 0)
      BY <1>1, <1>4
    <3> QED BY <3>1, <3>2
  <2> QED BY <1>1, <1>4, <2>1 DEF Inv, Accounting
<1>6. NoLostProcess'
  BY <1>0, <1>1, <1>4, Disjoint DEF Inv, NoLostProcess
<1>7. ReadyOrBlocked' /\ WaitsFor'
  <2>1. \A s \in Semaphore : q[RQ].mem \cap q[s].mem = {}
    BY <1>0 DEF Inv, ReadyOrBlocked
  <2>2. \A s \in Semaphore : s # d => q[d].mem \cap q[s].mem = {}
    BY Disjoint DEF Inv, WaitsFor
  <2>3. \A s \in Semaphore : q'[RQ].mem \cap q'[s].mem = {}
    BY <1>1, <1>4, <2>1, <2>2
  <2>4. \A s \in Semaphore : q'[s].mem \subseteq q[s].mem
    BY <1>4
  <2>5. WaitsFor'
    BY <2>4, WaitsForFewer DEF Inv
  <2> QED BY <2>3, <2>5 DEF ReadyOrBlocked
<1>8. \A r \in Proc : io'[r] = IF r \in q[d].mem /\ val[d] = -1 THEN None ELSE io[r]
  BY <1>0
<1>9. \A r \in q[d].mem : io[r] = d
  BY DEF Inv, DeviceOwner
<1>10. DeviceHandshake'
  <2> SUFFICES ASSUME NEW e \in Dev
               PROVE  /\ val'[e] >= -1
                      /\ \A r \in Proc : io'[r] = e =>
                           IF r \in q'[e].mem THEN e \in busy' ELSE e \in busy' \/ val'[e] >= 1
    BY DEF DeviceHandshake
  <2>1. CASE e = d
    <3>1. ASSUME NEW r \in Proc, io'[r] = d PROVE val'[d] >= 1
      <4>1. io[r] = d /\ d # None
        BY <1>1, <1>8, <3>1, ProcAssumption
      <4>2. \A s \in q[d].mem : s = r
        BY <1>1, <1>9, <4>1 DEF Inv, DeviceOwner
      <4>3. val[d] # -1
        BY <1>4, <1>8, <3>1, <4>1, <4>2
      <4> QED BY <1>4, <4>3
    <3>2. val'[d] >= -1
      BY <1>1, <1>4
    <3> QED BY <1>4, <2>1, <3>1, <3>2
  <2>2. CASE e # d
    <3>1. val'[e] = val[e] /\ q'[e] = q[e] /\ (e \in busy' <=> e \in busy)
      BY <1>0, <1>1, <1>4, <2>2, Disjoint
    <3>2. \A r \in Proc : io'[r] = e => io[r] = e
      BY <1>1, <1>8, ProcAssumption, Disjoint
    <3> QED BY <3>1, <3>2 DEF Inv, DeviceHandshake
  <2> QED BY <2>1, <2>2
<1>11. DeviceOwner'
  <2>1. ASSUME NEW e \in Dev, NEW r \in q'[e].mem PROVE io'[r] = e
    <3>1. e # d /\ r \in q[e].mem
      BY <1>4, <2>1, Disjoint
    <3>2. r \in Proc /\ r \notin q[d].mem
      BY <1>1, <3>1, Disjoint, QueueCardinality DEF Inv, WaitsFor
    <3> QED BY <1>8, <3>1, <3>2 DEF Inv, DeviceOwner
  <2> QED BY <1>0, <1>8, <2>1 DEF Inv, DeviceOwner
<1>12. CASE q[RQ].mem # {}
  <2>1. /\ cpu = "run" /\ cpu' = "run" /\ timer' = timer /\ Caller' = Caller
        /\ q'[RQ].mem # {}
    BY <1>0, <1>4, <1>12 DEF Inv, IdleIsWakeable
  <2>2. HonestHalt' /\ IdleIsWakeable' /\ Preemptible' /\ ClockRuns' /\ CallState'
    BY <1>0, <1>1, <1>4, <2>1, Disjoint
    DEF Inv, HonestHalt, IdleIsWakeable, Preemptible, ClockRuns, CallState
  <2>3. TypeOK'
    BY <1>0, <1>1, <1>3, <1>4, <2>1 DEF Inv, TypeOK, Queues
  <2> QED
    BY <1>3, <1>4, <1>5, <1>6, <1>7, <1>10, <1>11, <2>2, <2>3 DEF Inv
<1>13. CASE q[RQ].mem = {}
  <2>1. Schedule(q') /\ timer \in {"off", "armed", "pending"}
    BY <1>0, <1>13 DEF Inv, TypeOK
  <2>2. /\ HonestHalt' /\ IdleIsWakeable' /\ Preemptible' /\ ClockRuns'
        /\ cpu' \in {"run", "idle", "normal", "deadlock"}
        /\ timer' \in {"off", "armed", "pending"}
    BY <1>3, <1>4, <1>6, <1>10, <1>11, <2>1, ScheduleStep DEF Schedule
  <2>3. CallState'
    BY <1>0, <2>2 DEF CallState
  <2>4. TypeOK'
    <3>1. io' \in [Proc -> Dev \cup {None}] /\ busy' \subseteq Dev
      BY <1>0 DEF Inv, TypeOK
    <3> QED BY <1>0, <1>1, <1>3, <1>4, <2>2, <3>1 DEF Inv, TypeOK, Queues
  <2> QED
    BY <1>3, <1>4, <1>5, <1>6, <1>7, <1>10, <1>11, <2>2, <2>3, <2>4 DEF Inv
<1> QED BY <1>12, <1>13

-----------------------------------------------------------------------------
LEMMA NextInv == Inv /\ [Next]_vars => Inv'
PROOF BY CreateProcInv, KillProcInv, SemopInv, SemopStepInv, SemopReturnInv, WaitForPClockInv,
         StartIOInv, WaitForIOInv, TimerExpiresInv, NotUsedInv, ClockInterruptInv,
         DeviceInterruptInv, StutterInv DEF Next

(* The nucleus, called within DisciplineAssumption, keeps its invariant     *)
(* whatever the programs do and whenever interrupts come.                  *)
THEOREM NucleusInvariant == Spec => []Inv
PROOF BY InitInv, NextInv, PTL DEF Spec

(* The variables keep their types. *)
THEOREM TypeCorrect == Spec => []TypeOK
PROOF
<1>1. Inv => TypeOK
  BY DEF Inv
<1> QED BY <1>1, NucleusInvariant, PTL

(* No wake-up is lost or invented by SYS3, SYS7, SYS8, the interrupts and   *)
(* the termination of waiting processes.                                    *)
THEOREM SemaphoresCorrect == Spec => []Accounting
PROOF
<1>1. Inv => Accounting
  BY DEF Inv
<1> QED BY <1>1, NucleusInvariant, PTL

(* Every live process is on a queue, whatever the vectors and the kills.    *)
THEOREM ProcessesNotLost == Spec => []NoLostProcess
PROOF
<1>1. Inv => NoLostProcess
  BY DEF Inv
<1> QED BY <1>1, NucleusInvariant, PTL

(* No process runs while it waits.                                         *)
THEOREM OnePlaceEach == Spec => []ReadyOrBlocked
PROOF
<1>1. Inv => ReadyOrBlocked
  BY DEF Inv
<1> QED BY <1>1, NucleusInvariant, PTL

(* SYS2 leaves no orphan. *)
THEOREM KillTakesTheFamily == Spec => []NoOrphans
PROOF BY DescendedNoOrphans, NucleusInvariant, PTL

(* intdeadlock's verdict is right. *)
THEOREM DeadlockDetectionCorrect == Spec => []HonestHalt
PROOF
<1>1. Inv => HonestHalt
  BY DEF Inv
<1> QED BY <1>1, NucleusInvariant, PTL

(* When intdeadlock stops the CPU, an interrupt will start it again.        *)
THEOREM SleepEnds == Spec => []IdleIsWakeable
PROOF
<1>1. Inv => IdleIsWakeable
  BY DEF Inv
<1> QED BY <1>1, NucleusInvariant, PTL

(* Whoever runs has a quantum.                                             *)
THEOREM QuantumRuns == Spec => []Preemptible
PROOF
<1>1. Inv => Preemptible
  BY DEF Inv
<1> QED BY <1>1, NucleusInvariant, PTL

(* SYS8 and the device interrupts meet. *)
THEOREM DeviceHandshakeCorrect == Spec => []DeviceHandshake
PROOF
<1>1. Inv => DeviceHandshake
  BY DEF Inv
<1> QED BY <1>1, NucleusInvariant, PTL

(* Within DisciplineAssumption insertBlocked finds a descriptor. *)
THEOREM DescriptorsCorrect == Spec => []DescriptorsSuffice
PROOF
<1>1. Inv => DescriptorsSuffice
  BY ActiveBound DEF DescriptorsSuffice
<1> QED BY <1>1, NucleusInvariant, PTL

-----------------------------------------------------------------------------
(* The order of the queues.                                                *)

(* p, which is on the queue f, has nobody new ahead of it on g. *)
Ahead(f, g, p) == g.ahead[p] \subseteq f.ahead[p]

(* Whoever stays on a queue of Q has nobody new ahead of it in R. *)
Keeps(Q, R) == \A k \in Queue : \A p \in Q[k].mem \cap R[k].mem : Ahead(Q[k], R[k], p)

LEMMA KeepsItself == ASSUME NEW Q PROVE Keeps(Q, Q)
PROOF BY DEF Keeps, Ahead

(* insertProc. *)
LEMMA EnqueueKeeps ==
  ASSUME NEW Q, Queues(Q), NEW k \in Queue, NEW p \in Proc, p \notin Q[k].mem
  PROVE  Keeps(Q, Enqueue(Q, k, p))
PROOF
<1>1. Q[k] \in Fifo /\ Ordered(Q[k])
  BY DEF Queues
<1>2. Enqueue(Q, k, p)[k] = Insert(Q[k], p)
  BY DEF Queues, Enqueue
<1>3. \A r \in Q[k].mem : Insert(Q[k], p).ahead[r] = Q[k].ahead[r]
  BY <1>1, InsertOrdered, ProcAssumption
<1>4. \A j \in Queue : j # k => Enqueue(Q, k, p)[j] = Q[j]
  BY EnqueueQueues
<1> QED BY <1>2, <1>3, <1>4 DEF Keeps, Ahead

(* Taking processes out, wherever they are. *)
LEMMA RemoveKeeps ==
  ASSUME NEW f \in Fifo, NEW K, NEW p \in Remove(f, K).mem
  PROVE  p \in f.mem /\ Ahead(f, Remove(f, K), p)
PROOF
<1>1. p \in f.mem /\ p \notin K /\ p \in Proc
  BY DEF Remove, Fifo
<1>2. Remove(f, K).ahead[p] = f.ahead[p] \ K
  BY <1>1 DEF Remove
<1> QED BY <1>1, <1>2 DEF Ahead

LEMMA DequeueKeeps ==
  ASSUME NEW Q, Queues(Q), NEW k \in Queue, NEW p
  PROVE  /\ Keeps(Q, Dequeue(Q, k, p))
         /\ \A j \in Queue : \A r \in Dequeue(Q, k, p)[j].mem : r \in Q[j].mem
PROOF
<1>1. Q[k] \in Fifo
  BY DEF Queues
<1>2. Dequeue(Q, k, p)[k] = Remove(Q[k], {p})
  BY DEF Queues, Dequeue
<1>3. \A j \in Queue : j # k => Dequeue(Q, k, p)[j] = Q[j]
  BY DequeueQueues
<1>4. \A r \in Remove(Q[k], {p}).mem : r \in Q[k].mem /\ Ahead(Q[k], Remove(Q[k], {p}), r)
  BY <1>1, RemoveKeeps
<1>5. ASSUME NEW j \in Queue, NEW r \in Dequeue(Q, k, p)[j].mem
      PROVE  r \in Q[j].mem /\ Ahead(Q[j], Dequeue(Q, k, p)[j], r)
  <2>1. CASE j = k
    BY <1>2, <1>4, <1>5, <2>1
  <2>2. CASE j # k
    BY <1>3, <1>5, <2>2 DEF Ahead
  <2> QED BY <2>1, <2>2
<1> QED BY <1>5 DEF Keeps

LEMMA InsertBlockedKeeps ==
  ASSUME NEW Q, Queues(Q), NEW s \in Semaphore, NEW p \in Proc, p \notin Q[s].mem
  PROVE  Keeps(Q, InsertBlocked(Q, s, p))
PROOF
<1>1. s \in Queue
  BY DEF Queue
<1>2. Keeps(Q, Enqueue(Q, s, p))
  BY <1>1, EnqueueKeeps
<1> QED BY <1>2, KeepsItself DEF InsertBlocked

(* Two steps, if nobody leaves a queue in the first and enters it again.    *)
LEMMA KeepsTwice ==
  ASSUME NEW Q, NEW R, NEW S, Keeps(Q, R), Keeps(R, S),
         \A k \in Queue : \A p \in Q[k].mem \cap S[k].mem : p \in R[k].mem
  PROVE  Keeps(Q, S)
PROOF BY DEF Keeps, Ahead

(* A process that is released goes to the back of the ready queue. *)
LEMMA ReleaseKeeps ==
  ASSUME NEW Q, Queues(Q), NEW s \in Semaphore
  PROVE  Keeps(Q, Release(Q, s))
PROOF
<1>1. CASE Q[s].mem = {}
  BY <1>1, KeepsItself DEF Release
<1>2. CASE Q[s].mem # {}
  <2> DEFINE p == Front(Q[s])
             R == Dequeue(Q, s, p)
             S == Enqueue(R, RQ, p)
  <2>1. s \in Queue /\ RQ \in Queue /\ s # RQ
    BY QueueAssumption DEF Queue
  <2>2. p \in Q[s].mem /\ p \in Proc
    BY <1>2, <2>1, FrontOfQueue
  <2>3. Queues(R) /\ Keeps(Q, R) /\ R[s].mem = Q[s].mem \ {p} /\ \A j \in Queue : j # s => R[j] = Q[j]
    BY <2>1, DequeueQueues, DequeueKeeps
  <2>4. CASE \E k \in Queue : p \in R[k].mem
    <3>1. Release(Q, s) = R
      BY <1>2, <2>4 DEF Release
    <3> QED BY <2>3, <3>1
  <2>5. CASE ~ \E k \in Queue : p \in R[k].mem
    <3>1. Release(Q, s) = S
      BY <1>2, <2>5 DEF Release
    <3> HIDE DEF p, R
    <3>2. Keeps(R, S) /\ \A j \in Queue : j # RQ => S[j] = R[j]
      BY <2>1, <2>2, <2>3, <2>5, EnqueueKeeps, EnqueueQueues
    <3>3. \A k \in Queue : \A r \in Q[k].mem \cap S[k].mem : r \in R[k].mem
      BY <2>1, <2>3, <3>2
    <3>4. Keeps(Q, S)
      BY <2>3, <3>2, <3>3, KeepsTwice
    <3> QED BY <3>1, <3>4
  <2> QED BY <2>4, <2>5
<1> QED BY <1>1, <1>2

-----------------------------------------------------------------------------
LEMMA CallerNotWaiting ==
  ASSUME Inv, cpu \in {"run", "semop"}, ~blocked, NEW s \in Semaphore
  PROVE  Caller \notin q[s].mem
PROOF BY CallerFacts DEF Inv, ReadyOrBlocked

(* SYS7 and SYS8. *)
LEMMA LockKeeps ==
  ASSUME Inv, cpu = "run", NEW s \in Semaphore, IntsemopLock(s)
  PROVE  Keeps(q, q')
PROOF
<1>0. Queues(q) /\ ~blocked /\ Caller \in Proc /\ s \in Queue /\ RQ \in Queue /\ s # RQ
  BY CallerFacts, QueueAssumption DEF Inv, CallState, Queue
<1>1. CASE q' = q
  BY <1>1, KeepsItself
<1>2. CASE q' = InsertBlocked(Dequeue(q, RQ, Caller), s, Caller)
  <2> DEFINE R == Dequeue(q, RQ, Caller)
  <2>1. Queues(R) /\ Keeps(q, R) /\ R[RQ].mem = q[RQ].mem \ {Caller} /\ R[s] = q[s]
    BY <1>0, DequeueQueues, DequeueKeeps
  <2>2. Caller \notin q[s].mem
    BY <1>0, CallerNotWaiting
  <2> HIDE DEF R
  <2>3. Keeps(R, InsertBlocked(R, s, Caller))
    BY <1>0, <2>1, <2>2, InsertBlockedKeeps
  <2>4. \A j \in Queue : j # s => InsertBlocked(R, s, Caller)[j] = R[j]
    BY <1>0, <2>1, <2>2, EnqueueQueues DEF InsertBlocked
  <2>5. \A k \in Queue : \A p \in q[k].mem \cap q'[k].mem : p \in R[k].mem
    BY <1>2, <2>1, <2>4 DEF R
  <2>6. q' = InsertBlocked(R, s, Caller)
    BY <1>2 DEF R
  <2> QED BY <2>1, <2>3, <2>5, <2>6, KeepsTwice
<1> QED BY <1>1, <1>2 DEF IntsemopLock

LEMMA SemopStepKeeps == ASSUME Inv, SemopStep PROVE Keeps(q, q')
PROOF
<1> DEFINE s == vec[i].sem
<1>0. /\ Queues(q) /\ vec \in Vectors /\ vec \in Seq(Vpop) /\ i \in DOMAIN vec
      /\ vec[i] \in Vpop /\ s \in Semaphore /\ Caller \in Proc /\ Caller \in q[RQ].mem
  <2>1. vec \in Vectors /\ vec \in Seq(Vpop) /\ i \in DOMAIN vec
    BY VectorAssumption DEF Inv, TypeOK, CallState, SemopStep
  <2>2. vec[i] \in Vpop
    BY <2>1
  <2>3. s \in Semaphore
    BY <2>2 DEF Vpop, Semaphore
  <2> QED BY <2>1, <2>2, <2>3, CallerFacts DEF Inv, SemopStep
<1>1. CASE vec[i].op = LOCK
  <2>1. Caller \notin q[s].mem
    <3>1. Caller \in q[s].mem => \E j \in DOMAIN vec : j < i /\ vec[j].op = LOCK /\ vec[j].sem = s
      BY <1>0 DEF Inv, CallState, SemopStep
    <3>2. POnce(vec)
      BY <1>0, DisciplineAssumption
    <3> QED BY <1>0, <3>1, <3>2 DEF POnce
  <2>2. Keeps(q, InsertBlocked(q, s, Caller))
    BY <1>0, <2>1, InsertBlockedKeeps
  <2>3. q' = InsertBlocked(q, s, Caller) \/ q' = q
    BY <1>1 DEF SemopStep, LOCK, UNLOCK
  <2> QED BY <2>2, <2>3, KeepsItself
<1>2. CASE vec[i].op # LOCK
  <2>1. q' = Release(q, s) \/ q' = q
    BY <1>2 DEF SemopStep
  <2>2. Keeps(q, Release(q, s))
    BY <1>0, ReleaseKeeps
  <2> QED BY <2>1, <2>2, KeepsItself
<1> QED BY <1>1, <1>2

LEMMA KillKeeps == ASSUME Inv, KillProc PROVE Keeps(q, q')
PROOF
<1>1. \A k \in Queue : q[k] \in Fifo /\ q'[k] = Remove(q[k], Subtree(Caller))
  BY DEF Inv, Queues, KillProc, Kill
<1> QED BY <1>1, RemoveKeeps DEF Keeps

(* The clock alone sends a process, the one that has had its quantum, to    *)
(* the back of a queue.                                                    *)
LEMMA ClockKeeps ==
  ASSUME Inv, ClockInterrupt, NEW k \in Queue, NEW p \in q[k].mem \cap q'[k].mem
  PROVE  Ahead(q[k], q'[k], p) \/ (k = RQ /\ p = Caller)
PROOF
<1> DEFINE R == Rotate(q)
<1>0. Queues(q) /\ PClock \in Semaphore /\ RQ \in Queue
  BY DEF Inv, Semaphore, Queue
<1>1. Queues(R) /\ R[RQ].mem = q[RQ].mem /\ \A j \in Queue : j # RQ => R[j] = q[j]
  <2>1. Queues(R) /\ R[RQ].mem = q[RQ].mem /\ \A s \in Semaphore : R[s] = q[s]
    BY <1>0, RotateQueues
  <2> QED BY <2>1 DEF Queue
<1>2. q' = Release(R, PClock) \/ q' = R
  BY DEF ClockInterrupt
<1>3. p \in R[k].mem
  BY <1>1
<1>4. Ahead(q[k], R[k], p) \/ (k = RQ /\ p = Caller)
  <2>1. CASE k # RQ
    BY <1>1, <2>1 DEF Ahead
  <2>2. CASE k = RQ /\ p # Caller
    <3> DEFINE D == Dequeue(q, RQ, Caller)
    <3>1. q[RQ].mem # {}
      BY <2>2
    <3>2. R = Enqueue(D, RQ, Caller) /\ Caller \in Proc
      BY <1>0, <3>1, FrontOfQueue DEF Rotate, Caller
    <3>3. Queues(D) /\ D[RQ].mem = q[RQ].mem \ {Caller} /\ Keeps(q, D)
      BY <1>0, DequeueQueues, DequeueKeeps
    <3> HIDE DEF D, R
    <3>4. Keeps(D, R)
      BY <1>0, <3>2, <3>3, EnqueueKeeps
    <3>5. p \in D[RQ].mem
      BY <2>2, <3>3
    <3> QED BY <1>0, <1>3, <2>2, <3>3, <3>4, <3>5 DEF Keeps, Ahead
  <2> QED BY <2>1, <2>2
<1>5. Keeps(R, q')
  <2> HIDE DEF R
  <2> QED BY <1>0, <1>1, <1>2, ReleaseKeeps, KeepsItself
<1> HIDE DEF R
<1>6. Ahead(R[k], q'[k], p)
  BY <1>3, <1>5 DEF Keeps
<1> QED BY <1>4, <1>6 DEF Ahead

LEMMA OtherSteps ==
  ASSUME Inv, Next, ~ClockInterrupt
  PROVE  Keeps(q, q')
PROOF
<1>1. CASE CreateProc
  <2>1. Queues(q) /\ RQ \in Queue
    BY DEF Inv, Queue
  <2>2. CASE \E c \in Proc \ live : q' = Enqueue(q, RQ, c)
    <3>1. PICK c \in Proc \ live : q' = Enqueue(q, RQ, c)
      BY <2>2
    <3>2. c \notin q[RQ].mem
      BY <2>1 DEF Inv, NoLostProcess
    <3> QED BY <2>1, <3>1, <3>2, EnqueueKeeps
  <2> QED BY <1>1, <2>2, KeepsItself DEF CreateProc
<1>2. CASE KillProc
  BY <1>2, KillKeeps
<1>3. CASE SemopStep
  BY <1>3, SemopStepKeeps
<1>4. CASE SemopReturn
  <2>1. Queues(q) /\ RQ \in Queue
    BY DEF Inv, Queue
  <2>2. q' = Dequeue(q, RQ, Caller) \/ q' = q
    BY <1>4 DEF SemopReturn
  <2> QED BY <2>1, <2>2, DequeueKeeps, KeepsItself
<1>5. CASE WaitForPClock
  BY <1>5, LockKeeps DEF WaitForPClock, Semaphore
<1>6. CASE \E d \in Dev : WaitForIO(d)
  BY <1>6, LockKeeps DEF WaitForIO, Semaphore
<1>7. CASE \E d \in Dev : DeviceInterrupt(d)
  <2>1. PICK d \in Dev : DeviceInterrupt(d)
    BY <1>7
  <2>2. d \in Semaphore /\ Queues(q)
    BY DEF Inv, Semaphore
  <2>3. q' = Release(q, d) \/ q' = q
    BY <2>1 DEF DeviceInterrupt
  <2> QED BY <2>2, <2>3, ReleaseKeeps, KeepsItself
<1>8. CASE Semop \/ NotUsed \/ TimerExpires \/ \E d \in Dev : StartIO(d)
  <2>1. q' = q
    BY <1>8 DEF Semop, NotUsed, TimerExpires, StartIO
  <2> QED BY <2>1, KeepsItself
<1> QED BY <1>1, <1>2, <1>3, <1>4, <1>5, <1>6, <1>7, <1>8 DEF Next

-----------------------------------------------------------------------------
(* Nobody gets ahead of a process that stays on a queue, whichever semaphore *)
(* or ready queue it is, but at the end of its own quantum: removeProc takes *)
(* the first, insertProc puts behind the last, and outProc, which takes a    *)
(* killed process from anywhere, leaves the order of the others.             *)
THEOREM FirstComeFirstServed == Spec => NoOvertaking
PROOF
<1> DEFINE NoStepOvertakes ==
      \A k \in Queue : \A p \in q[k].mem \cap q'[k].mem :
        q'[k].ahead[p] \subseteq q[k].ahead[p] \/ (k = RQ /\ p = Caller)
<1>1. ASSUME Inv, [Next]_vars PROVE [NoStepOvertakes]_vars
  <2>1. CASE ClockInterrupt
    BY <1>1, <2>1, ClockKeeps DEF Ahead
  <2>2. CASE Next /\ ~ClockInterrupt
    <3>1. Keeps(q, q')
      BY <1>1, <2>2, OtherSteps
    <3> QED BY <3>1 DEF Keeps, Ahead
  <2> QED BY <1>1, <2>1, <2>2
<1> QED BY <1>1, NucleusInvariant, PTL DEF Spec, NoOvertaking

-----------------------------------------------------------------------------
(* The links of procq.c that the nucleus uses.                              *)

(* Who waits for a device or the clock is on no other queue, and outside    *)
(* SYS3 who is ready is on no other, either.                                *)
LEMMA NoLinkTaken ==
  ASSUME Inv, ~blocked, NEW k \in Queue, k \notin Sem, NEW p \in q[k].mem
  PROVE  LinksTaken(p, k) = 0 .. LinkFor(k) - 1
PROOF
<1>1. \A j \in Queue : j # k => p \notin q[j].mem
  <2>1. CASE k = RQ
    BY <2>1, Disjoint DEF Inv, ReadyOrBlocked
  <2>2. CASE k # RQ
    BY <2>2, Disjoint, OnlyWaits
  <2> QED BY <2>1, <2>2
<1>2. LinksTaken(p, k) = {} /\ LinkFor(k) = 0
  BY <1>1 DEF LinksTaken, LinkFor
<1> QED BY <1>2

(* Who is ready and on the queue of a semaphore of a program is on no other *)
(* if no vector has two P's.                                                *)
LEMMA FirstLinkTaken ==
  ASSUME Inv, \A v \in Vectors : SingleP(v), NEW s \in Sem,
         NEW p \in q[s].mem \cap q[RQ].mem
  PROVE  LinksTaken(p, s) = 0 .. LinkFor(s) - 1
PROOF
<1>1. \A t \in Semaphore : t # s => p \notin q[t].mem
  BY Disjoint DEF Inv, WaitsFor
<1>2. {j \in Queue \ {s} : p \in q[j].mem} = {RQ}
  BY <1>1, Disjoint
<1>3. LinkFor(s) = 1 /\ LinkFor(RQ) = 0
  BY Disjoint DEF LinkFor
<1>4. LinksTaken(p, s) = {0}
  BY <1>2, <1>3 DEF LinksTaken
<1> QED BY <1>3, <1>4

(* An element of a vector puts the caller on a semaphore, while it is on    *)
(* the ready queue; or a process on the ready queue that is on no other.    *)
LEMMA SemopJoins ==
  ASSUME Inv, SemopStep, NEW k \in Queue, NEW p \in q'[k].mem, p \notin q[k].mem
  PROVE  \/ k \in Sem /\ p \in q'[RQ].mem
         \/ k = RQ /\ \A j \in Queue : j # k => p \notin q'[j].mem
PROOF
<1> DEFINE s == vec[i].sem
<1>0. /\ Queues(q) /\ s \in Sem /\ s \in Queue /\ s # RQ
      /\ Caller \in Proc /\ Caller \in q[RQ].mem
  <2>1. vec \in Seq(Vpop) /\ i \in DOMAIN vec
    BY VectorAssumption DEF Inv, TypeOK, CallState, SemopStep
  <2>2. vec[i] \in Vpop
    BY <2>1
  <2>3. s \in Sem
    BY <2>2 DEF Vpop
  <2> QED BY <2>3, CallerFacts, Disjoint DEF Inv, SemopStep
<1>1. CASE q' = InsertBlocked(q, s, Caller)
  <2>1. q' = Enqueue(q, s, Caller)
    BY <1>1 DEF InsertBlocked
  <2>2. \A j \in Queue : j # s => q'[j] = q[j]
    BY <2>1 DEF Enqueue, Inv, Queues
  <2>3. q'[s] = Insert(q[s], Caller)
    BY <1>0, <2>1 DEF Enqueue, Inv, Queues
  <2>4. k = s /\ p = Caller
    BY <2>2, <2>3 DEF Insert
  <2> QED BY <1>0, <2>2, <2>4, Disjoint
<1>2. CASE q' = Release(q, s) /\ q[s].mem # {}
  <2> DEFINE h == Front(q[s])
             R == Dequeue(q, s, h)
  <2>1. h \in Proc /\ h \in q[s].mem
    BY <1>0, <1>2, FrontOfQueue
  <2>2. /\ Queues(R) /\ R[s].mem = q[s].mem \ {h}
        /\ \A j \in Queue : j # s => R[j] = q[j]
    BY <1>0, DequeueQueues
  <2>3. q' = R \/ ((\A j \in Queue : h \notin R[j].mem) /\ q' = Enqueue(R, RQ, h))
    BY <1>2 DEF Release
  <2> HIDE DEF h, R, s
  <2>4. p \notin R[k].mem
    BY <2>2
  <2>5. q' # R
    BY <2>4
  <2>6. /\ \A j \in Queue : h \notin R[j].mem
        /\ q' = Enqueue(R, RQ, h)
    BY <2>3, <2>5
  <2>7. /\ q'[RQ].mem = R[RQ].mem \cup {h}
        /\ \A j \in Queue : j # RQ => q'[j] = R[j]
    BY <2>1, <2>2, <2>6, Disjoint, EnqueueQueues
  <2>8. k = RQ /\ p = h
    BY <2>4, <2>7
  <2> QED BY <2>6, <2>7, <2>8
<1>3. CASE q' = q
  BY <1>3
<1> QED BY <1>1, <1>2, <1>3 DEF SemopStep, Release

(* No other step puts anybody on the queue of a semaphore of a program. *)
LEMMA OnlySemopJoins ==
  ASSUME Inv, Next, ~SemopStep, NEW s \in Sem
  PROVE  q'[s].mem \subseteq q[s].mem
PROOF
<1>0. Queues(q) /\ s \in Semaphore /\ s \in Queue /\ s # RQ /\ s # PClock /\ s \notin Dev
  BY Disjoint DEF Inv
<1>1. CASE CreateProc
  <2>1. q' = q \/ \E c \in Proc : q' = Enqueue(q, RQ, c)
    BY <1>1 DEF CreateProc
  <2>2. q'[s] = q[s]
    BY <1>0, <2>1 DEF Enqueue, Queues
  <2> QED BY <2>2
<1>2. CASE KillProc
  <2>1. q'[s] = Remove(q[s], Subtree(Caller))
    BY <1>0, <1>2 DEF KillProc, Kill
  <2> QED BY <2>1 DEF Remove
<1>3. CASE SemopReturn
  <2>1. q' = q \/ q' = Dequeue(q, RQ, Caller)
    BY <1>3 DEF SemopReturn
  <2>2. q'[s] = q[s]
    BY <1>0, <2>1 DEF Dequeue, Queues
  <2> QED BY <2>2
<1>4. ASSUME NEW t \in Semaphore, t # s, IntsemopLock(t) PROVE q'[s].mem \subseteq q[s].mem
  <2> DEFINE R == Dequeue(q, RQ, Caller)
  <2>1. q' = q \/ q' = InsertBlocked(R, t, Caller)
    BY <1>4 DEF IntsemopLock
  <2>2. Queues(R) /\ R[s] = q[s]
    BY <1>0, Disjoint, DequeueQueues
  <2> HIDE DEF R
  <2>3. InsertBlocked(R, t, Caller)[s] = R[s]
    BY <1>0, <1>4, <2>2 DEF InsertBlocked, Enqueue, Queues
  <2> QED BY <2>1, <2>2, <2>3
<1>5. ASSUME NEW Q, Queues(Q), NEW t \in Semaphore, t # s PROVE Release(Q, t)[s] = Q[s]
  <2> DEFINE h == Front(Q[t])
             R == Dequeue(Q, t, h)
  <2>1. Release(Q, t) \in {Q, R, Enqueue(R, RQ, h)}
    BY DEF Release
  <2>2. Queues(R) /\ R[s] = Q[s]
    BY <1>0, <1>5, Disjoint, DequeueQueues
  <2> HIDE DEF R, h
  <2>3. Enqueue(R, RQ, h)[s] = R[s]
    BY <1>0, <2>2 DEF Enqueue, Queues
  <2> QED BY <2>1, <2>2, <2>3
<1>6. CASE WaitForPClock
  BY <1>0, <1>4, <1>6, Disjoint DEF WaitForPClock
<1>7. CASE \E d \in Dev : WaitForIO(d)
  BY <1>0, <1>4, <1>7, Disjoint DEF WaitForIO
<1>8. CASE ClockInterrupt
  <2> DEFINE R == Rotate(q)
  <2>1. Queues(R) /\ R[s] = q[s]
    BY <1>0, RotateQueues
  <2>2. q' = R \/ q' = Release(R, PClock)
    BY <1>8 DEF ClockInterrupt
  <2> HIDE DEF R
  <2> QED BY <1>0, <1>5, <2>1, <2>2, Disjoint
<1>9. CASE \E d \in Dev : DeviceInterrupt(d)
  <2>1. PICK d \in Dev : DeviceInterrupt(d)
    BY <1>9
  <2>2. q' = q \/ q' = Release(q, d)
    BY <2>1 DEF DeviceInterrupt
  <2> QED BY <1>0, <1>5, <2>2, Disjoint
<1>10. CASE Semop \/ NotUsed \/ TimerExpires \/ \E d \in Dev : StartIO(d)
  <2>1. q' = q
    BY <1>10 DEF Semop, NotUsed, TimerExpires, StartIO
  <2> QED BY <2>1
<1> QED BY <1>1, <1>2, <1>3, <1>6, <1>7, <1>8, <1>9, <1>10 DEF Next

(* SYS3 is in progress after a step only if the step was one of its own, or *)
(* has left the queues alone.                                               *)
LEMMA OutsideSemop ==
  ASSUME Inv, Inv', Next, ~SemopStep
  PROVE  q' = q \/ ~blocked'
PROOF
<1>1. CASE Semop \/ NotUsed \/ TimerExpires \/ \E d \in Dev : StartIO(d)
  BY <1>1 DEF Semop, NotUsed, TimerExpires, StartIO
<1>2. CASE SemopReturn
  BY <1>2 DEF SemopReturn
<1>3. CASE CreateProc \/ KillProc \/ WaitForPClock \/ \E d \in Dev : WaitForIO(d)
  <2>1. cpu = "run" /\ blocked' = blocked
    BY <1>3 DEF CreateProc, KillProc, Kill, WaitForPClock, WaitForIO, callVars
  <2> QED BY <2>1 DEF Inv, CallState
<1>4. CASE ClockInterrupt \/ \E d \in Dev : DeviceInterrupt(d)
  <2>1. cpu # "semop" /\ blocked' = blocked
    BY <1>4 DEF ClockInterrupt, DeviceInterrupt, callVars
  <2> QED BY <2>1 DEF Inv, CallState
<1> QED BY <1>1, <1>2, <1>3, <1>4 DEF Next

(* The nucleus uses one link of its entries for each queue as long as no    *)
(* program waits for two semaphores at once: the premise under which        *)
(* ProcQueueProofs shows that no head leaves from behind a tail with        *)
(* another link, and that the links of procq.c implement the queues above.  *)
THEOREM LinksOfTheNucleus ==
  ASSUME \A v \in Vectors : SingleP(v)
  PROVE  Spec => OneLinkPerQueue
PROOF
<1> DEFINE StepOfLinks ==
      \A k \in Queue : \A p \in q'[k].mem :
        \/ p \in q[k].mem /\ q'[k].ahead[p] \subseteq q[k].ahead[p]
        \/ LinksTaken(p, k)' = 0 .. LinkFor(k) - 1
<1> DEFINE Others == \A k \in Queue : \A p \in q[k].mem :
             Inv /\ ~blocked /\ k \notin Sem => LinksTaken(p, k) = 0 .. LinkFor(k) - 1
           Programs == \A s \in Sem : \A p \in q[s].mem \cap q[RQ].mem :
             Inv => LinksTaken(p, s) = 0 .. LinkFor(s) - 1
<1>1. Others'
  <2>1. Others
    BY NoLinkTaken
  <2> QED BY <2>1, PTL
<1>2. Programs'
  <2>1. Programs
    BY FirstLinkTaken
  <2> QED BY <2>1, PTL
<1>3. ASSUME Inv, Inv', [Next]_vars PROVE [StepOfLinks]_vars
  <2> SUFFICES ASSUME Next, NEW k \in Queue, NEW p \in q'[k].mem,
                      ~(p \in q[k].mem /\ q'[k].ahead[p] \subseteq q[k].ahead[p])
               PROVE  LinksTaken(p, k)' = 0 .. LinkFor(k) - 1
    BY <1>3
  <2>1. q' # q
    OBVIOUS
  <2>2. CASE SemopStep
    <3>1. p \notin q[k].mem
      BY <1>3, <2>2, SemopStepKeeps DEF Keeps, Ahead
    <3>2. CASE k \in Sem /\ p \in q'[RQ].mem
      BY <1>2, <1>3, <3>2
    <3>3. CASE k = RQ /\ \A j \in Queue : j # k => p \notin q'[j].mem
      <4>1. LinksTaken(p, k)' = {} /\ LinkFor(k) = 0
        BY <3>3, Disjoint DEF LinksTaken, LinkFor
      <4> QED BY <4>1
    <3> QED BY <1>3, <2>2, <3>1, <3>2, <3>3, SemopJoins
  <2>3. CASE ~SemopStep
    <3>1. ~blocked'
      BY <1>3, <2>1, <2>3, OutsideSemop
    <3>2. k \notin Sem
      <4> SUFFICES ASSUME k \in Sem PROVE FALSE
        OBVIOUS
      <4>1. p \in q[k].mem /\ k # RQ
        BY <1>3, <2>3, OnlySemopJoins, Disjoint
      <4>2. CASE ClockInterrupt
        BY <1>3, <4>1, <4>2, ClockKeeps DEF Ahead
      <4>3. CASE ~ClockInterrupt
        BY <1>3, <4>1, <4>3, OtherSteps DEF Keeps, Ahead
      <4> QED BY <4>2, <4>3
    <3> QED BY <1>1, <1>3, <3>1, <3>2
  <2> QED BY <2>2, <2>3
<1> QED BY <1>3, NucleusInvariant, PTL DEF Spec, OneLinkPerQueue
=============================================================================
