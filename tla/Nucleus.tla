------------------------------ MODULE Nucleus -------------------------------
(***************************************************************************)
(* The nucleus: creation and termination of processes (SYS1, SYS2), the    *)
(* semaphore calls (SYS3, SYS7, SYS8), the interval timer, the device      *)
(* interrupts and the round-robin scheduler: src/nucleus/traps/main.c,     *)
(* syscall.c, trap.c and src/nucleus/interrupts/int.c over the queues of   *)
(* src/queues.                                                             *)
(*                                                                         *)
(* There is one CPU and the handlers run with interrupts masked, so a      *)
(* handler is one action; semop is one action per element of its vector,   *)
(* and nothing but the timer's countdown can happen in between.            *)
(***************************************************************************)
EXTENDS Integers, Sequences, Fifo

CONSTANTS
  Root,       \* the process p1, created by main()
  Sem,        \* the semaphores of the programs
  Dev,        \* the devices, standing for their semaphores too
  PClock,     \* the pseudo-clock semaphore
  RQ,         \* the ready queue
  None,
  Vectors,    \* the vpop vectors the programs pass to SYS3
  InitVal,    \* the initial value of each semaphore in Sem
  NumDesc,    \* MAXPROC, the number of semaphore descriptors
  Ticks,      \* 100000 / QUANTUM: quanta between two V's of the pseudo-clock
  MaxVal      \* bound: programs V no semaphore beyond this value

Semaphore == Sem \cup Dev \cup {PClock}
Queue     == Semaphore \cup {RQ}
LOCK      == -1
UNLOCK    == 1
Vpop      == [op : {LOCK, UNLOCK}, sem : Sem]

ASSUME ProcAssumption  == IsFiniteSet(Proc) /\ Root \in Proc /\ None \notin Proc \cup Semaphore
ASSUME QueueAssumption == /\ Sem \cap Dev = {} /\ PClock \notin Sem \cup Dev
                          /\ RQ \notin Semaphore
ASSUME BoundAssumption == /\ InitVal \in [Sem -> Nat] /\ NumDesc \in Nat
                          /\ Ticks \in Nat \ {0} /\ MaxVal \in Nat
(* A queue holds a process once: no vector has two P's of one semaphore. *)
ASSUME VectorAssumption ==
  /\ Vectors \subseteq Seq(Vpop)
  /\ \A v \in Vectors : \A j, k \in DOMAIN v :
       j # k /\ v[j].op = LOCK /\ v[k].op = LOCK => v[j].sem # v[k].sem

VARIABLES
  live,       \* the entries of procTable that are not on the free list
  parent,     \* proc_t.parent_proc, the tree of the live processes
  q,          \* the ready queue and the queue of every semaphore
  val,        \* the value of every semaphore
  cpu,        \* who has the CPU: "run" the front of RQ, "semop" SYS3 on its
              \* behalf, "idle" nobody; "normal", "deadlock", "error": the machine
              \* has halted
  vec, i,     \* SYS3: the vector, the element it is at
  blocked,    \* SYS3: callingProcessBlocked
  timer,      \* the interval timer: "off", "armed", "pending" (not yet taken)
  ticks,      \* PSEUDO_CLOCK, in quanta
  busy,       \* the devices that have an operation in progress
  io          \* the device a process has started and not yet waited out

procVars == <<live, parent>>
callVars == <<vec, i, blocked>>
devVars  == <<busy, io>>
vars     == <<live, parent, q, val, cpu, vec, i, blocked, timer, ticks, busy, io>>

TypeOK ==
  /\ live \subseteq Proc
  /\ parent \in [Proc -> Proc \cup {None}]
  /\ q \in [Queue -> Fifo]
  /\ val \in [Semaphore -> Int]
  /\ cpu \in {"run", "semop", "idle", "normal", "deadlock", "error"}
  /\ vec \in Seq(Vpop) /\ i \in Nat \ {0} /\ blocked \in BOOLEAN
  /\ timer \in {"off", "armed", "pending"}
  /\ ticks \in 0 .. Ticks - 1
  /\ busy \subseteq Dev
  /\ io \in [Proc -> Dev \cup {None}]

Caller == Front(q[RQ])

-----------------------------------------------------------------------------
(* The queues: procq.c and asl.c.                                          *)

(* Mutant: a descriptor is set aside for the pseudo-clock. *)
ActivePClock(Q) == {s \in Semaphore : Q[s].mem # {}} \cup {PClock}

(* The semaphores that have a descriptor on the active list. *)
Active(Q) == {s \in Semaphore : Q[s].mem # {}}

Enqueue(Q, k, p) == [Q EXCEPT ![k] = Insert(@, p)]

Dequeue(Q, k, p) == [Q EXCEPT ![k] = Remove(@, {p})]

(* No descriptor for s and none free: insertBlocked returns TRUE and does   *)
(* nothing; no caller looks at the result.                                  *)
InsertBlocked(Q, s, p) ==
  IF Q[s].mem = {} /\ Cardinality(Active(Q)) >= NumDesc THEN Q ELSE Enqueue(Q, s, p)

(* Mutants: the process removed is forgotten; it is not removed at all.     *)
ReleaseNobody(Q, s) == IF Q[s].mem = {} THEN Q ELSE Dequeue(Q, s, Front(Q[s]))
ReleaseHead(Q, s)   == IF Q[s].mem = {} THEN Q ELSE Enqueue(Q, RQ, Front(Q[s]))

(* removeBlocked, and onto the ready queue if it was the last queue.       *)
Release(Q, s) ==
  IF Q[s].mem = {} THEN Q
  ELSE LET p == Front(Q[s])
           R == Dequeue(Q, s, p)
       IN  IF \E k \in Queue : p \in R[k].mem THEN R ELSE Enqueue(R, RQ, p)

(* Mutant: outBlocked leaves the semaphores as they are. *)
GiveBackNothing(K) == val

(* outBlocked: a P that will never be satisfied is undone. *)
GiveBack(K) == [s \in Semaphore |-> val[s] + Cardinality(q[s].mem \cap K)]

(* Mutant: only p and its children. *)
Children(p) == {p} \cup {c \in live : parent[c] = p}

(* The processes of the subtree of p, p included: the least set that has p  *)
(* and every child of its members.                                          *)
Subtree(p) ==
  {c \in Proc : \A S \in SUBSET Proc :
     (p \in S /\ \A x \in live : parent[x] \in S => x \in S) => c \in S}

-----------------------------------------------------------------------------
(* The scheduler.                                                          *)

(* LDIT: a request that is already raised stays raised. *)
Arm(t) == IF t = "pending" THEN t ELSE "armed"

(* Mutant: intdeadlock looks at the devices only. *)
DispatchNoPClock(Q) ==
  IF Q[RQ].mem # {} THEN "run"
  ELSE IF \E s \in Dev : Q[s].mem # {} THEN "idle"
  ELSE IF Active(Q) = {} THEN "normal" ELSE "deadlock"

(* schedule() and, on an empty ready queue, intdeadlock(). *)
Dispatch(Q) ==
  IF Q[RQ].mem # {} THEN "run"
  ELSE IF \E s \in Dev \cup {PClock} : Q[s].mem # {} THEN "idle"
  ELSE IF Active(Q) = {} THEN "normal" ELSE "deadlock"

(* Mutants: intdeadlock, or schedule, does not set the timer. *)
RearmReady(Q, t)  == IF Q[RQ].mem # {} THEN Arm(t) ELSE t
RearmPClock(Q, t) == IF Q[PClock].mem # {} THEN Arm(t) ELSE t

(* intschedule() is called for the next process, and for the pseudo-clock. *)
Rearm(Q, t) == IF Q[RQ].mem \cup Q[PClock].mem # {} THEN Arm(t) ELSE t

Schedule(Q) == cpu' = Dispatch(Q) /\ timer' = Rearm(Q, timer)

(* Mutant: the value is not looked at, the caller always blocks. *)
IntsemopLockAlways(s) ==
  /\ val' = [val EXCEPT ![s] = @ - 1]
  /\ LET Q == InsertBlocked(Dequeue(q, RQ, Caller), s, Caller)
     IN  q' = Q /\ Schedule(Q)

(* A P by SYS7 or SYS8 (intsemop): the caller leaves the ready queue first. *)
IntsemopLock(s) ==
  /\ val' = [val EXCEPT ![s] = @ - 1]
  /\ IF val[s] <= 0
     THEN LET Q == InsertBlocked(Dequeue(q, RQ, Caller), s, Caller)
          IN  q' = Q /\ Schedule(Q)
     ELSE UNCHANGED <<q, cpu, timer>>

-----------------------------------------------------------------------------
(* System calls of the running process.                                    *)

CreateProc ==
  /\ cpu = "run"
  /\ \/ \E c \in Proc \ live :
          /\ live' = live \cup {c}
          /\ parent' = [parent EXCEPT ![c] = Caller]
          /\ q' = Enqueue(q, RQ, c)
     \/ live = Proc /\ UNCHANGED <<live, parent, q>>     \* -1 in D2
  /\ UNCHANGED <<val, cpu, callVars, timer, ticks, devVars>>

(* killprocrecurse, for all the entries of a family, and schedule. *)
Kill(K) ==
  /\ cpu = "run"
  /\ LET Q == [k \in Queue |-> Remove(q[k], K)]
     IN  /\ live' = live \ K
         /\ parent' = [p \in Proc |-> IF p \in K THEN None ELSE parent[p]]
         /\ q' = Q
         /\ val' = GiveBack(K)
         /\ io' = [p \in Proc |-> IF p \in K THEN None ELSE io[p]]
         /\ Schedule(Q)
  /\ UNCHANGED <<callVars, ticks, busy>>

(* SYS2, and every trap that is not passed up. *)
KillProc == Kill(Subtree(Caller))

Semop ==
  /\ cpu = "run"
  /\ \E v \in Vectors :
       /\ \A j \in DOMAIN v : v[j].op = UNLOCK => val[v[j].sem] < MaxVal
       /\ vec' = v
  /\ i' = 1 /\ blocked' = FALSE /\ cpu' = "semop"
  /\ UNCHANGED <<procVars, q, val, timer, ticks, devVars>>

SemopStep ==
  /\ cpu = "semop" /\ i <= Len(vec)
  /\ LET s == vec[i].sem
     IN  /\ val' = [val EXCEPT ![s] = @ + vec[i].op]
         /\ \/ /\ vec[i].op = LOCK /\ val[s] <= 0
               /\ blocked' = TRUE
               /\ q' = InsertBlocked(q, s, Caller)
            \/ /\ vec[i].op = LOCK /\ val[s] > 0
               /\ UNCHANGED <<blocked, q>>
            \/ /\ vec[i].op = UNLOCK
               /\ q' = IF val[s] < 0 THEN Release(q, s) ELSE q
               /\ UNCHANGED blocked
  /\ i' = i + 1
  /\ UNCHANGED <<procVars, cpu, vec, timer, ticks, devVars>>

(* Mutant: the caller of SYS3 stays on the ready queue and runs on. *)
SemopRunsOn ==
  /\ cpu = "semop" /\ i > Len(vec)
  /\ cpu' = "run" /\ UNCHANGED <<q, timer>>
  /\ vec' = <<>> /\ i' = 1 /\ blocked' = FALSE
  /\ UNCHANGED <<procVars, val, ticks, devVars>>

SemopReturn ==
  /\ cpu = "semop" /\ i > Len(vec)
  /\ IF blocked
     THEN LET Q == Dequeue(q, RQ, Caller) IN q' = Q /\ Schedule(Q)
     ELSE cpu' = "run" /\ UNCHANGED <<q, timer>>
  /\ vec' = <<>> /\ i' = 1 /\ blocked' = FALSE
  /\ UNCHANGED <<procVars, val, ticks, devVars>>

(* SYS4, "an error condition": the nucleus halts. *)
NotUsed ==
  /\ cpu = "run"
  /\ cpu' = "error"
  /\ UNCHANGED <<procVars, q, val, callVars, timer, ticks, devVars>>

WaitForPClock ==
  /\ cpu = "run"
  /\ IntsemopLock(PClock)
  /\ UNCHANGED <<procVars, callVars, ticks, devVars>>

(* The program starts an operation on a device that nobody else is using    *)
(* (int.c: "a device can ONLY block 1 process at any given moment").        *)
StartIO(d) ==
  /\ cpu = "run" /\ io[Caller] = None
  /\ d \notin busy /\ (\A p \in Proc : io[p] # d) /\ val[d] < MaxVal
  /\ io' = [io EXCEPT ![Caller] = d]
  /\ busy' = busy \cup {d}
  /\ UNCHANGED <<procVars, q, val, cpu, callVars, timer, ticks>>

WaitForIO(d) ==
  /\ cpu = "run" /\ io[Caller] = d
  /\ IntsemopLock(d)
  /\ io' = IF val[d] > 0 THEN [io EXCEPT ![Caller] = None] ELSE io
  /\ UNCHANGED <<procVars, callVars, ticks, busy>>

-----------------------------------------------------------------------------
(* Interrupts.                                                             *)

TimerExpires ==
  /\ cpu \in {"run", "semop", "idle"} /\ timer = "armed"
  /\ timer' = "pending"
  /\ UNCHANGED <<procVars, q, val, cpu, callVars, ticks, devVars>>

(* Mutants: the caller stays at the front; PSEUDO_CLOCK is not reset. *)
RotateNot(Q) == Q
PseudoClockRunsOn == ticks + 1

(* The round robin: the caller goes to the back of the ready queue. *)
Rotate(Q) ==
  IF Q[RQ].mem = {} THEN Q
  ELSE LET p == Front(Q[RQ]) IN Enqueue(Dequeue(Q, RQ, p), RQ, p)

PseudoClock == IF ticks + 1 >= Ticks THEN 0 ELSE ticks + 1

(* intclockhandler: the next process, and every Ticks quanta one process    *)
(* is released from the pseudo-clock.                                       *)
ClockInterrupt ==
  /\ cpu \in {"run", "idle"} /\ timer = "pending"
  /\ LET R == Rotate(q)
         woken == ticks + 1 >= Ticks /\ R[PClock].mem # {}
         Q == IF woken /\ val[PClock] < 0 THEN Release(R, PClock) ELSE R
     IN  /\ q' = Q
         /\ val' = IF woken THEN [val EXCEPT ![PClock] = @ + 1] ELSE val
         /\ ticks' = PseudoClock
         /\ cpu' = Dispatch(Q)
         /\ timer' = Rearm(Q, "off")
  /\ UNCHANGED <<procVars, callVars, devVars>>

(* intterminalhandler and its three siblings, with inthandler. *)
DeviceInterrupt(d) ==
  /\ cpu \in {"run", "idle"} /\ d \in busy
  /\ busy' = busy \ {d}
  /\ val' = [val EXCEPT ![d] = @ + 1]
  /\ LET Q == IF val[d] = -1 THEN Release(q, d) ELSE q
     IN  /\ q' = Q
         /\ IF q[RQ].mem # {} THEN UNCHANGED <<cpu, timer>> ELSE Schedule(Q)
  /\ io' = [p \in Proc |-> IF val[d] = -1 /\ p \in q[d].mem THEN None ELSE io[p]]
  /\ UNCHANGED <<procVars, callVars, ticks>>

-----------------------------------------------------------------------------
Init ==
  /\ live = {Root}
  /\ parent = [p \in Proc |-> None]
  /\ q = [k \in Queue |-> IF k = RQ THEN Insert(EmptyFifo, Root) ELSE EmptyFifo]
  /\ val = [s \in Semaphore |-> IF s \in Sem THEN InitVal[s] ELSE 0]
  /\ cpu = "run"
  /\ vec = <<>> /\ i = 1 /\ blocked = FALSE
  /\ timer = "armed"
  /\ ticks = 0
  /\ busy = {}
  /\ io = [p \in Proc |-> None]

Next ==
  \/ CreateProc \/ KillProc
  \/ Semop \/ SemopStep \/ SemopReturn
  \/ NotUsed \/ WaitForPClock
  \/ \E d \in Dev : StartIO(d) \/ WaitForIO(d)
  \/ TimerExpires \/ ClockInterrupt
  \/ \E d \in Dev : DeviceInterrupt(d)

Spec == Init /\ [][Next]_vars

-----------------------------------------------------------------------------
(* Safety.                                                                 *)

(* No wake-up is lost and none is invented: a negative semaphore value is   *)
(* the number of processes on its queue, a value that is not negative       *)
(* leaves nobody waiting.  SYS3, intsemop, inthandler (which bypasses       *)
(* intsemop) and outBlocked (which undoes the P of a killed process) all    *)
(* keep the two in step.                                                    *)
Accounting ==
  \A s \in Semaphore :
    Cardinality(q[s].mem) = IF val[s] < 0 THEN -val[s] ELSE 0

(* No process is lost: a live process is on the ready queue or blocked, a   *)
(* free entry of procTable is on no queue (semop takes its caller off the   *)
(* ready queue even if a later V of the same vector has released it).       *)
NoLostProcess ==
  \A p \in Proc : p \in live <=> \E k \in Queue : p \in q[k].mem

(* A process that can run is not waiting: only the caller of a SYS3 that    *)
(* has not returned is on the ready queue and on a semaphore's queue.       *)
ReadyOrBlocked ==
  \A s \in Semaphore : \A p \in q[RQ].mem \cap q[s].mem : blocked /\ p = Caller

(* killproc takes the whole family: every live process descends from a      *)
(* live p1, and when p1 is gone nobody is left.                             *)
NoOrphans == live = IF Root \in live THEN Subtree(Root) ELSE {}

(* intdeadlock tells the truth: it reports a normal termination when every  *)
(* process has terminated, a deadlock when processes are left and only      *)
(* another process could have released them.                                *)
HonestHalt ==
  /\ cpu = "normal" => live = {}
  /\ cpu = "deadlock" => live # {} /\ \A p \in live : \E s \in Sem : p \in q[s].mem

(* intdeadlock stops the CPU only if an interrupt that wakes a process will *)
(* come: a device with a waiter has an operation in progress, or somebody   *)
(* waits for the pseudo-clock and the interval timer runs.                  *)
IdleIsWakeable ==
  cpu = "idle" =>
    /\ q[RQ].mem = {}
    /\ \/ \E d \in busy : q[d].mem # {}
       \/ q[PClock].mem # {} /\ timer # "off"

(* The process that runs has a quantum: the interval timer is never off     *)
(* while a process is ready, whichever path led to it.                      *)
Preemptible == cpu \in {"run", "semop"} => q[RQ].mem # {} /\ timer # "off"

(* inthandler tells a waiting process by the value -1: a device semaphore   *)
(* never gets below it, and an interrupt that has come before SYS8 is       *)
(* remembered by the semaphore until the process asks.                      *)
DeviceHandshake ==
  \A d \in Dev :
    /\ val[d] >= -1
    /\ \A p \in Proc : io[p] = d =>
         IF p \in q[d].mem THEN d \in busy ELSE d \in busy \/ val[d] >= 1

(* insertBlocked, whose result nobody looks at, never runs out of           *)
(* descriptors: there is one left for any process that could block.         *)
DescriptorsSuffice ==
  cpu \in {"run", "semop"} /\ ~blocked => Cardinality(Active(q)) < NumDesc

(* First come, first served: nobody gets ahead of a process that stays on a *)
(* queue, except that the process at the front of the ready queue goes to   *)
(* its back when its quantum is over.                                       *)
NoOvertaking ==
  [][\A k \in Queue : \A p \in q[k].mem \cap q'[k].mem :
       q'[k].ahead[p] \subseteq q[k].ahead[p] \/ (k = RQ /\ p = Caller)]_vars

-----------------------------------------------------------------------------
(* Liveness.                                                               *)

(* The quantum of p passes while p keeps the CPU; schedule() gives every    *)
(* process a fresh one, so the countdown is fair to a process and not       *)
(* across processes.  Interrupts are masked in semop and taken as soon as   *)
(* it returns; a device finishes its operation.                             *)
Quantum(p)  == q[RQ].mem # {} /\ Caller = p /\ TimerExpires
IdleQuantum == cpu = "idle" /\ TimerExpires

Fairness ==
  /\ \A p \in Proc : WF_vars(Quantum(p))
  /\ WF_vars(IdleQuantum)
  /\ SF_vars(ClockInterrupt)
  /\ \A d \in Dev : SF_vars(DeviceInterrupt(d))
  /\ WF_vars(SemopStep) /\ WF_vars(SemopReturn)

FairSpec == Spec /\ Fairness

(* SYS4 stops the machine, and every wait with it. *)
Stopped == cpu = "error"

(* Round robin: a ready process gets the CPU, or it is killed.              *)
RoundRobin == \A p \in Proc : p \in q[RQ].mem ~> p \notin q[RQ].mem \/ p = Caller \/ Stopped

(* A process that waits for a device is released, or it is killed.          *)
DeviceWakes == \A d \in Dev, p \in Proc : p \in q[d].mem ~> p \notin q[d].mem \/ Stopped

(* The semaphore of the pseudo-clock is V'ed every CLOCKINTERVAL            *)
(* (intp1.c:15), so a process that waits for it is released.                *)
PClockWakes == \A p \in Proc : p \in q[PClock].mem ~> p \notin q[PClock].mem \/ Stopped
=============================================================================
