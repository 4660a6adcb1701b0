----------------------------- MODULE NucleusInv -----------------------------
(***************************************************************************)
(* The use of SYS3 under which the nucleus keeps its promises, and the     *)
(* inductive invariant that shows it does.                                 *)
(***************************************************************************)
EXTENDS Nucleus

(* No element of a vector uses a semaphore that an earlier one P's: it would *)
(* block the caller twice, or release it before the call has come to its end. *)
POnce(v) == \A j, k \in DOMAIN v : j < k /\ v[j].op = LOCK => v[k].sem # v[j].sem

(* A vector blocks its caller on one semaphore at most. *)
SingleP(v) == \A j, k \in DOMAIN v : v[j].op = LOCK /\ v[k].op = LOCK => j = k

(* The semaphores that a process can wait for. *)
Awaited == {s \in Sem : \E v \in Vectors : \E j \in DOMAIN v : v[j].op = LOCK /\ v[j].sem = s}
             \cup Dev \cup {PClock}

(* There are enough semaphore descriptors: one for every process table entry *)
(* if each process uses one at a time, or more than there are semaphores.   *)
ASSUME DisciplineAssumption ==
  /\ \A v \in Vectors : POnce(v)
  /\ \/ (\A v \in Vectors : SingleP(v)) /\ Cardinality(Proc) <= NumDesc
     \/ IsFiniteSet(Awaited) /\ Cardinality(Awaited) < NumDesc

-----------------------------------------------------------------------------
(* The queues are totally ordered, so each has one front. *)
Queues(Q) == Q \in [Queue -> Fifo] /\ \A k \in Queue : Ordered(Q[k])

(* Who waits for a device or the pseudo-clock waits for nothing else, and   *)
(* nobody waits for two semaphores unless a vector has two P's.             *)
WaitsFor ==
  /\ \A s, t \in Semaphore :
       s # t /\ (s \notin Sem \/ \A v \in Vectors : SingleP(v)) => q[s].mem \cap q[t].mem = {}
  /\ \A s \in Semaphore : q[s].mem # {} => s \in Awaited

(* SYS3 in progress: its caller is blocked if it is on the queue of a        *)
(* semaphore, and it is there for a P among the elements done so far.       *)
CallState ==
  /\ cpu # "semop" => ~blocked
  /\ cpu = "semop" =>
       /\ vec \in Vectors
       /\ blocked => \E s \in Semaphore : Caller \in q[s].mem
       /\ \A s \in Semaphore : Caller \in q[s].mem =>
            \E j \in DOMAIN vec : j < i /\ vec[j].op = LOCK /\ vec[j].sem = s

(* NoOrphans, of every set closed under "child of": by induction on steps.  *)
Closed(S) == \A x \in live : parent[x] \in S => x \in S

Descended ==
  live # {} => Root \in live /\ \A S \in SUBSET Proc : Root \in S /\ Closed(S) => live \subseteq S

(* The timer runs for the processes that wait for the pseudo-clock, too. *)
ClockRuns == q[PClock].mem # {} => timer # "off"

(* A device works for one process at a time, and only that one waits for it. *)
DeviceOwner ==
  /\ \A d \in Dev : \A p \in q[d].mem : io[p] = d
  /\ \A p, r \in Proc : io[p] # None /\ io[p] = io[r] => p = r
  /\ \A p \in Proc : io[p] # None => p \in live

(* Conjoined with TypeOK and the safety properties of Nucleus, inductive. *)
Inv ==
  /\ TypeOK /\ Queues(q)
  /\ Accounting /\ NoLostProcess /\ ReadyOrBlocked /\ WaitsFor
  /\ Preemptible /\ ClockRuns /\ CallState /\ Descended
  /\ HonestHalt /\ IdleIsWakeable
  /\ DeviceHandshake /\ DeviceOwner

-----------------------------------------------------------------------------
(* The link of an entry that is used for queue k: insertProc takes the first *)
(* one it has left, the caller of SYS3 is on the ready queue with the first. *)
LinkFor(k) == IF k \in Sem THEN 1 ELSE 0

(* The links with which p is on other queues than k. *)
LinksTaken(p, k) == {LinkFor(j) : j \in {j \in Queue \ {k} : p \in q[j].mem}}

(* All the entries of a queue are on it with the same link, as procq.c needs *)
(* (removeProc takes the index of the tail for that of the head): whoever   *)
(* comes on a queue, or goes to its back, has just the links before that    *)
(* one in use.  It is so under programs that never P twice in a vector.     *)
OneLinkPerQueue ==
  [][\A k \in Queue : \A p \in q'[k].mem :
       \/ p \in q[k].mem /\ q'[k].ahead[p] \subseteq q[k].ahead[p]
       \/ LinksTaken(p, k)' = 0 .. LinkFor(k) - 1]_vars
=============================================================================
