-------------------------- MODULE MCProcQueueSlots --------------------------
(* The queues when an entry goes on each with the first link it has left.   *)
EXTENDS ProcQueue

CONSTANTS RQ, s1, s2

AnySlotOf == [k \in Queue |-> Any]

(* The calls of semop with vectors of several P's: the running process is    *)
(* put on a semaphore, leaves the ready queue, is released by V's, and is    *)
(* ready again when it is on no queue.                                       *)
SemopNext ==
  \/ \E s \in Queue \ {RQ} :
       removeProc(s) \/ (tail[RQ] # Null /\ insertProc(s, Follow(tail[RQ]).next))
  \/ removeProc(RQ)
  \/ allocProc
  \/ \E p \in Proc : qcount[p] = 0 /\ insertProc(RQ, p)

SemopSpec == Init /\ [][SemopNext]_vars
=============================================================================
