---------------------------- MODULE ProcQueueSpec ----------------------------
(***************************************************************************)
(* What src/queues/procq.c promises its callers: every queue is a FIFO of  *)
(* process table entries from which any entry can also be taken out, and   *)
(* the entries that nobody uses wait on a free list, first freed first     *)
(* reused.  Nucleus is written with these queues.                          *)
(***************************************************************************)
EXTENDS Fifo

CONSTANTS Queue, ENULL

VARIABLES
  queue,      \* the contents of every queue
  free,       \* the free list
  ret         \* the result of the last call, ENULL if it has none

vars == <<queue, free, ret>>

Init == /\ queue = [k \in Queue |-> EmptyFifo]
        /\ free \in Fifo /\ free.mem = Proc /\ Ordered(free)
        /\ ret = ENULL

TakeOut(k, p) == /\ ret' = p
                 /\ queue' = [queue EXCEPT ![k] = Remove(@, {p})]
                 /\ UNCHANGED free

Nothing == ret' = ENULL /\ UNCHANGED <<queue, free>>

insertProc(k, p) ==
  /\ ret' = ENULL
  /\ p \notin free.mem \cup queue[k].mem
  /\ queue' = [queue EXCEPT ![k] = Insert(@, p)]
  /\ UNCHANGED free

removeProc(k) ==
  IF queue[k].mem = {} THEN Nothing ELSE TakeOut(k, Front(queue[k]))

outProc(k, p) == IF p \in queue[k].mem THEN TakeOut(k, p) ELSE Nothing

allocProc ==
  IF free.mem = {} THEN Nothing
  ELSE /\ ret' = Front(free)
       /\ free' = Remove(free, {Front(free)})
       /\ UNCHANGED queue

freeProc(p) ==
  /\ ret' = ENULL
  /\ p \notin free.mem /\ \A k \in Queue : p \notin queue[k].mem
  /\ free' = Insert(free, p)
  /\ UNCHANGED queue

Next == \/ \E k \in Queue : removeProc(k)
        \/ \E k \in Queue, p \in Proc : insertProc(k, p) \/ outProc(k, p)
        \/ allocProc
        \/ \E p \in Proc : freeProc(p)

Spec == Init /\ [][Next]_vars
=============================================================================
