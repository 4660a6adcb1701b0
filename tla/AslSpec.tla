------------------------------- MODULE AslSpec -------------------------------
(***************************************************************************)
(* What src/queues/asl.c promises the nucleus: the queue of the processes  *)
(* that wait for each semaphore, for as many semaphores at a time as there *)
(* are descriptors, and that a process is taken out of all its queues, the *)
(* P's undone, when it is killed.  Nucleus is written with these queues.   *)
(***************************************************************************)
EXTENDS Naturals, Fifo

CONSTANTS Addr, Desc, ENULL

VARIABLES
  waiting,    \* the processes that wait for every semaphore
  credit,     \* how often the last call has incremented every semaphore
  ret         \* the result of the last call

vars == <<waiting, credit, ret>>

Init == waiting = [a \in Addr |-> EmptyFifo] /\ credit = [a \in Addr |-> 0] /\ ret = ENULL

insertBlocked(a, p) ==
  /\ p \notin waiting[a].mem
  /\ IF waiting[a].mem = {} /\ Cardinality({b \in Addr : waiting[b].mem # {}}) = Cardinality(Desc)
     THEN ret' = TRUE /\ UNCHANGED waiting
     ELSE ret' = FALSE /\ waiting' = [waiting EXCEPT ![a] = Insert(@, p)]
  /\ credit' = [b \in Addr |-> 0]

removeBlocked(a) ==
  /\ IF waiting[a].mem = {}
     THEN ret' = ENULL /\ UNCHANGED waiting
     ELSE /\ ret' = Front(waiting[a])
          /\ waiting' = [waiting EXCEPT ![a] = Remove(@, {ret'})]
  /\ credit' = [b \in Addr |-> 0]

outBlocked(p) ==
  LET on == {a \in Addr : p \in waiting[a].mem}
  IN  /\ waiting' = [a \in Addr |-> IF a \in on THEN Remove(waiting[a], {p}) ELSE waiting[a]]
      /\ credit' = [a \in Addr |-> IF a \in on THEN 1 ELSE 0]
      /\ ret' = IF on = {} THEN ENULL ELSE p

Next == \/ \E a \in Addr : removeBlocked(a)
        \/ \E a \in Addr, p \in Proc : insertBlocked(a, p)
        \/ \E p \in Proc : outBlocked(p)

Spec == Init /\ [][Next]_vars
=============================================================================
