-------------------------------- MODULE Fifo --------------------------------
(***************************************************************************)
(* A first-in first-out queue of process table entries, as the callers of  *)
(* src/queues/procq.c see it.  The order of a queue is kept as, for every  *)
(* entry, the set of the entries that were inserted before it and are      *)
(* still there: a representation in which an entry may leave from          *)
(* anywhere, as outProc requires, without renumbering the others.          *)
(*                                                                         *)
(* ProcQueue is the linked representation of the code; it implements the   *)
(* operators of this module as long as no head leaves from behind a tail   *)
(* that uses another p_link slot for the queue.                            *)
(***************************************************************************)
EXTENDS FiniteSets

CONSTANT Proc                       \* the entries of procTable

Fifo == [mem : SUBSET Proc, ahead : [Proc -> SUBSET Proc]]

EmptyFifo == [mem |-> {}, ahead |-> [p \in Proc |-> {}]]

(* headQueue: the entry with no entry ahead of it (f.mem is not empty). *)
Front(f) == CHOOSE p \in f.mem : f.ahead[p] = {}

(* Mutant: p goes in front of all the entries of f. *)
InsertFirst(f, p) ==
  [mem   |-> f.mem \cup {p},
   ahead |-> [r \in Proc |-> IF r = p THEN {} ELSE IF r \in f.mem THEN f.ahead[r] \cup {p} ELSE {}]]

(* insertProc: p goes behind all the entries of f. *)
Insert(f, p) == [mem   |-> f.mem \cup {p},
                 ahead |-> [f.ahead EXCEPT ![p] = f.mem]]

(* removeProc takes the front out, outProc any entry. *)
Remove(f, K) == [mem   |-> f.mem \ K,
                 ahead |-> [p \in Proc |-> IF p \in K THEN {} ELSE f.ahead[p] \ K]]

(* The entries of f are totally ordered by "inserted before". *)
Ordered(f) ==
  /\ \A p \in Proc : f.ahead[p] \subseteq f.mem /\ (p \notin f.mem => f.ahead[p] = {})
  /\ \A p, r \in f.mem : p # r => (p \in f.ahead[r] <=> r \notin f.ahead[p])
  /\ \A p \in Proc : p \notin f.ahead[p]
  /\ \A p, r \in Proc : p \in f.ahead[r] => f.ahead[p] \subseteq f.ahead[r]
=============================================================================
