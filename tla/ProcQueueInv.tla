---------------------------- MODULE ProcQueueInv ----------------------------
(***************************************************************************)
(* The inductive invariant of ProcQueue: where every link of every entry   *)
(* leads, in terms of the queues and the free list that the links stand    *)
(* for, and of the link S[k][p] that entry p is on queue k with.           *)
(***************************************************************************)
EXTENDS ProcQueue

(* The entries of q that are ahead of the one that the link of p leads to.  *)
AheadOfNext(q, p) ==
  IF q.ahead[p] \cup {p} = q.mem THEN {} ELSE q.ahead[p] \cup {p}

(* The links s[p] of the members p of q lead round in the order of q, each  *)
(* to the link of the next one, and t leads to the last one.                *)
Ring(q, t, s) ==
  /\ IF q.mem = {} THEN t = Null
     ELSE t.next \in q.mem /\ t.index = s[t.next] /\ q.ahead[t.next] = q.mem \ {t.next}
  /\ \A p \in q.mem :
       /\ link[p][s[p]].next \in q.mem
       /\ link[p][s[p]].index = s[link[p][s[p]].next]
       /\ q.ahead[link[p][s[p]].next] = AheadOfNext(q, p)

(* The links 0 of the members of q lead down in the order of q. *)
Chain(q) ==
  /\ IF q.mem = {} THEN procFree_h = ENULL
     ELSE procFree_h \in q.mem /\ q.ahead[procFree_h] = {}
  /\ \A p \in q.mem :
       /\ link[p][0].index = ENULL
       /\ IF q.ahead[p] \cup {p} = q.mem THEN link[p][0].next = ENULL
          ELSE /\ link[p][0].next \in q.mem
               /\ q.ahead[link[p][0].next] = q.ahead[p] \cup {p}

(* Every queue that an entry is on has a link of its own, the one that      *)
(* SlotOf says if it says one.                                              *)
LinksOf(Q, S) ==
  /\ S \in [Queue -> [Proc -> Slot]]
  /\ \A k \in Queue : SlotOf[k] # Any => \A p \in Q[k].mem : S[k][p] = SlotOf[k]
  /\ \A k, j \in Queue : k # j => \A p \in Q[k].mem \cap Q[j].mem : S[k][p] # S[j][p]

(* The links lead round the queues Q and down the free list F, the number   *)
(* of queues that an entry is on is qcount, and every other link is clear.  *)
Linked(Q, F, S) ==
  /\ tail \in [Queue -> Link] /\ link \in [Proc -> [Slot -> Link]]
  /\ Q \in [Queue -> Promise!Fifo] /\ \A k \in Queue : Promise!Ordered(Q[k])
  /\ F \in Promise!Fifo /\ Promise!Ordered(F)
  /\ LinksOf(Q, S)
  /\ \A k \in Queue : Ring(Q[k], tail[k], S[k]) /\ Q[k].mem \cap F.mem = {}
  /\ Chain(F)
  /\ \A p \in Proc, s \in Slot :
       (\A k \in Queue : p \in Q[k].mem => S[k][p] # s) /\ (s = 0 => p \notin F.mem)
         => link[p][s] = Null
  /\ \A p \in Proc : qcount[p] = Cardinality({k \in Queue : p \in Q[k].mem})

LinkInv ==
  /\ \E S \in [Queue -> [Proc -> Slot]] : Linked(queueOf, freeOf, S)
  /\ qcount \in [Proc -> Nat] /\ ret \in Proc \cup {ENULL}
=============================================================================
