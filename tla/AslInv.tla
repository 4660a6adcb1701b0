------------------------------- MODULE AslInv -------------------------------
(***************************************************************************)
(* The inductive invariant of Asl: where the links of every descriptor     *)
(* lead, and what the vector of every process has in it, in terms of the   *)
(* descriptors whose queue is not empty.                                   *)
(***************************************************************************)
EXTENDS Asl

(* From head on, next leads through the members of M in the order of their  *)
(* keys.                                                                    *)
Follows(M, key, head, next) ==
  /\ \A d \in M : key[d] \in Int /\ \A e \in M : key[d] = key[e] => d = e
  /\ M = {} => head = ENULL
  /\ M # {} => head \in M /\ \A e \in M : key[head] <= key[e]
  /\ \A d \in M :
       /\ next[d] = ENULL => \A e \in M : key[e] <= key[d]
       /\ next[d] # ENULL => /\ next[d] \in M /\ key[d] < key[next[d]]
                             /\ \A e \in M : key[e] <= key[d] \/ key[next[d]] <= key[e]

(* prev leads the other way. *)
LeadsBack(M, head, next, prev) ==
  \A d \in M : /\ d = head => prev[d] = ENULL
               /\ d # head => prev[d] \in M /\ next[prev[d]] = d

(* The descriptors M are on the active list, by address, and the others are *)
(* on the free list, in some order g.                                       *)
Listed(S, M, g) ==
  /\ S \in Table /\ M \in SUBSET Desc
  /\ \A d \in M : S.addr[d] \in Addr
  /\ Follows(M, S.addr, S.head, S.next)
  /\ LeadsBack(M, S.head, S.next, S.prev)
  /\ Follows(Desc \ M, g, S.free, S.next)

(* The vector v of p has in it, once each, the semaphores that p waits for. *)
Waits(S, M, p, v) ==
  /\ v \in Vector
  /\ \A a \in Addr : (\E s \in 1 .. SEMMAX : v[s] = a) <=>
                     (\E d \in M : S.addr[d] = a /\ p \in S.link[d].mem)
  /\ \A s, t \in 1 .. SEMMAX : v[s] = v[t] /\ v[s] # ENULL => s = t

Active(S) == {d \in Desc : S.link[d].mem # {}}

ListInv ==
  /\ \E g \in [Desc -> Int] : Listed(semd, Active(semd), g)
  /\ \A d \in Desc : Ordered(semd.link[d])
  /\ semvec \in [Proc -> Vector]
  /\ \A p \in Proc : Waits(semd, Active(semd), p, semvec[p])
  /\ credit \in [Addr -> Nat] /\ ret \in Proc \cup BOOLEAN \cup {ENULL}
=============================================================================
