----------------------------- MODULE ProcTreeInv -----------------------------
(***************************************************************************)
(* The inductive invariant of ProcTree: the links of the live entries are   *)
(* the tree that their pointers to their parents describe.                 *)
(***************************************************************************)
EXTENDS ProcTree, Integers

Kids(p) == {c \in live : parent[c] = p}

(* From first on, next leads through the members of M in the order of rank. *)
InLine(M, rank, first, next) ==
  /\ \A c \in M : rank[c] \in Int /\ \A d \in M : rank[c] = rank[d] => c = d
  /\ M = {} => first = None
  /\ M # {} => first \in M /\ \A c \in M : rank[first] <= rank[c]
  /\ \A c \in M :
       /\ next[c] = None => \A d \in M : rank[d] <= rank[c]
       /\ next[c] # None => /\ next[c] \in M /\ rank[c] < rank[next[c]]
                            /\ \A d \in M : rank[d] <= rank[c] \/ rank[next[c]] <= rank[d]

(* The children of an entry are in one list, in the order in which they were *)
(* created; what is not a child is in no list.                              *)
TreeInv ==
  /\ child \in [Proc -> Proc \cup {None}] /\ sibling \in [Proc -> Proc \cup {None}]
  /\ \E rank \in [Proc -> Int] : \A p \in Proc : InLine(Kids(p), rank, child[p], sibling)
  /\ \A c \in Proc : c \notin live \/ parent[c] = None => sibling[c] = None
  /\ \A c \in live : parent[c] \in live \cup {None}
  /\ parent[Root] = None
=============================================================================
