------------------------------ MODULE ProcTree ------------------------------
(***************************************************************************)
(* The tree of processes as src/nucleus/traps/syscall.c keeps it in the    *)
(* process table: an entry has a pointer to its parent (parent in Nucleus), *)
(* its first child and its next sibling.  createproc appends to a list of  *)
(* children, killproc takes the caller out of one, killprocrecurse walks   *)
(* all the lists below the caller.                                         *)
(***************************************************************************)
EXTENDS Nucleus

VARIABLES
  child,      \* proc_t.children_proc
  sibling     \* proc_t.sibling_proc

treeVars == <<child, sibling>>

TreeInit == child = [p \in Proc |-> None] /\ sibling = [p \in Proc |-> None]

-----------------------------------------------------------------------------
(* The entries that a walk from c meets, which goes on from each of them to *)
(* those of its links.                                                      *)
Reached(c, links) ==
  LET R[S \in SUBSET Proc] ==
        LET T == S \cup UNION {links[x] : x \in S} IN IF T = S THEN S ELSE R[T]
  IN  R[{c} \ {None}]

(* The list that begins with c. *)
List(c) == Reached(c, [x \in Proc |-> {sibling[x]} \ {None}])

(* Mutant: a child takes the place of the one before it. *)
LinkFirst(c) == child' = [child EXCEPT ![Caller] = c] /\ UNCHANGED sibling

(* createproc: c becomes the last child of the caller. *)
Link(c) ==
  IF child[Caller] = None
  THEN child' = [child EXCEPT ![Caller] = c] /\ UNCHANGED sibling
  ELSE LET last == CHOOSE b \in List(child[Caller]) : sibling[b] = None
       IN  sibling' = [sibling EXCEPT ![last] = c] /\ UNCHANGED child

(* killprocrecurse: what hangs below a first child. *)
Descend(c) == Reached(c, [x \in Proc |-> {child[x], sibling[x]} \ {None}])

(* Mutant: killproc takes the caller alone. *)
Alone(p) == {p}

Family(p) == {p} \cup Descend(child[p])

(* Mutant: the children before the caller still lead to it. *)
UnlinkFirst(K) ==
  LET pp == parent[Caller]
  IN  /\ child' = [x \in Proc |-> IF x \in K THEN None
                                  ELSE IF x = pp /\ child[x] = Caller THEN sibling[Caller]
                                  ELSE child[x]]
      /\ sibling' = [x \in Proc |-> IF x \in K THEN None ELSE sibling[x]]

(* killproc: the caller leaves the list of its parent, of which it is the   *)
(* first or follows another child; the entries of its family K are reset.  *)
Unlink(K) ==
  LET p  == Caller
      pp == parent[p]
      before == IF pp = None THEN {} ELSE {b \in List(child[pp]) : sibling[b] = p}
  IN  /\ child' = [x \in Proc |-> IF x \in K THEN None
                                  ELSE IF x = pp /\ child[x] = p THEN sibling[p] ELSE child[x]]
      /\ sibling' = [x \in Proc |-> IF x \in K THEN None
                                    ELSE IF x \in before THEN sibling[p] ELSE sibling[x]]

-----------------------------------------------------------------------------
(* The lists and the pointers to the parents describe the same tree, of the *)
(* live processes alone: SYS2 kills the descendants of its caller and       *)
(* nobody else, although entries are freed and used again all the time.     *)
TreeTrue ==
  /\ \A p \in Proc : \A c \in List(child[p]) : c \in live /\ parent[c] = p
  /\ \A c \in live : parent[c] # None => c \in List(child[parent[c]])
=============================================================================
