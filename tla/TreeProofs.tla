----------------------------- MODULE TreeProofs ------------------------------
(***************************************************************************)
(* The lists of children in the process table are the tree of the          *)
(* processes, so that killproc takes the family that Nucleus says it takes; *)
(* the nucleus that the test programs run on is therefore the one that     *)
(* NucleusProofs is about.                                                 *)
(***************************************************************************)
EXTENDS TestPrograms, ProcTreeInv, MachineProofs

-----------------------------------------------------------------------------
(* Walks.                                                                  *)

IsClosed(S, links) == \A x \in S : links[x] \subseteq S

(* The least set with all of S that is closed under links. *)
Hull(S, links) == {y \in Proc : \A T \in SUBSET Proc : S \subseteq T /\ IsClosed(T, links) => y \in T}

LEMMA HullFacts ==
  ASSUME NEW links \in [Proc -> SUBSET Proc], NEW S \in SUBSET Proc
  PROVE  /\ Hull(S, links) \in SUBSET Proc /\ S \subseteq Hull(S, links)
         /\ IsClosed(Hull(S, links), links)
         /\ \A T \in SUBSET Proc : S \subseteq T /\ IsClosed(T, links) => Hull(S, links) \subseteq T
         /\ IsClosed(S, links) => Hull(S, links) = S
         /\ Hull(S, links) = Hull(S \cup UNION {links[x] : x \in S}, links)
PROOF
<1>1. /\ Hull(S, links) \in SUBSET Proc /\ S \subseteq Hull(S, links)
      /\ IsClosed(Hull(S, links), links)
      /\ \A T \in SUBSET Proc : S \subseteq T /\ IsClosed(T, links) => Hull(S, links) \subseteq T
  BY DEF Hull, IsClosed
<1>2. IsClosed(S, links) => Hull(S, links) = S
  BY <1>1
<1> DEFINE U == S \cup UNION {links[x] : x \in S}
<1>3. \A T \in SUBSET Proc : IsClosed(T, links) => (S \subseteq T <=> U \subseteq T)
  BY DEF IsClosed
<1>4. Hull(S, links) = Hull(U, links)
  <2> HIDE DEF U
  <2> QED BY <1>3 DEF Hull
<1> QED BY <1>1, <1>2, <1>4

(* One round of the walk. *)
Onward(R, links) ==
  [S \in SUBSET Proc |->
     LET T == S \cup UNION {links[x] : x \in S} IN IF T = S THEN S ELSE R[T]]

(* Reached has one meaning: the walk ends, and it has met the hull.         *)
LEMMA WalksMeetHull ==
  ASSUME IsFiniteSet(Proc), NEW links \in [Proc -> SUBSET Proc], NEW R, R = Onward(R, links)
  PROVE  \A S \in SUBSET Proc : R[S] = Hull(S, links)
PROOF
<1> DEFINE W == {S \in SUBSET Proc : R[S] # Hull(S, links)}
           Wc == {Proc \ S : S \in W}
           O == StrictSubsetOrdering(Proc)
<1>1. SUFFICES ASSUME W # {} PROVE FALSE
  OBVIOUS
<1>2. IsWellFoundedOn(O, SUBSET Proc)
  BY FS_StrictSubsetOrderingWellFounded, FS_FiniteSubsetsOfFinite, Zenon
<1>3. PICK x \in Wc : \A y \in Wc : ~ (<<y, x>> \in O)
  <2>1. Wc \subseteq SUBSET Proc /\ Wc # {}
    BY <1>1
  <2> HIDE DEF Wc, O
  <2> QED BY <1>2, <2>1, WFMin
<1>4. PICK S \in W : x = Proc \ S
  BY <1>3
<1> DEFINE T == S \cup UNION {links[y] : y \in S}
<1>5. R[S] = IF T = S THEN S ELSE R[T]
  BY DEF Onward
<1>6. T \in SUBSET Proc /\ Hull(S, links) = Hull(T, links) /\ (T = S => Hull(S, links) = S)
  <2>1. T = S => IsClosed(S, links)
    BY DEF IsClosed
  <2> QED BY <2>1, HullFacts
<1>7. CASE T = S
  BY <1>5, <1>6, <1>7
<1>8. CASE T # S
  <2>1. T \notin W
    <3> SUFFICES ASSUME T \in W PROVE FALSE
      OBVIOUS
    <3>1. Proc \ T \in Wc
      OBVIOUS
    <3>2. <<Proc \ T, Proc \ S>> \in O
      <4>1. S \subseteq T
        OBVIOUS
      <4> HIDE DEF T
      <4> QED BY <1>6, <1>8, <4>1 DEF StrictSubsetOrdering
    <3> QED BY <1>3, <1>4, <3>1, <3>2
  <2>2. R[T] = Hull(T, links)
    BY <1>6, <2>1
  <2> HIDE DEF T
  <2> QED BY <1>5, <1>6, <1>8, <2>2
<1> QED BY <1>7, <1>8

LEMMA ReachedIsHull ==
  ASSUME NEW links \in [Proc -> SUBSET Proc], NEW c \in Proc \cup {None}
  PROVE  Reached(c, links) = Hull({c} \ {None}, links)
PROOF
<1> DEFINE H == [S \in SUBSET Proc |-> Hull(S, links)]
<1>1. H = Onward(H, links)
  <2>1. ASSUME NEW S \in SUBSET Proc PROVE H[S] = Onward(H, links)[S]
    <3> DEFINE T == S \cup UNION {links[x] : x \in S}
    <3>1. T \in SUBSET Proc /\ Hull(S, links) = Hull(T, links) /\ (T = S => Hull(S, links) = S)
      <4>1. T = S => IsClosed(S, links)
        BY DEF IsClosed
      <4> QED BY <4>1, HullFacts
    <3>2. Onward(H, links)[S] = IF T = S THEN S ELSE H[T]
      BY DEF Onward
    <3> HIDE DEF T
    <3> QED BY <3>1, <3>2
  <2> QED BY <2>1 DEF Onward
<1> DEFINE R == CHOOSE f : f = Onward(f, links)
<1>2. R = Onward(R, links)
  <2> HIDE DEF H
  <2> QED BY <1>1
<1>3. Reached(c, links) = R[{c} \ {None}]
  BY DEF Reached, Onward
<1> HIDE DEF R
<1>4. \A S \in SUBSET Proc : R[S] = Hull(S, links)
  BY <1>2, WalksMeetHull, ProcAssumption
<1> QED BY <1>3, <1>4

-----------------------------------------------------------------------------
(* Lines.                                                                  *)

LEMMA HighestExists ==
  ASSUME NEW M, IsFiniteSet(M), M # {}, NEW rank, \A c \in M : rank[c] \in Int
  PROVE  \E b \in M : \A d \in M : rank[d] <= rank[b]
PROOF
<1> DEFINE Above(c) == {d \in M : rank[d] > rank[c]}
           W == {Above(c) : c \in M}
           O == StrictSubsetOrdering(M)
<1>1. IsWellFoundedOn(O, SUBSET M)
  BY FS_StrictSubsetOrderingWellFounded, FS_FiniteSubsetsOfFinite, Zenon
<1>2. PICK x \in W : \A y \in W : ~ (<<y, x>> \in O)
  <2>1. W \subseteq SUBSET M /\ W # {}
    OBVIOUS
  <2> HIDE DEF W, O
  <2> QED BY <1>1, <2>1, WFMin
<1>3. PICK b \in M : x = Above(b)
  BY <1>2
<1>4. ASSUME NEW d \in M, ~(rank[d] <= rank[b]) PROVE FALSE
  <2>1. Above(d) \subseteq Above(b) /\ d \in Above(b) /\ d \notin Above(d)
    BY <1>4
  <2>2. Above(d) \in W /\ Above(d) \in SUBSET M /\ Above(b) \in SUBSET M
    OBVIOUS
  <2> HIDE DEF Above, W
  <2>3. <<Above(d), Above(b)>> \in O
    BY <2>1, <2>2 DEF StrictSubsetOrdering
  <2> QED BY <1>2, <1>3, <2>2, <2>3
<1> QED BY <1>4

LEMMA LowestExists ==
  ASSUME NEW M, IsFiniteSet(M), M # {}, NEW rank, \A c \in M : rank[c] \in Int
  PROVE  \E b \in M : \A d \in M : rank[b] <= rank[d]
PROOF
<1> DEFINE down == [c \in M |-> -rank[c]]
<1>1. PICK b \in M : \A d \in M : down[d] <= down[b]
  <2>1. \A c \in M : down[c] \in Int
    OBVIOUS
  <2> HIDE DEF down
  <2> QED BY <2>1, HighestExists
<1> QED BY <1>1

(* Whoever has the head of a line and follows it has the line.             *)
LEMMA InLineCovers ==
  ASSUME NEW M \in SUBSET Proc, IsFiniteSet(M), NEW rank, NEW first, NEW next,
         InLine(M, rank, first, next), NEW S,
         first \in M => first \in S, \A c \in M \cap S : next[c] \in M => next[c] \in S
  PROVE  M \subseteq S
PROOF
<1> DEFINE D == M \ S
<1>1. SUFFICES ASSUME D # {} PROVE FALSE
  OBVIOUS
<1>2. \A c \in M : rank[c] \in Int /\ \A d \in M : rank[c] = rank[d] => c = d
  BY DEF InLine
<1>3. PICK c \in D : \A d \in D : rank[c] <= rank[d]
  <2>1. IsFiniteSet(D) /\ \A d \in D : rank[d] \in Int
    BY <1>2, FS_Subset
  <2> HIDE DEF D
  <2> QED BY <1>1, <2>1, LowestExists
<1> DEFINE B == {b \in M : rank[b] < rank[c]}
<1>4. first \in B
  BY <1>2, <1>3 DEF InLine
<1>5. PICK b \in B : \A d \in B : rank[d] <= rank[b]
  <2>1. IsFiniteSet(B) /\ B # {} /\ \A d \in B : rank[d] \in Int
    BY <1>2, <1>4, FS_Subset
  <2> HIDE DEF B
  <2> QED BY <2>1, HighestExists
<1>6. b \in S /\ b \in M /\ c \in M /\ rank[b] < rank[c]
  BY <1>2, <1>3, <1>5
<1>7. next[b] \in M /\ rank[b] < rank[next[b]] /\ rank[next[b]] <= rank[c]
  BY <1>2, <1>6 DEF InLine
<1>8. next[b] = c
  BY <1>2, <1>5, <1>6, <1>7
<1> QED BY <1>3, <1>6, <1>8

(* A line is what it says of its members. *)
LEMMA InLineSame ==
  ASSUME NEW M, NEW r1, NEW r2, NEW first, NEW n1, NEW n2, InLine(M, r1, first, n1),
         \A c \in M : r2[c] = r1[c] /\ n2[c] = n1[c]
  PROVE  InLine(M, r2, first, n2)
PROOF BY DEF InLine

LEMMA InLineEmpty == ASSUME NEW rank, NEW next PROVE InLine({}, rank, None, next)
PROOF BY DEF InLine

LEMMA InLineAlone ==
  ASSUME NEW c \in Proc, NEW rank, NEW next, rank[c] \in Int, next[c] = None
  PROVE  InLine({c}, rank, c, next)
PROOF BY DEF InLine

(* c goes to the end of a line. *)
LEMMA InLineAppend ==
  ASSUME NEW M \in SUBSET Proc, NEW r1, NEW r2, NEW first, NEW n1, NEW n2,
         InLine(M, r1, first, n1), NEW last \in M, n1[last] = None, NEW c \in Proc \ M,
         r2[c] = r1[last] + 1, n2[c] = None, n2[last] = c,
         \A d \in M : r2[d] = r1[d], \A d \in M \ {last} : n2[d] = n1[d]
  PROVE  InLine(M \cup {c}, r2, first, n2)
PROOF
<1> DEFINE N == M \cup {c}
<1>1. /\ \A d \in M : r1[d] \in Int /\ r1[d] <= r1[last] /\ \A e \in M : r1[d] = r1[e] => d = e
      /\ first \in M /\ \A d \in M : r1[first] <= r1[d]
  BY DEF InLine
<1>2. \A d \in N : r2[d] \in Int /\ \A e \in N : r2[d] = r2[e] => d = e
  BY <1>1
<1>3. N # {} /\ first \in N /\ \A d \in N : r2[first] <= r2[d]
  BY <1>1
<1>4. ASSUME NEW d \in N
      PROVE  /\ n2[d] = None => \A e \in N : r2[e] <= r2[d]
             /\ n2[d] # None => /\ n2[d] \in N /\ r2[d] < r2[n2[d]]
                                /\ \A e \in N : r2[e] <= r2[d] \/ r2[n2[d]] <= r2[e]
  <2>1. CASE d = c
    BY <1>1, <2>1
  <2>2. CASE d = last
    BY <1>1, <2>2, ProcAssumption
  <2>3. CASE d \in M \ {last}
    <3>1. n1[d] # None
      BY <1>1, <2>3 DEF InLine
    <3>2. /\ n1[d] \in M /\ r1[d] < r1[n1[d]]
          /\ \A e \in M : r1[e] <= r1[d] \/ r1[n1[d]] <= r1[e]
      BY <2>3, <3>1 DEF InLine
    <3> QED BY <1>1, <2>3, <3>1, <3>2
  <2> QED BY <2>1, <2>2, <2>3
<1> HIDE DEF N
<1>5. InLine(N, r2, first, n2)
  BY <1>2, <1>3, <1>4 DEF InLine
<1> QED BY <1>5 DEF N

(* x leaves a line, whoever was before it goes before the next.            *)
LEMMA InLineSkip ==
  ASSUME NEW M \in SUBSET Proc, NEW rank, NEW first, NEW n1, InLine(M, rank, first, n1),
         NEW x \in M, NEW head, NEW n2,
         first = x => head = n1[x], first # x => head = first,
         \A d \in M \ {x} : (n1[d] = x => n2[d] = n1[x]) /\ (n1[d] # x => n2[d] = n1[d])
  PROVE  InLine(M \ {x}, rank, head, n2)
PROOF
<1> DEFINE N == M \ {x}
<1>1. /\ \A d \in M : rank[d] \in Int /\ \A e \in M : rank[d] = rank[e] => d = e
      /\ first \in M /\ \A d \in M : rank[first] <= rank[d]
      /\ None \notin M
  BY ProcAssumption DEF InLine
<1>2. \A d \in M : n1[d] = None => \A e \in M : rank[e] <= rank[d]
  BY DEF InLine
<1>3. \A d \in M : n1[d] # None => /\ n1[d] \in M /\ rank[d] < rank[n1[d]]
                                   /\ \A e \in M : rank[e] <= rank[d] \/ rank[n1[d]] <= rank[e]
  BY DEF InLine
<1>4. N = {} => head = None
  BY <1>1, <1>3
<1>5. N # {} => head \in N /\ \A c \in N : rank[head] <= rank[c]
  <2>1. CASE first # x
    BY <1>1, <2>1
  <2>2. CASE first = x
    <3> SUFFICES ASSUME N # {} PROVE head \in N /\ \A c \in N : rank[head] <= rank[c]
      OBVIOUS
    <3>1. \A c \in N : rank[x] < rank[c]
      BY <1>1, <2>2
    <3>2. n1[x] # None
      BY <1>1, <1>2, <3>1
    <3> QED BY <1>1, <1>3, <2>2, <3>1, <3>2
  <2> QED BY <2>1, <2>2
<1>6. ASSUME NEW c \in N
      PROVE  /\ n2[c] = None => \A d \in N : rank[d] <= rank[c]
             /\ n2[c] # None => /\ n2[c] \in N /\ rank[c] < rank[n2[c]]
                                /\ \A d \in N : rank[d] <= rank[c] \/ rank[n2[c]] <= rank[d]
  <2>1. CASE n1[c] # x
    BY <1>1, <1>2, <1>3, <2>1
  <2>2. CASE n1[c] = x
    <3>1. rank[c] < rank[x] /\ \A d \in N : rank[d] <= rank[c] \/ rank[x] < rank[d]
      BY <1>1, <1>3, <2>2
    <3>2. n2[c] = n1[x]
      BY <2>2
    <3>3. CASE n1[x] = None
      BY <1>1, <1>2, <3>1, <3>2, <3>3
    <3>4. CASE n1[x] # None
      <4>1. n1[x] \in N /\ rank[x] < rank[n1[x]]
            /\ \A d \in N : rank[d] <= rank[x] \/ rank[n1[x]] <= rank[d]
        BY <1>1, <1>3, <3>4
      <4> QED BY <1>1, <3>1, <3>2, <3>4, <4>1
    <3> QED BY <3>3, <3>4
  <2> QED BY <2>1, <2>2
<1>7. \A d \in N : rank[d] \in Int /\ \A e \in N : rank[d] = rank[e] => d = e
  BY <1>1
<1> HIDE DEF N
<1>8. InLine(N, rank, head, n2)
  BY <1>4, <1>5, <1>6, <1>7 DEF InLine
<1> QED BY <1>8 DEF N

-----------------------------------------------------------------------------
(* The lists and the subtrees.                                             *)

LEMMA KidsFacts ==
  ASSUME Inv, TreeInv, NEW p \in Proc
  PROVE  /\ Kids(p) \in SUBSET Proc /\ IsFiniteSet(Kids(p)) /\ child[p] \in Proc \cup {None}
         /\ child[p] # None => child[p] \in Kids(p)
         /\ \A c \in Kids(p) : sibling[c] # None => sibling[c] \in Kids(p)
         /\ \A S : (child[p] # None => child[p] \in S) /\
                  (\A c \in Kids(p) \cap S : sibling[c] # None => sibling[c] \in S) => Kids(p) \subseteq S
PROOF
<1>1. Kids(p) \in SUBSET Proc /\ IsFiniteSet(Kids(p)) /\ child[p] \in Proc \cup {None}
  BY FS_Subset, ProcAssumption DEF Kids, Inv, TypeOK, TreeInv
<1>2. PICK rank \in [Proc -> Int] : InLine(Kids(p), rank, child[p], sibling)
  BY DEF TreeInv
<1>3. /\ child[p] # None => child[p] \in Kids(p)
      /\ \A c \in Kids(p) : sibling[c] # None => sibling[c] \in Kids(p)
  BY <1>2 DEF InLine
<1>4. ASSUME NEW S, child[p] # None => child[p] \in S,
             \A c \in Kids(p) \cap S : sibling[c] # None => sibling[c] \in S
      PROVE  Kids(p) \subseteq S
  <2>1. None \notin Kids(p)
    BY <1>1, ProcAssumption
  <2> QED BY <1>1, <1>2, <1>4, <2>1, InLineCovers
<1> QED BY <1>1, <1>3, <1>4

(* The list of an entry has its children. *)
LEMMA ListIsKids == ASSUME Inv, TreeInv, NEW p \in Proc PROVE List(child[p]) = Kids(p)
PROOF
<1> DEFINE links == [x \in Proc |-> {sibling[x]} \ {None}]
           H == Hull({child[p]} \ {None}, links)
<1>1. links \in [Proc -> SUBSET Proc] /\ {child[p]} \ {None} \in SUBSET Proc
  BY DEF TreeInv
<1>2. List(child[p]) = H
  <2>1. List(child[p]) = Reached(child[p], links)
    BY DEF List
  <2> HIDE DEF links
  <2> QED BY <1>1, <2>1, KidsFacts, ReachedIsHull
<1>3. /\ H \in SUBSET Proc /\ {child[p]} \ {None} \subseteq H /\ IsClosed(H, links)
      /\ \A T \in SUBSET Proc : {child[p]} \ {None} \subseteq T /\ IsClosed(T, links) => H \subseteq T
  <2> DEFINE S == {child[p]} \ {None}
  <2> HIDE DEF links, S
  <2>1. S \in SUBSET Proc
    BY <1>1 DEF S
  <2>2. H = Hull(S, links)
    BY DEF S
  <2> HIDE DEF H
  <2>3. /\ H \in SUBSET Proc /\ S \subseteq H /\ IsClosed(H, links)
        /\ \A T \in SUBSET Proc : S \subseteq T /\ IsClosed(T, links) => H \subseteq T
    BY <1>1, <2>1, <2>2, HullFacts
  <2> QED BY <2>3 DEF S
<1>4. H \subseteq Kids(p)
  <2>1. IsClosed(Kids(p), links)
    BY KidsFacts DEF IsClosed
  <2> HIDE DEF links, H
  <2> QED BY <1>3, <2>1, KidsFacts
<1>5. Kids(p) \subseteq H
  <2>1. \A c \in H : sibling[c] # None => sibling[c] \in H
    BY <1>3 DEF IsClosed
  <2> HIDE DEF links, H
  <2> QED BY <1>3, <2>1, KidsFacts
<1> QED BY <1>2, <1>4, <1>5

LEMMA TreeInvIsTrue == Inv /\ TreeInv => TreeTrue
PROOF
<1> SUFFICES ASSUME Inv, TreeInv PROVE TreeTrue
  OBVIOUS
<1>1. \A p \in Proc : List(child[p]) = Kids(p)
  BY ListIsKids
<1>2. \A c \in live : c \in Proc /\ (parent[c] # None => parent[c] \in Proc)
  BY DEF Inv, TypeOK
<1> QED BY <1>1, <1>2 DEF TreeTrue, Kids

(* The descendants of p are live, and their parents are p or descendants.   *)
LEMMA SubtreeMembers ==
  ASSUME Inv, NEW p \in Proc
  PROVE  \A x \in Subtree(p) \ {p} : x \in live /\ parent[x] \in Subtree(p)
PROOF
<1> DEFINE S == {p} \cup {x \in live : x \in Subtree(p) /\ parent[x] \in Subtree(p)}
<1>1. live \subseteq Proc
  BY DEF Inv, TypeOK
<1>2. /\ p \in Subtree(p) /\ Subtree(p) \subseteq Proc /\ Closed(Subtree(p))
      /\ \A T \in SUBSET Proc : p \in T /\ Closed(T) => Subtree(p) \subseteq T
  BY <1>1, SubtreeFacts
<1>3. Closed(S)
  BY <1>2 DEF Closed
<1>4. S \in SUBSET Proc /\ p \in S
  BY <1>1
<1>5. Subtree(p) \subseteq S
  <2> HIDE DEF S
  <2> QED BY <1>2, <1>3, <1>4
<1> QED BY <1>5

(* Nobody descends from itself. *)
LEMMA ParentOutside == ASSUME Inv, TreeInv, NEW p \in live PROVE parent[p] \notin Subtree(p)
PROOF
<1> SUFFICES ASSUME parent[p] \in Subtree(p) PROVE FALSE
  OBVIOUS
<1> DEFINE S == live \ Subtree(p)
<1>1. live \subseteq Proc /\ Root \in live /\ parent[Root] = None /\ None \notin Proc
  BY ProcAssumption DEF Inv, TypeOK, TreeInv, Descended
<1>2. p \in Subtree(p) /\ Subtree(p) \subseteq Proc
  BY <1>1, SubtreeFacts
<1>3. \A x \in Subtree(p) : parent[x] \in Subtree(p)
  BY <1>1, SubtreeMembers
<1>4. Root \notin Subtree(p)
  BY <1>1, <1>2, <1>3
<1>5. Closed(S)
  BY <1>3 DEF Closed
<1>6. live \subseteq S
  <2>1. S \in SUBSET Proc /\ Root \in S
    BY <1>1, <1>4
  <2> HIDE DEF S
  <2> QED BY <1>1, <1>5, <2>1 DEF Inv, Descended
<1> QED BY <1>2, <1>6

(* killprocrecurse takes the subtree of the caller. *)
LEMMA FamilyIsSubtree == ASSUME Inv, TreeInv, NEW p \in live PROVE Family(p) = Subtree(p)
PROOF
<1> DEFINE links == [x \in Proc |-> {child[x], sibling[x]} \ {None}]
           H == Hull({child[p]} \ {None}, links)
           F == {p} \cup H
<1>1. /\ p \in Proc /\ live \subseteq Proc /\ None \notin Proc
      /\ links \in [Proc -> SUBSET Proc] /\ {child[p]} \ {None} \in SUBSET Proc
      /\ \A x \in live : parent[x] \in live \cup {None}
      /\ \A x \in live : parent[x] = None => sibling[x] = None
  BY ProcAssumption DEF TreeInv, Inv, TypeOK
<1>2. Family(p) = F
  <2>1. Family(p) = {p} \cup Reached(child[p], links)
    BY DEF Family, Descend
  <2> HIDE DEF links
  <2> QED BY <1>1, <2>1, KidsFacts, ReachedIsHull
<1>3. /\ H \in SUBSET Proc /\ {child[p]} \ {None} \subseteq H /\ IsClosed(H, links)
      /\ \A T \in SUBSET Proc : {child[p]} \ {None} \subseteq T /\ IsClosed(T, links) => H \subseteq T
  <2> DEFINE S == {child[p]} \ {None}
  <2> HIDE DEF links, S
  <2>1. S \in SUBSET Proc
    BY <1>1 DEF S
  <2>2. H = Hull(S, links)
    BY DEF S
  <2> HIDE DEF H
  <2>3. /\ H \in SUBSET Proc /\ S \subseteq H /\ IsClosed(H, links)
        /\ \A T \in SUBSET Proc : S \subseteq T /\ IsClosed(T, links) => H \subseteq T
    BY <1>1, <2>1, <2>2, HullFacts
  <2> QED BY <2>3 DEF S
<1>4. /\ p \in Subtree(p) /\ Subtree(p) \subseteq Proc /\ Closed(Subtree(p))
      /\ \A T \in SUBSET Proc : p \in T /\ Closed(T) => Subtree(p) \subseteq T
      /\ parent[p] \notin Subtree(p)
      /\ \A x \in Subtree(p) \ {p} : x \in live /\ parent[x] \in Subtree(p)
  BY <1>1, SubtreeFacts, SubtreeMembers, ParentOutside
<1>5. H \subseteq Subtree(p)
  <2> DEFINE T == Subtree(p) \ {p}
  <2>1. ASSUME NEW x \in Subtree(p), child[x] # None PROVE child[x] \in T
    <3>1. child[x] \in Kids(x)
      BY <1>4, <2>1, KidsFacts
    <3> QED BY <1>4, <3>1 DEF Kids, Closed
  <2>2. ASSUME NEW x \in T, sibling[x] # None PROVE sibling[x] \in T
    <3>1. x \in live /\ parent[x] \in Subtree(p) /\ parent[x] \in Proc /\ x \in Kids(parent[x])
      BY <1>4 DEF Kids
    <3>2. sibling[x] \in Kids(parent[x])
      BY <2>2, <3>1, KidsFacts
    <3> QED BY <1>4, <3>1, <3>2 DEF Kids, Closed
  <2>3. IsClosed(T, links)
    BY <1>4, <2>1, <2>2 DEF IsClosed
  <2>4. {child[p]} \ {None} \subseteq T /\ T \in SUBSET Proc
    BY <1>4, <2>1
  <2> HIDE DEF links, H
  <2> QED BY <1>3, <2>3, <2>4
<1>6. ASSUME NEW x \in F PROVE Kids(x) \subseteq H
  <2>1. x \in Proc
    BY <1>1, <1>3
  <2>2. child[x] # None => child[x] \in H
    BY <1>3, <2>1 DEF IsClosed
  <2>3. \A c \in H : sibling[c] # None => sibling[c] \in H
    BY <1>3 DEF IsClosed
  <2> HIDE DEF links, H
  <2> QED BY <2>1, <2>2, <2>3, KidsFacts
<1>7. Closed(F)
  <2> HIDE DEF H
  <2> QED BY <1>6 DEF Closed, Kids
<1>8. Subtree(p) \subseteq F
  <2> HIDE DEF H
  <2> QED BY <1>1, <1>3, <1>4, <1>7
<1> QED BY <1>2, <1>4, <1>5, <1>8

-----------------------------------------------------------------------------
(* The steps.                                                              *)

LEMMA TreeInitially == TestInit => TreeInv
PROOF
<1> SUFFICES ASSUME TestInit PROVE TreeInv
  OBVIOUS
<1>1. /\ live = {Root} /\ Root \in Proc /\ None \notin Proc
      /\ parent = [p \in Proc |-> None] /\ child = parent /\ sibling = parent
  BY ProcAssumption DEF TestInit, MachineInit, TreeInit, Init
<1>2. \A p \in Proc : Kids(p) = {} /\ child[p] = None
  BY <1>1 DEF Kids
<1> DEFINE rank == [p \in Proc |-> 0]
<1>3. rank \in [Proc -> Int] /\ \A p \in Proc : InLine(Kids(p), rank, child[p], sibling)
  BY <1>2, InLineEmpty
<1> QED BY <1>1, <1>3 DEF TreeInv

LEMMA SameTree == ASSUME TreeInv, UNCHANGED <<live, parent, treeVars>> PROVE TreeInv'
PROOF
<1>1. \A p : Kids(p)' = Kids(p)
  BY DEF Kids
<1> QED BY <1>1 DEF TreeInv, treeVars

(* createproc: the new child is the last in the list of the caller.         *)
LEMMA LinkTree ==
  ASSUME Inv, TreeInv, Caller \in live, NEW c \in Proc \ live, live' = live \cup {c},
         parent' = [parent EXCEPT ![c] = Caller], Link(c)
  PROVE  TreeInv'
PROOF
<1>0. PICK p : p = Caller
  OBVIOUS
<1>1. /\ p \in Proc /\ live \subseteq Proc /\ None \notin Proc /\ Root \in live
      /\ parent \in [Proc -> Proc \cup {None}]
      /\ child \in [Proc -> Proc \cup {None}] /\ sibling \in [Proc -> Proc \cup {None}]
  BY <1>0, ProcAssumption DEF Inv, TypeOK, Descended, TreeInv
<1>2. PICK rank \in [Proc -> Int] : \A x \in Proc : InLine(Kids(x), rank, child[x], sibling)
  BY DEF TreeInv
<1>3. /\ \A x \in Proc : x # p => Kids(x)' = Kids(x)
      /\ Kids(p)' = Kids(p) \cup {c} /\ \A x : c \notin Kids(x)
  BY <1>0, <1>1 DEF Kids
<1>4. sibling[c] = None
  BY DEF TreeInv
<1>7. (\A x \in live' : parent'[x] \in live' \cup {None}) /\ parent'[Root] = None
  BY <1>0, <1>1 DEF TreeInv
<1>5. CASE child[p] = None
  <2>1. child' = [child EXCEPT ![p] = c] /\ sibling' = sibling
    BY <1>0, <1>5 DEF Link
  <2>2. Kids(p)' = {c}
    <3>1. Kids(p) = {}
      BY <1>1, <1>2, <1>5 DEF InLine, Kids
    <3> QED BY <1>3, <3>1
  <2>3. \A x \in Proc : InLine(Kids(x)', rank, child'[x], sibling')
    <3> SUFFICES ASSUME NEW x \in Proc PROVE InLine(Kids(x)', rank, child'[x], sibling')
      OBVIOUS
    <3>1. CASE x = p
      BY <1>1, <1>2, <1>4, <2>1, <2>2, <3>1, InLineAlone
    <3>2. CASE x # p
      BY <1>1, <1>2, <1>3, <2>1, <3>2
    <3> QED BY <3>1, <3>2
  <2>4. \A x \in Proc : x \notin live' \/ parent'[x] = None => sibling'[x] = None
    BY <1>0, <1>1, <1>4, <2>1 DEF TreeInv
  <2>5. child' \in [Proc -> Proc \cup {None}] /\ sibling' \in [Proc -> Proc \cup {None}]
    BY <1>1, <2>1
  <2> QED BY <1>2, <1>7, <2>3, <2>4, <2>5 DEF TreeInv
<1>6. CASE child[p] # None
  <2> DEFINE last == CHOOSE b \in List(child[p]) : sibling[b] = None
  <2>1. sibling' = [sibling EXCEPT ![last] = c] /\ child' = child
    BY <1>0, <1>6 DEF Link
  <2>2. last \in Kids(p) /\ sibling[last] = None
    <3>1. IsFiniteSet(Kids(p)) /\ Kids(p) # {} /\ \A d \in Kids(p) : rank[d] \in Int
      BY <1>1, <1>2, <1>6, KidsFacts
    <3>2. PICK b \in Kids(p) : \A d \in Kids(p) : rank[d] <= rank[b]
      BY <3>1, HighestExists
    <3>3. sibling[b] = None
      BY <1>1, <1>2, <3>1, <3>2 DEF InLine
    <3>4. List(child[p]) = Kids(p)
      BY <1>1, ListIsKids
    <3> QED BY <3>2, <3>3, <3>4
  <2> HIDE DEF last
  <2>3. last \in live /\ last \in Proc /\ parent[last] = p /\ last # c
    BY <1>1, <2>2 DEF Kids
  <2> DEFINE new == [rank EXCEPT ![c] = rank[last] + 1]
  <2>4. /\ new \in [Proc -> Int] /\ new[c] = rank[last] + 1
        /\ \A d \in Proc : d # c => new[d] = rank[d]
    BY <1>2, <2>3
  <2> HIDE DEF new
  <2>5. \A x \in Proc : InLine(Kids(x)', new, child'[x], sibling')
    <3> SUFFICES ASSUME NEW x \in Proc PROVE InLine(Kids(x)', new, child'[x], sibling')
      OBVIOUS
    <3>1. CASE x = p
      <4>1. /\ Kids(p) \in SUBSET Proc /\ InLine(Kids(p), rank, child[p], sibling)
            /\ c \in Proc \ Kids(p) /\ sibling'[c] = None /\ sibling'[last] = c
            /\ \A d \in Kids(p) : new[d] = rank[d]
            /\ \A d \in Kids(p) \ {last} : sibling'[d] = sibling[d]
        BY <1>1, <1>2, <1>3, <1>4, <2>1, <2>3, <2>4, KidsFacts
      <4>2. InLine(Kids(p) \cup {c}, new, child[p], sibling')
        BY <2>2, <2>4, <4>1, InLineAppend
      <4> QED BY <1>3, <2>1, <3>1, <4>2
    <3>2. CASE x # p
      <4>1. \A d \in Kids(x) : new[d] = rank[d] /\ sibling'[d] = sibling[d]
        BY <1>1, <1>3, <2>1, <2>3, <2>4, <3>2 DEF Kids
      <4>2. InLine(Kids(x), new, child[x], sibling')
        BY <1>2, <4>1, InLineSame
      <4> QED BY <1>3, <2>1, <3>2, <4>2
    <3> QED BY <3>1, <3>2
  <2>6. \A x \in Proc : x \notin live' \/ parent'[x] = None => sibling'[x] = None
    BY <1>0, <1>1, <2>1, <2>3 DEF TreeInv
  <2>7. child' \in [Proc -> Proc \cup {None}] /\ sibling' \in [Proc -> Proc \cup {None}]
    BY <1>1, <2>1
  <2> QED BY <1>7, <2>4, <2>5, <2>6, <2>7 DEF TreeInv
<1> QED BY <1>5, <1>6

LEMMA CreateTree == ASSUME Inv, TreeInv, CreateStep PROVE TreeInv'
PROOF
<1>1. /\ cpu = "run" /\ CreateProc
      /\ live' = IF live = Proc THEN live ELSE live \cup {Entry}
      /\ IF live = Proc THEN UNCHANGED treeVars ELSE Link(Entry)
  BY DEF CreateStep, Issues, SYS1
<1>2. live \subseteq Proc /\ Caller \in live
  BY <1>1, CallerLive DEF Inv, TypeOK
<1>3. CASE live = Proc
  BY <1>1, <1>3, SameTree DEF CreateProc
<1>4. CASE live # Proc
  <2>1. Entry \in Proc \ live
    BY <1>2, <1>4 DEF Entry
  <2>2. parent' = [parent EXCEPT ![Entry] = Caller]
    <3>1. PICK c \in Proc \ live : live' = live \cup {c} /\ parent' = [parent EXCEPT ![c] = Caller]
      BY <1>1, <1>4 DEF CreateProc
    <3>2. c = Entry
      BY <1>1, <1>4, <2>1, <3>1
    <3> QED BY <3>1, <3>2
  <2> QED BY <1>1, <1>2, <1>4, <2>1, <2>2, LinkTree
<1> QED BY <1>3, <1>4

(* killproc: the family leaves with its links, the other lists stay.        *)
LEMMA UnlinkTree ==
  ASSUME Inv, TreeInv, Caller \in live, Unlink(Subtree(Caller)),
         live' = live \ Subtree(Caller),
         parent' = [x \in Proc |-> IF x \in Subtree(Caller) THEN None ELSE parent[x]]
  PROVE  TreeInv'
PROOF
<1>0. PICK p, pp : p = Caller /\ pp = parent[p]
  OBVIOUS
<1> DEFINE K == Subtree(p)
           before == IF pp = None THEN {} ELSE {b \in List(child[pp]) : sibling[b] = p}
<1>1. /\ p \in Proc /\ live \subseteq Proc /\ None \notin Proc
      /\ parent \in [Proc -> Proc \cup {None}] /\ pp \in live \cup {None}
      /\ child \in [Proc -> Proc \cup {None}] /\ sibling \in [Proc -> Proc \cup {None}]
      /\ p \in K /\ K \subseteq Proc /\ pp \notin K
      /\ \A x \in live : parent[x] \in K => x \in K
      /\ \A x \in K \ {p} : x \in live /\ parent[x] \in K
  BY <1>0, ProcAssumption, SubtreeFacts, SubtreeMembers, ParentOutside
  DEF Inv, TypeOK, TreeInv, Closed
<1>2. /\ child' = [x \in Proc |-> IF x \in K THEN None
                                  ELSE IF x = pp /\ child[x] = p THEN sibling[p] ELSE child[x]]
      /\ sibling' = [x \in Proc |-> IF x \in K THEN None
                                    ELSE IF x \in before THEN sibling[p] ELSE sibling[x]]
  BY <1>0 DEF Unlink
<1>3. \A b : b \in before <=> pp # None /\ b \in Kids(pp) /\ sibling[b] = p
  <2>1. pp # None => List(child[pp]) = Kids(pp)
    BY <1>1, ListIsKids
  <2> QED BY <2>1
<1> HIDE DEF before, K
<1>4. PICK rank \in [Proc -> Int] : \A x \in Proc : InLine(Kids(x), rank, child[x], sibling)
  BY DEF TreeInv
<1>5. /\ \A x \in K : Kids(x)' = {}
      /\ \A x \in Proc \ K : x # pp => Kids(x)' = Kids(x) /\ Kids(x) \cap K = {}
      /\ pp # None => /\ Kids(pp)' = Kids(pp) \ {p} /\ p \in Kids(pp)
                      /\ Kids(pp) \cap K = {p}
  <2>1. live' = live \ K /\ parent' = [x \in Proc |-> IF x \in K THEN None ELSE parent[x]]
    BY <1>0 DEF K
  <2> QED BY <1>0, <1>1, <2>1 DEF Kids
<1>6. \A x \in Proc : InLine(Kids(x)', rank, child'[x], sibling')
  <2> SUFFICES ASSUME NEW x \in Proc PROVE InLine(Kids(x)', rank, child'[x], sibling')
    OBVIOUS
  <2>1. CASE x \in K
    <3>1. child'[x] = None
      BY <1>2, <2>1
    <3>2. Kids(x)' = {}
      BY <1>5, <2>1
    <3>3. InLine({}, rank, None, sibling')
      BY InLineEmpty
    <3> QED BY <3>1, <3>2, <3>3
  <2>2. CASE x \notin K /\ x # pp
    <3>1. child'[x] = child[x]
      BY <1>2, <2>2
    <3>2. \A c \in Kids(x) : sibling'[c] = sibling[c]
      <4>1. \A c \in Kids(x) : c \in Proc /\ c \notin K /\ c \notin before
        BY <1>1, <1>3, <1>5, <2>2 DEF Kids
      <4> QED BY <1>2, <4>1
    <3>3. InLine(Kids(x), rank, child[x], sibling')
      BY <1>4, <3>2, InLineSame
    <3> QED BY <1>5, <2>2, <3>1, <3>3
  <2>3. CASE x = pp
    <3>1. /\ child[x] = p => child'[x] = sibling[p]
          /\ child[x] # p => child'[x] = child[x]
      BY <1>1, <1>2, <2>3
    <3>2. \A c \in Kids(x) \ {p} : /\ sibling[c] = p => sibling'[c] = sibling[p]
                                   /\ sibling[c] # p => sibling'[c] = sibling[c]
      <4>1. \A c \in Kids(x) \ {p} : c \in Proc /\ c \notin K /\ (c \in before <=> sibling[c] = p)
        BY <1>1, <1>3, <1>5, <2>3 DEF Kids
      <4> QED BY <1>2, <4>1
    <3>3. Kids(x) \in SUBSET Proc /\ p \in Kids(x) /\ Kids(x)' = Kids(x) \ {p}
      BY <1>1, <1>5, <2>3 DEF Kids
    <3>4. InLine(Kids(x), rank, child[x], sibling)
      BY <1>4
    <3>5. InLine(Kids(x) \ {p}, rank, child'[x], sibling')
      BY <3>1, <3>2, <3>3, <3>4, InLineSkip
    <3> QED BY <3>3, <3>5
  <2> QED BY <2>1, <2>2, <2>3
<1>7. ASSUME NEW x \in Proc, x \notin live' \/ parent'[x] = None PROVE sibling'[x] = None
  <2>1. CASE x \in K
    BY <1>2, <2>1
  <2>2. CASE x \notin K
    <3>1. x \notin live \/ parent[x] = None
      BY <1>0, <1>7, <2>2 DEF K
    <3>2. x \notin before /\ sibling[x] = None
      BY <1>1, <1>3, <3>1 DEF Kids, TreeInv
    <3> QED BY <1>2, <2>2, <3>2
  <2> QED BY <2>1, <2>2
<1>8. \A x \in live' : parent'[x] \in live' \cup {None}
  <2>1. live' = live \ K /\ parent' = [x \in Proc |-> IF x \in K THEN None ELSE parent[x]]
    BY <1>0 DEF K
  <2> QED BY <1>1, <2>1 DEF TreeInv
<1>9. parent'[Root] = None
  BY ProcAssumption DEF TreeInv
<1>10. child' \in [Proc -> Proc \cup {None}] /\ sibling' \in [Proc -> Proc \cup {None}]
  BY <1>1, <1>2
<1> QED BY <1>4, <1>6, <1>7, <1>8, <1>9, <1>10 DEF TreeInv

LEMMA DiesTree ==
  ASSUME Inv, TreeInv, Dies
  PROVE  Caller \in live /\ Family(Caller) = Subtree(Caller) /\ Die(Subtree(Caller)) /\ TreeInv'
PROOF
<1>1. Die(Family(Caller)) /\ Unlink(Family(Caller)) /\ cpu = "run"
  BY DEF Dies, Die, Kill
<1>2. Caller \in live /\ Family(Caller) = Subtree(Caller)
  BY <1>1, CallerLive, FamilyIsSubtree
<1>3. /\ live' = live \ Subtree(Caller)
      /\ parent' = [x \in Proc |-> IF x \in Subtree(Caller) THEN None ELSE parent[x]]
  BY <1>1, <1>2 DEF Die, Kill
<1>4. Die(Subtree(Caller)) /\ Unlink(Subtree(Caller))
  BY <1>1, <1>2
<1> QED BY <1>2, <1>3, <1>4, UnlinkTree

(* What the test programs do is what the machine does; the tree is the one  *)
(* the nucleus has.  A trap that is passed up is of a kind that has a vector. *)
LEMMA TestStep ==
  Inv /\ TreeInv /\ ModeType /\ [TestNext]_testVars => [MachineNext]_machineVars /\ TreeInv'
PROOF
<1> SUFFICES ASSUME Inv, TreeInv, ModeType, [TestNext]_testVars
             PROVE  [MachineNext]_machineVars /\ TreeInv'
  OBVIOUS
<1>1. CASE CreateStep
  <2>1. MachineNext
    BY <1>1 DEF CreateStep, MachineNext
  <2> QED BY <1>1, <2>1, CreateTree
<1>2. CASE Dies
  <2>1. MachineNext
    BY <1>2, DiesTree DEF MachineNext
  <2> QED BY <1>2, <2>1, DiesTree
<1>3. CASE SemopCall \/ InSemop
  <2>1. MachineNext
    BY <1>3 DEF SemopCall, InSemop, MachineNext
  <2>2. UNCHANGED <<live, parent, treeVars>>
    BY <1>3 DEF SemopCall, InSemop, SYS3, SYS3Step, SYS3Ends, Semop, SemopStep, SemopReturn, procVars,
                Advance, Goto
  <2> QED BY <2>1, <2>2, SameTree
<1>4. CASE ClockCall \/ ClockAgain \/ Expires \/ ClockStep
  <2>1. MachineNext
    BY <1>4 DEF ClockCall, ClockAgain, Expires, ClockStep, MachineNext
  <2>2. UNCHANGED <<live, parent, treeVars>>
    BY <1>4 DEF ClockCall, ClockAgain, Expires, ClockStep, SYS7, Timer, Clock, WaitForPClock,
                TimerExpires, ClockInterrupt, procVars, Advance, Goto
  <2> QED BY <2>1, <2>2, SameTree
<1>5. CASE WaitCall \/ StartStep \/ Completes
  <2>1. MachineNext
    BY <1>5 DEF WaitCall, StartStep, Completes, MachineNext
  <2>2. UNCHANGED <<live, parent, treeVars>>
    BY <1>5 DEF WaitCall, StartStep, Completes, SYS8, Start, Device, WaitOp, StartOp, CompleteOp,
                WaitForIO, StartIO, DeviceInterrupt, procVars, Advance, Goto
  <2> QED BY <2>1, <2>2, SameTree
<1>6. CASE SpecCall \/ CpuTimeCall \/ LoadStep \/ WasteStep
  <2>1. MachineNext
    BY <1>6 DEF SpecCall, CpuTimeCall, LoadStep, WasteStep, MachineNext
  <2>2. UNCHANGED <<vars, treeVars>>
    BY <1>6 DEF SpecCall, CpuTimeCall, LoadStep, WasteStep, SYS5, SYS6, Load, Run, Advance, Goto, Reads
  <2> QED BY <2>1, <2>2, SameTree DEF vars
<1>7. CASE FaultTrap \/ Sys9Trap \/ UserTrap
  <2>1. PICK k : PassUpTrap(k) \/ PassUpSys(k)
    BY <1>7 DEF FaultTrap, Sys9Trap, UserTrap
  <2>2. Caller \in Proc /\ k \in vector[Caller]
    BY <2>1, CallerLive DEF PassUpTrap, PassUpSys, TrapPassUp, SysPassUp
  <2>3. k \in Kind
    BY <2>2 DEF ModeType
  <2>4. MachineNext
    BY <2>1, <2>3 DEF MachineNext
  <2>5. UNCHANGED <<vars, treeVars>>
    BY <1>7 DEF FaultTrap, Sys9Trap, UserTrap, PassUpTrap, PassUpSys, PassedUp
  <2> QED BY <2>4, <2>5, SameTree DEF vars
<1>8. CASE StckStep \/ CheckStep \/ SetStep \/ Halted \/ UNCHANGED testVars
  <2>1. UNCHANGED <<machineVars, treeVars>>
    BY <1>8 DEF StckStep, CheckStep, Reads, SetStep, Halted, testVars
  <2> QED BY <2>1, SameTree DEF machineVars, vars
<1> QED BY <1>1, <1>2, <1>3, <1>4, <1>5, <1>6, <1>7, <1>8 DEF TestNext, Programs

LEMMA TreeInvariant == TestSpec => [](Inv /\ TreeInv /\ ModeType)
PROOF
<1>1. TestInit => Inv /\ TreeInv /\ ModeType
  BY InitInv, TreeInitially DEF TestInit, MachineInit, TrapInit, ModeType
<1>2. Inv /\ TreeInv /\ ModeType /\ [TestNext]_testVars => Inv' /\ TreeInv' /\ ModeType'
  BY TestStep, MachineStep, NextInv, ModeNext
<1> QED BY <1>1, <1>2, PTL DEF TestSpec

(* The test programs run on Machine, in which programs do anything they     *)
(* may: every call, trap and interrupt of a suite is a handler of it, and   *)
(* to look for the descendants in the lists of children is to take the      *)
(* subtree.                                                                 *)
THEOREM TestsRunOnMachine == TestSpec => MachineSpec
PROOF
<1>1. TestInit => MachineInit
  BY DEF TestInit
<1> QED BY <1>1, TestStep, TreeInvariant, PTL DEF TestSpec, MachineSpec

(* They run on the nucleus of Nucleus, therefore. *)
THEOREM TestsRunOnNucleus == TestSpec => Spec
PROOF BY TestsRunOnMachine, MachineIsNucleus, PTL

(* For every process table, and while programs create and terminate, block  *)
(* and are interrupted: the lists of children are the tree of the live      *)
(* processes, and the nucleus keeps its promises with it.                   *)
THEOREM NucleusHoldsInTests == TestSpec => []NucleusHolds
PROOF
<1>1. Inv /\ TreeInv => NucleusHolds
  BY TreeInvIsTrue DEF NucleusHolds, Inv
<1> QED BY <1>1, TreeInvariant, PTL

(* What SYS6 puts into D2 is what the caller has been charged with by then. *)
LEMMA Sys6Reads ==
  ASSUME Inv, TimeInv, CpuTimeAccounted, CpuTimeCall, ~Drops(Caller)
  PROVE  total'[Caller] = used[Caller]
PROOF
<1>1. cpu = "run" /\ total' = [total EXCEPT ![Caller] = @ + now - start[Caller]]
  BY DEF CpuTimeCall, SYS6, SysTrap, Charge, Charged
<1>2. Caller \in Proc /\ Caller \in live
  BY <1>1, CallerLive
<1>3. /\ total[Caller] \in Nat /\ lost[Caller] \in Nat /\ start[Caller] \in Nat /\ now \in Nat
  BY <1>2 DEF TimeInv
<1>4. lost[Caller] = 0 /\ total[Caller] + (now - start[Caller]) + lost[Caller] = used[Caller]
  BY <1>1, <1>2, <1>3 DEF CpuTimeAccounted, NothingMissing, Slice
<1>5. total'[Caller] = total[Caller] + now - start[Caller]
  BY <1>1, <1>2 DEF TimeInv
<1> QED BY <1>3, <1>4, <1>5

(* While a suite runs, a process gets what is its own: SYS8 returns the      *)
(* completion of the operation that the process has started, and SYS6 the   *)
(* time for which it has had the CPU, as long as its entry has no vector    *)
(* through which a trap can drop some of it.                                *)
THEOREM TestsGetTheirOwn == TestSpec => []CompletionIsMine /\ ReadsOwnTime
PROOF
<1>1. TestSpec => [](Inv /\ TimeInv /\ CpuTimeAccounted)
  BY TestsRunOnMachine, DropInvariant, TimesCorrect, PTL
<1>2. Inv /\ TimeInv /\ CpuTimeAccounted /\ [TestNext]_testVars =>
        [CpuTimeCall /\ ~Drops(Caller) => total'[Caller] = used[Caller]]_testVars
  BY Sys6Reads
<1>3. TestSpec => [][TestNext]_testVars
  BY PTL DEF TestSpec
<1>4. TestSpec => ReadsOwnTime
  BY <1>1, <1>2, <1>3, PTL DEF ReadsOwnTime
<1> QED BY <1>4, TestsRunOnMachine, CompletionsCorrect, PTL

(* A suite that comes to a normal end has terminated all its processes, and *)
(* has left no semaphore with a value that stands for a waiting process.    *)
THEOREM TestsEndClean == TestSpec => []CleanEnd
PROOF
<1>1. ASSUME Inv, cpu = "normal" PROVE live = {} /\ \A s \in Semaphore : val[s] >= 0
  <2>1. live = {}
    BY <1>1 DEF Inv, HonestHalt
  <2>2. ASSUME NEW s \in Semaphore PROVE val[s] >= 0
    <3>1. s \in Queue /\ q[s].mem \subseteq Proc /\ val[s] \in Int
      BY <1>1, Disjoint, QueueCardinality DEF Inv, TypeOK
    <3>2. q[s].mem = {}
      BY <1>1, <2>1, <3>1 DEF Inv, NoLostProcess
    <3>3. (IF val[s] < 0 THEN -val[s] ELSE 0) = 0
      BY <1>1, <3>2, FS_EmptySet DEF Inv, Accounting
    <3> QED BY <3>1, <3>3
  <2> QED BY <2>1, <2>2
<1>2. Inv => CleanEnd
  BY <1>1 DEF CleanEnd
<1> QED BY <1>2, TreeInvariant, PTL
=============================================================================
