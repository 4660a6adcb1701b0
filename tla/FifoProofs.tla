----------------------------- MODULE FifoProofs -----------------------------
(***************************************************************************)
(* What the operators of Fifo return, for every finite set of entries.     *)
(***************************************************************************)
EXTENDS Fifo, Integers, FiniteSetTheorems, WellFoundedInduction, TLAPS

(* Ordered, of the two fields. *)
IsOrder(M, A) ==
  /\ \A p \in Proc : \A r \in A[p] : r \in M
  /\ \A p \in Proc : p \notin M => A[p] = {}
  /\ \A p, r \in M : p # r /\ p \in A[r] => r \notin A[p]
  /\ \A p, r \in M : p # r /\ p \notin A[r] => r \in A[p]
  /\ \A p \in Proc : p \notin A[p]
  /\ \A p, r, s \in Proc : p \in A[r] /\ s \in A[p] => s \in A[r]

LEMMA OrderedFields ==
  ASSUME NEW f \in Fifo
  PROVE  /\ f.mem \in SUBSET Proc /\ f.ahead \in [Proc -> SUBSET Proc]
         /\ Ordered(f) <=> IsOrder(f.mem, f.ahead)
PROOF
<1>1. f.mem \in SUBSET Proc /\ f.ahead \in [Proc -> SUBSET Proc]
  BY DEF Fifo
<1>2. ASSUME NEW M \in SUBSET Proc, NEW A \in [Proc -> SUBSET Proc]
      PROVE  IsOrder(M, A) <=>
             /\ \A p \in Proc : A[p] \subseteq M /\ (p \notin M => A[p] = {})
             /\ \A p, r \in M : p # r => (p \in A[r] <=> r \notin A[p])
             /\ \A p \in Proc : p \notin A[p]
             /\ \A p, r \in Proc : p \in A[r] => A[p] \subseteq A[r]
  BY DEF IsOrder
<1> DEFINE M == f.mem
           A == f.ahead
<1>3. M \in SUBSET Proc /\ A \in [Proc -> SUBSET Proc]
  BY <1>1
<1>4. Ordered(f) <=> /\ \A p \in Proc : A[p] \subseteq M /\ (p \notin M => A[p] = {})
                     /\ \A p, r \in M : p # r => (p \in A[r] <=> r \notin A[p])
                     /\ \A p \in Proc : p \notin A[p]
                     /\ \A p, r \in Proc : p \in A[r] => A[p] \subseteq A[r]
  BY Zenon DEF Ordered
<1>5. Ordered(f) <=> IsOrder(M, A)
  <2> HIDE DEF M, A
  <2> QED BY <1>2, <1>3, <1>4
<1> QED BY <1>1, <1>5

(* A queue that is not empty has exactly one entry with nobody ahead of it: *)
(* headQueue's answer is defined and unique.                                *)
LEMMA FrontExists ==
  ASSUME IsFiniteSet(Proc), NEW f \in Fifo, Ordered(f), f.mem # {}
  PROVE  /\ Front(f) \in f.mem
         /\ f.ahead[Front(f)] = {}
         /\ \A p \in f.mem : f.ahead[p] = {} => p = Front(f)
PROOF
<1> DEFINE M == f.mem
           A == f.ahead
           T == {A[p] : p \in M}
           R == StrictSubsetOrdering(Proc)
<1>0. M \in SUBSET Proc /\ A \in [Proc -> SUBSET Proc] /\ IsOrder(M, A) /\ M # {}
  BY OrderedFields
<1>f. Front(f) = CHOOSE p \in M : A[p] = {}
  BY DEF Front
<1> HIDE DEF M, A
<1>1. IsWellFoundedOn(R, SUBSET Proc)
  BY FS_StrictSubsetOrderingWellFounded, FS_FiniteSubsetsOfFinite, Zenon
<1>2. T \subseteq SUBSET Proc /\ T # {}
  BY <1>0
<1>3. PICK x \in T : \A y \in T : ~ (<<y, x>> \in R)
  <2> HIDE DEF T, R
  <2> QED BY <1>1, <1>2, WFMin
<1>4. PICK p \in M : x = A[p]
  OBVIOUS
<1>5. A[p] = {}
  <2> SUFFICES ASSUME NEW r \in A[p] PROVE FALSE
    OBVIOUS
  <2>1. r \in M /\ r \in Proc /\ p \in Proc
    BY <1>0 DEF IsOrder
  <2>2. A[r] \subseteq A[p] /\ r \notin A[r]
    BY <1>0, <2>1 DEF IsOrder
  <2>3. <<A[r], A[p]>> \in R
    BY <1>0, <2>1, <2>2 DEF StrictSubsetOrdering
  <2> QED BY <1>3, <1>4, <2>1, <2>3
<1>6. \A r, s \in M : A[r] = {} /\ A[s] = {} => r = s
  BY <1>0 DEF IsOrder
<1>7. /\ Front(f) \in M /\ A[Front(f)] = {}
      /\ \A r \in M : A[r] = {} => r = Front(f)
  BY <1>5, <1>6, <1>f
<1> QED BY <1>7 DEF M, A

LEMMA EmptyFifoOrdered ==
  EmptyFifo \in Fifo /\ Ordered(EmptyFifo) /\ EmptyFifo.mem = {}
PROOF BY DEF EmptyFifo, Fifo, Ordered

LEMMA InsertOrder ==
  ASSUME NEW M \in SUBSET Proc, NEW A \in [Proc -> SUBSET Proc], IsOrder(M, A),
         NEW p \in Proc, p \notin M
  PROVE  IsOrder(M \cup {p}, [A EXCEPT ![p] = M])
PROOF
<1> DEFINE N == M \cup {p}
           B == [A EXCEPT ![p] = M]
<1>0. \A r \in Proc : (r = p => B[r] = M) /\ (r # p => B[r] = A[r])
  OBVIOUS
<1> HIDE DEF B
<1>1. \A r \in Proc : \A s \in B[r] : s \in N
  BY <1>0 DEF IsOrder
<1>2. \A r \in Proc : r \notin N => B[r] = {}
  BY <1>0 DEF IsOrder
<1>3. \A r, s \in N : r # s /\ r \in B[s] => s \notin B[r]
  BY <1>0 DEF IsOrder
<1>4. \A r, s \in N : r # s /\ r \notin B[s] => s \in B[r]
  BY <1>0 DEF IsOrder
<1>5. \A r \in Proc : r \notin B[r]
  BY <1>0 DEF IsOrder
<1>6. \A r, s, t \in Proc : r \in B[s] /\ t \in B[r] => t \in B[s]
  BY <1>0 DEF IsOrder
<1> QED BY <1>1, <1>2, <1>3, <1>4, <1>5, <1>6 DEF IsOrder, B

LEMMA RemoveOrder ==
  ASSUME NEW M \in SUBSET Proc, NEW A \in [Proc -> SUBSET Proc], IsOrder(M, A), NEW K
  PROVE  IsOrder(M \ K, [r \in Proc |-> IF r \in K THEN {} ELSE A[r] \ K])
PROOF
<1> DEFINE N == M \ K
           B == [r \in Proc |-> IF r \in K THEN {} ELSE A[r] \ K]
<1>0. \A r \in Proc : (r \in K => B[r] = {}) /\ (r \notin K => B[r] = A[r] \ K)
  OBVIOUS
<1> HIDE DEF B
<1>1. \A r \in Proc : \A s \in B[r] : s \in N
  BY <1>0 DEF IsOrder
<1>2. \A r \in Proc : r \notin N => B[r] = {}
  BY <1>0 DEF IsOrder
<1>3. \A r, s \in N : r # s /\ r \in B[s] => s \notin B[r]
  BY <1>0 DEF IsOrder
<1>4. \A r, s \in N : r # s /\ r \notin B[s] => s \in B[r]
  BY <1>0 DEF IsOrder
<1>5. \A r \in Proc : r \notin B[r]
  BY <1>0 DEF IsOrder
<1>6. \A r, s, t \in Proc : r \in B[s] /\ t \in B[r] => t \in B[s]
  BY <1>0 DEF IsOrder
<1> QED BY <1>1, <1>2, <1>3, <1>4, <1>5, <1>6 DEF IsOrder, B

(* insertProc keeps the order of the entries that were there, and the front. *)
LEMMA InsertOrdered ==
  ASSUME IsFiniteSet(Proc), NEW f \in Fifo, Ordered(f), NEW p \in Proc, p \notin f.mem
  PROVE  /\ Insert(f, p) \in Fifo /\ Ordered(Insert(f, p))
         /\ Insert(f, p).mem = f.mem \cup {p}
         /\ \A r \in f.mem : Insert(f, p).ahead[r] = f.ahead[r]
         /\ f.mem # {} => Front(Insert(f, p)) = Front(f)
         /\ f.mem = {} => Front(Insert(f, p)) = p
PROOF
<1> DEFINE g == Insert(f, p)
           M == f.mem
           A == f.ahead
           N == g.mem
           B == g.ahead
<1>0. M \in SUBSET Proc /\ A \in [Proc -> SUBSET Proc] /\ IsOrder(M, A) /\ p \notin M
  BY OrderedFields
<1>1. g \in Fifo /\ N = M \cup {p} /\ B = [A EXCEPT ![p] = M]
  BY DEF Insert, Fifo
<1> HIDE DEF g, M, A, N, B
<1>2. p \notin M /\ \A r \in Proc : (r = p => B[r] = M) /\ (r # p => B[r] = A[r])
  BY <1>0, <1>1
<1>4. IsOrder(N, B)
  BY <1>0, <1>1, InsertOrder
<1>5. Ordered(g)
  BY <1>1, <1>4, OrderedFields DEF N, B
<1>6. ASSUME M # {} PROVE Front(g) = Front(f)
  <2>1. Front(f) \in M /\ A[Front(f)] = {}
    BY <1>6, FrontExists DEF M, A
  <2>2. Front(f) \in N /\ B[Front(f)] = {}
    BY <2>1, <1>0, <1>1, <1>2
  <2> QED BY <2>2, <1>1, <1>5, FrontExists DEF N, B
<1>7. ASSUME M = {} PROVE Front(g) = p
  <2>1. p \in N /\ B[p] = {}
    BY <1>7, <1>1, <1>2
  <2> QED BY <2>1, <1>1, <1>5, FrontExists DEF N, B
<1>8. \A r \in M : B[r] = A[r]
  BY <1>0, <1>2
<1> QED BY <1>1, <1>5, <1>6, <1>7, <1>8 DEF g, M, A, N, B

(* removeProc and outProc keep the order of the entries that remain. *)
LEMMA RemoveOrdered ==
  ASSUME NEW f \in Fifo, Ordered(f), NEW K
  PROVE  /\ Remove(f, K) \in Fifo /\ Ordered(Remove(f, K))
         /\ Remove(f, K).mem = f.mem \ K
         /\ \A r \in f.mem \ K : Remove(f, K).ahead[r] \subseteq f.ahead[r]
PROOF
<1> DEFINE g == Remove(f, K)
           M == f.mem
           A == f.ahead
           N == g.mem
           B == g.ahead
<1>0. M \in SUBSET Proc /\ A \in [Proc -> SUBSET Proc] /\ IsOrder(M, A)
  BY OrderedFields
<1>1. /\ g \in Fifo /\ N = M \ K
      /\ B = [r \in Proc |-> IF r \in K THEN {} ELSE A[r] \ K]
  BY DEF Remove, Fifo
<1> HIDE DEF g, M, A, N, B
<1>2. \A r \in Proc : (r \in K => B[r] = {}) /\ (r \notin K => B[r] = A[r] \ K)
  BY <1>1
<1>4. IsOrder(N, B)
  BY <1>0, <1>1, RemoveOrder
<1>5. Ordered(g)
  BY <1>1, <1>4, OrderedFields DEF N, B
<1>6. \A r \in M \ K : B[r] \subseteq A[r]
  BY <1>0, <1>2
<1> QED BY <1>1, <1>5, <1>6 DEF g, M, A, N, B

-----------------------------------------------------------------------------
(* Induction up to a bound, on a set of numbers. *)
LEMMA LeastExists ==
  ASSUME NEW S \in SUBSET Nat, S # {}
  PROVE  \E m \in S : \A n \in S : m <= n
PROOF
<1> DEFINE R == OpToRel(<, Nat)
<1>1. IsWellFoundedOn(R, Nat)
  BY NatLessThanWellFounded
<1>2. PICK m \in S : \A n \in S : ~ (<<n, m>> \in R)
  <2> HIDE DEF R
  <2> QED BY <1>1, WFMin
<1>3. \A n \in S : ~ (n < m)
  BY <1>2 DEF OpToRel
<1> QED BY <1>3

LEMMA UpTo ==
  ASSUME NEW N \in Nat, NEW S, 0 \in S,
         \A n \in 1 .. N : n - 1 \in S => n \in S
  PROVE  \A n \in 0 .. N : n \in S
PROOF
<1> SUFFICES ASSUME NEW j \in 0 .. N, j \notin S PROVE FALSE
  OBVIOUS
<1> DEFINE T == {n \in 0 .. N : n \notin S}
<1>1. PICK m \in T : \A n \in T : m <= n
  <2>1. T \in SUBSET Nat /\ T # {}
    OBVIOUS
  <2> HIDE DEF T
  <2> QED BY <2>1, LeastExists
<1>2. m # 0 /\ m - 1 \in 0 .. N /\ m \in 1 .. N
  OBVIOUS
<1>3. m - 1 \in S
  BY <1>1, <1>2
<1> QED BY <1>2, <1>3

(* A walk, each place of which follows from the one before, exists. *)
IsStep(N, X, a, step) == N \in Nat /\ a \in X /\ step \in [X -> X]

LEMMA Iterates ==
  ASSUME NEW N, NEW X, NEW a, NEW step, IsStep(N, X, a, step)
  PROVE  \E g \in [0 .. N -> X] : g[0] = a /\ \A n \in 1 .. N : g[n] = step[g[n - 1]]
PROOF
<1> N \in Nat /\ a \in X /\ step \in [X -> X]
  BY DEF IsStep
<1> DEFINE G(i) == {g \in [0 .. i -> X] : g[0] = a /\ \A n \in 1 .. i : g[n] = step[g[n - 1]]}
           S == {i \in 0 .. N : G(i) # {}}
<1>1. 0 \in S
  <2>1. [n \in 0 .. 0 |-> a] \in G(0)
    OBVIOUS
  <2> QED BY <2>1
<1>2. ASSUME NEW i \in 1 .. N, i - 1 \in S PROVE i \in S
  <2>1. PICK g \in G(i - 1) : TRUE
    BY <1>2
  <2> DEFINE h == [n \in 0 .. i |-> IF n = i THEN step[g[i - 1]] ELSE g[n]]
  <2>2. h \in [0 .. i -> X]
    OBVIOUS
  <2>3. h[0] = a /\ \A n \in 1 .. i : h[n] = step[h[n - 1]]
    OBVIOUS
  <2>4. h \in G(i)
    BY <2>2, <2>3
  <2> QED BY <2>4
<1>3. N \in S
  <2> HIDE DEF S
  <2> QED BY <1>1, <1>2, UpTo
<1> QED BY <1>3

(* The entries that a walk e has met after n places. *)
Met(e, n) == {e[m] : m \in 1 .. n}

LEMMA MetGrows ==
  ASSUME NEW e, NEW n \in Nat \ {0}
  PROVE  Met(e, n) = Met(e, n - 1) \cup {e[n]} /\ Met(e, 0) = {}
PROOF
<1>1. 1 .. n = (1 .. n - 1) \cup {n} /\ 1 .. 0 = {}
  OBVIOUS
<1> QED BY <1>1, Zenon DEF Met

(* A walk that begins at the first entry of an order and goes on to the next *)
(* one as long as there is one meets all of them, each after those ahead of  *)
(* it.                                                                       *)
InOrder(M, A, N, e) ==
  /\ M \in SUBSET Proc /\ A \in [Proc -> SUBSET Proc] /\ IsOrder(M, A)
  /\ N \in Nat /\ Cardinality(Proc) <= N
  /\ e[1] \in M /\ A[e[1]] = {}
  /\ \A n \in 1 .. N - 1 : e[n] \in M /\ A[e[n]] \cup {e[n]} # M
                             => e[n + 1] \in M /\ A[e[n + 1]] = A[e[n]] \cup {e[n]}

LEMMA WalkMeetsInOrder ==
  ASSUME IsFiniteSet(Proc), NEW M, NEW A, NEW N, NEW e, InOrder(M, A, N, e)
  PROVE  /\ \A n \in 1 .. N : M \subseteq Met(e, n - 1) \/ (e[n] \in M /\ A[e[n]] = Met(e, n - 1))
         /\ M \subseteq Met(e, N)
         /\ \A p, r \in M : r \in A[p] <=> \E n \in 1 .. N : e[n] = r /\ \A m \in 1 .. n : e[m] # p
PROOF
<1> /\ M \in SUBSET Proc /\ A \in [Proc -> SUBSET Proc] /\ IsOrder(M, A)
    /\ N \in Nat /\ Cardinality(Proc) <= N
    /\ e[1] \in M /\ A[e[1]] = {}
    /\ \A n \in 1 .. N - 1 : e[n] \in M /\ A[e[n]] \cup {e[n]} # M
                               => e[n + 1] \in M /\ A[e[n + 1]] = A[e[n]] \cup {e[n]}
  BY DEF InOrder
<1> DEFINE P(n) == \/ M \subseteq Met(e, n - 1)
                   \/ /\ e[n] \in M /\ A[e[n]] = Met(e, n - 1)
                      /\ IsFiniteSet(Met(e, n - 1)) /\ Cardinality(Met(e, n - 1)) = n - 1
           S == {n \in 0 .. N - 1 : P(n + 1)}
<1>0. N >= 1
  <2>1. Cardinality(Proc) # 0
    BY FS_EmptySet
  <2>2. Cardinality(Proc) \in Nat
    BY FS_CardinalityType
  <2> QED BY <2>1, <2>2
<1>1. 0 \in S
  <2>1. Met(e, 0) = {} /\ IsFiniteSet({}) /\ Cardinality({}) = 0
    BY <1>0, MetGrows, FS_EmptySet
  <2>2. P(1)
    BY <2>1
  <2>3. 0 \in 0 .. N - 1 /\ 0 + 1 = 1
    BY <1>0
  <2> HIDE DEF P
  <2> QED BY <2>2, <2>3
<1>2. ASSUME NEW n \in 1 .. N - 1, P(n) PROVE P(n + 1)
  <2>0. Met(e, n) = Met(e, n - 1) \cup {e[n]} /\ (n + 1) - 1 = n
    <3>1. n \in Nat \ {0} /\ (n + 1) - 1 = n
      OBVIOUS
    <3> QED BY <3>1, MetGrows, Zenon
  <2>1. CASE M \subseteq Met(e, n - 1)
    BY <2>0, <2>1
  <2>2. CASE /\ e[n] \in M /\ A[e[n]] = Met(e, n - 1)
             /\ IsFiniteSet(Met(e, n - 1)) /\ Cardinality(Met(e, n - 1)) = n - 1
    <3>1. CASE A[e[n]] \cup {e[n]} = M
      BY <2>0, <2>2, <3>1
    <3>2. CASE A[e[n]] \cup {e[n]} # M
      <4>1. e[n + 1] \in M /\ A[e[n + 1]] = Met(e, n)
        BY <2>0, <2>2, <3>2
      <4>2. e[n] \notin Met(e, n - 1)
        BY <2>2 DEF IsOrder
      <4>3. IsFiniteSet(Met(e, n)) /\ Cardinality(Met(e, n)) = (n - 1) + 1
        <5> DEFINE E == Met(e, n - 1)
        <5>1. IsFiniteSet(E) /\ Cardinality(E) = n - 1 /\ e[n] \notin E
          BY <2>2, <4>2
        <5> HIDE DEF E
        <5>2. IsFiniteSet(E \cup {e[n]}) /\ Cardinality(E \cup {e[n]}) = (n - 1) + 1
          BY <5>1, FS_AddElement
        <5> QED BY <5>2, <2>0 DEF E
      <4>4. Cardinality(Met(e, n)) = n
        BY <4>3
      <4> QED BY <2>0, <4>1, <4>3, <4>4, Zenon
    <3> QED BY <3>1, <3>2
  <2> HIDE DEF P
  <2> QED BY <2>1, <2>2, <1>2 DEF P
<1>3. \A n \in 0 .. N - 1 : n \in S
  <2>1. \A n \in 1 .. N - 1 : n - 1 \in S => n \in S
    <3> TAKE n \in 1 .. N - 1
    <3>1. (n - 1) + 1 = n
      OBVIOUS
    <3>2. n - 1 \in S => P(n)
      BY <3>1
    <3>3. P(n) => P(n + 1)
      BY <1>2
    <3>4. P(n + 1) => n \in S
      OBVIOUS
    <3> QED BY <3>2, <3>3, <3>4
  <2> HIDE DEF S
  <2> QED BY <2>1, <1>0, <1>1, UpTo
<1>4. \A n \in 1 .. N : P(n)
  <2> TAKE n \in 1 .. N
  <2>1. n - 1 \in S
    BY <1>3, <1>0
  <2>2. (n - 1) + 1 = n
    OBVIOUS
  <2> QED BY <2>1, <2>2
<1>5. M \subseteq Met(e, N)
  <2>0. Met(e, N) = Met(e, N - 1) \cup {e[N]}
    <3>1. N \in Nat \ {0}
      BY <1>0
    <3> QED BY <3>1, MetGrows
  <2>1. P(N)
    BY <1>0, <1>4
  <2>2. CASE M \subseteq Met(e, N - 1)
    BY <2>0, <2>2
  <2>3. CASE /\ e[N] \in M /\ A[e[N]] = Met(e, N - 1)
             /\ IsFiniteSet(Met(e, N - 1)) /\ Cardinality(Met(e, N - 1)) = N - 1
    <3> DEFINE E == Met(e, N - 1)
    <3>1. e[N] \notin E /\ E \cup {e[N]} \subseteq M
      BY <2>3 DEF IsOrder
    <3>2. IsFiniteSet(E) /\ Cardinality(E) = N - 1
      BY <2>3
    <3> HIDE DEF E
    <3>3. Cardinality(E \cup {e[N]}) = (N - 1) + 1
      BY <3>1, <3>2, FS_AddElement
    <3>4. E \cup {e[N]} \subseteq Proc
      BY <3>1
    <3>5. Cardinality(E \cup {e[N]}) <= Cardinality(Proc) /\ (Cardinality(E \cup {e[N]}) = Cardinality(Proc) => E \cup {e[N]} = Proc)
      BY <3>4, FS_Subset
    <3>6. Cardinality(Proc) \in Nat
      BY FS_CardinalityType
    <3>7. E \cup {e[N]} = Proc
      BY <3>3, <3>5, <3>6, <1>0
    <3> QED BY <3>7, <2>0 DEF E
  <2> QED BY <2>1, <2>2, <2>3
<1>6. ASSUME NEW p \in M, NEW r \in M, r \in A[p]
      PROVE  \E n \in 1 .. N : e[n] = r /\ \A m \in 1 .. n : e[m] # p
  <2> DEFINE T == {n \in 1 .. N : e[n] = r}
  <2>1. T \in SUBSET Nat /\ T # {}
    BY <1>5 DEF Met
  <2>2. PICK n \in T : \A m \in T : n <= m
    <3> HIDE DEF T
    <3> QED BY <2>1, LeastExists
  <2>3. r \notin Met(e, n - 1)
    <3> SUFFICES ASSUME NEW m \in 1 .. n - 1, e[m] = r PROVE FALSE
      BY DEF Met
    <3>1. m \in T
      OBVIOUS
    <3> QED BY <2>2, <3>1
  <2>4. P(n)
    BY <1>4
  <2>5. A[r] = Met(e, n - 1)
    BY <2>3, <2>4
  <2>6. p \notin Met(e, n - 1) /\ p # r
    BY <1>6, <2>5 DEF IsOrder
  <2>7. \A m \in 1 .. n : e[m] # p
    BY <2>6 DEF Met
  <2> QED BY <2>7
<1>7. ASSUME NEW p \in M, NEW r \in M, NEW n \in 1 .. N, e[n] = r, \A m \in 1 .. n : e[m] # p
      PROVE  r \in A[p]
  <2>1. p \notin Met(e, n - 1) /\ p # r
    BY <1>7 DEF Met
  <2>2. A[r] = Met(e, n - 1)
    BY <1>4, <1>7, <2>1
  <2>3. p \notin A[r]
    BY <2>1, <2>2
  <2> QED BY <2>1, <2>3 DEF IsOrder
<1>8. \A n \in 1 .. N : M \subseteq Met(e, n - 1) \/ (e[n] \in M /\ A[e[n]] = Met(e, n - 1))
  BY <1>4
<1>9. \A p, r \in M : r \in A[p] <=> \E n \in 1 .. N : e[n] = r /\ \A m \in 1 .. n : e[m] # p
  <2> HIDE DEF P, S
  <2> QED BY <1>6, <1>7
<1> QED BY <1>5, <1>8, <1>9
=============================================================================
