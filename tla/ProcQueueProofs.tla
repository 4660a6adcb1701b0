--------------------------- MODULE ProcQueueProofs ---------------------------
(***************************************************************************)
(* The links of procq.c implement the queues, for any number of entries,   *)
(* of queues and of links.  LinkInv says where every link leads in terms of *)
(* the queues; each operation of procq.c keeps this with the queues that   *)
(* ProcQueueSpec says it leaves, and a walk along such links meets the     *)
(* entries of the queue in its order.                                      *)
(***************************************************************************)
EXTENDS ProcQueueInv, FiniteSetTheorems, TLAPS

FP == INSTANCE FifoProofs

-----------------------------------------------------------------------------
(* Rings and chains: entries M in the order A, and their successors nx. *)
IsRing(M, A, last, nx) ==
  /\ last \in M /\ A[last] = M \ {last}
  /\ \A p \in M : /\ nx[p] \in M
                  /\ A[p] \cup {p} = M => A[nx[p]] = {}
                  /\ A[p] \cup {p} # M => A[nx[p]] = A[p] \cup {p}

IsChain(M, A, head, nx) ==
  /\ M = {} => head = ENULL
  /\ M # {} => head \in M /\ A[head] = {}
  /\ \A p \in M : /\ A[p] \cup {p} = M => nx[p] = ENULL
                  /\ A[p] \cup {p} # M => nx[p] \in M /\ A[nx[p]] = A[p] \cup {p}

(* Only the last entry has all the others ahead of it. *)
LEMMA OneLast ==
  ASSUME NEW M \in SUBSET Proc, NEW A \in [Proc -> SUBSET Proc], FP!IsOrder(M, A),
         NEW p \in M, NEW r \in M, A[p] \cup {p} = A[r] \cup {r}
  PROVE  p = r
PROOF BY DEF FP!IsOrder

LEMMA RingAppend ==
  ASSUME NEW M \in SUBSET Proc, NEW A \in [Proc -> SUBSET Proc], FP!IsOrder(M, A),
         NEW last, NEW nx, IsRing(M, A, last, nx), NEW p \in Proc \ M,
         NEW B, B[p] = M, \A r \in M : B[r] = A[r],
         NEW ny, ny[last] = p, ny[p] = nx[last], \A r \in M \ {last} : ny[r] = nx[r]
  PROVE  IsRing(M \cup {p}, B, p, ny)
PROOF
<1>1. last \in M /\ A[last] \cup {last} = M
  BY DEF IsRing
<1>2. \A r \in M : A[r] \subseteq M /\ p \notin A[r]
  BY DEF FP!IsOrder
<1>3. ny[p] \in M /\ A[ny[p]] = {}
  BY <1>1 DEF IsRing
<1>4. ASSUME NEW r \in M \ {last}
      PROVE  nx[r] \in M /\ A[nx[r]] = A[r] \cup {r}
  BY <1>1, OneLast DEF IsRing
<1>5. ASSUME NEW r \in M \cup {p}
      PROVE  /\ ny[r] \in M \cup {p}
             /\ B[r] \cup {r} = M \cup {p} => B[ny[r]] = {}
             /\ B[r] \cup {r} # M \cup {p} => B[ny[r]] = B[r] \cup {r}
  <2>1. CASE r = p
    BY <1>3, <2>1
  <2>2. CASE r = last
    BY <1>1, <1>2, <2>2
  <2>3. CASE r \in M \ {last}
    BY <1>2, <1>4, <2>3
  <2> QED BY <2>1, <2>2, <2>3
<1>6. B[p] = (M \cup {p}) \ {p}
  OBVIOUS
<1> QED BY <1>5, <1>6 DEF IsRing

(* An entry x leaves behind prev: the way out with TakeHead, where prev is  *)
(* the last one, as with TakeInner.                                         *)
Skips(M, A, nx, last, x, prev, B, ny, newLast) ==
  /\ x \in M /\ prev \in M /\ x # prev /\ nx[prev] = x
  /\ \A r \in M \ {x} : B[r] = A[r] \ {x}
  /\ ny[prev] = nx[x] /\ \A r \in M \ {x, prev} : ny[r] = nx[r]
  /\ x = last => newLast = prev
  /\ x # last => newLast = last

LEMMA RingTake ==
  ASSUME NEW M \in SUBSET Proc, NEW A \in [Proc -> SUBSET Proc], FP!IsOrder(M, A),
         NEW last, NEW nx, IsRing(M, A, last, nx), NEW x, NEW prev, NEW B, NEW ny, NEW z,
         Skips(M, A, nx, last, x, prev, B, ny, z)
  PROVE  IsRing(M \ {x}, B, z, ny)
PROOF
<1> /\ x \in M /\ prev \in M /\ x # prev /\ nx[prev] = x
    /\ \A r \in M \ {x} : B[r] = A[r] \ {x}
    /\ ny[prev] = nx[x] /\ \A r \in M \ {x, prev} : ny[r] = nx[r]
    /\ (x = last => z = prev) /\ (x # last => z = last)
  BY DEF Skips
<1>1. last \in M /\ A[last] = M \ {last}
  BY DEF IsRing
<1>2. \A r \in M : A[r] \subseteq M /\ r \notin A[r]
  BY DEF FP!IsOrder
<1>3. A[prev] \cup {prev} = M => A[x] = {}
  BY DEF IsRing
<1>4. A[prev] \cup {prev} # M => A[x] = A[prev] \cup {prev}
  BY DEF IsRing
<1>5. A[x] \cup {x} = M => A[x] = A[prev] \cup {prev}
  BY <1>2, <1>3, <1>4
<1>6. ASSUME NEW r \in M \ {x, prev}
      PROVE  /\ nx[r] \in M \ {x}
             /\ (A[r] \cup {r}) \ {x} = M \ {x} <=> A[r] \cup {r} = M
  <2>1. nx[r] \in M /\ nx[r] # x
    <3>1. A[prev] \cup {prev} # A[r] \cup {r}
      BY OneLast
    <3>2. /\ nx[r] \in M
          /\ A[r] \cup {r} = M => A[nx[r]] = {}
          /\ A[r] \cup {r} # M => A[nx[r]] = A[r] \cup {r}
      BY DEF IsRing
    <3> QED BY <3>1, <3>2, <1>3, <1>4
  <2>2. ASSUME (A[r] \cup {r}) \ {x} = M \ {x}, A[r] \cup {r} # M PROVE FALSE
    <3>1. x \notin A[r]
      BY <2>2, <1>2
    <3>2. r \in A[x] /\ A[r] \subseteq A[x]
      BY <3>1 DEF FP!IsOrder
    <3>3. A[x] = M \ {x}
      BY <3>1, <3>2, <2>2, <1>2
    <3>4. A[x] = A[prev] \cup {prev} /\ A[x] = A[r] \cup {r}
      BY <3>1, <3>3, <1>5, <2>2
    <3> QED BY <3>4, OneLast
  <2> QED BY <2>1, <2>2
<1>7. ASSUME NEW r \in M \ {x, prev}
      PROVE  /\ ny[r] \in M \ {x}
             /\ B[r] \cup {r} = M \ {x} => B[ny[r]] = {}
             /\ B[r] \cup {r} # M \ {x} => B[ny[r]] = B[r] \cup {r}
  <2>1. ny[r] = nx[r] /\ nx[r] \in M \ {x} /\ B[r] = A[r] \ {x} /\ B[nx[r]] = A[nx[r]] \ {x}
    BY <1>6
  <2>2. B[r] \cup {r} = M \ {x} <=> A[r] \cup {r} = M
    BY <2>1, <1>6
  <2> QED BY <2>1, <2>2 DEF IsRing
<1>8. /\ ny[prev] \in M \ {x}
      /\ B[prev] \cup {prev} = M \ {x} => B[ny[prev]] = {}
      /\ B[prev] \cup {prev} # M \ {x} => B[ny[prev]] = B[prev] \cup {prev}
  <2>1. nx[x] \in M \ {x}
    BY <1>2, <1>3, <1>4, <1>5 DEF IsRing
  <2>2. B[prev] = A[prev] \ {x} /\ B[nx[x]] = A[nx[x]] \ {x}
    BY <2>1
  <2>3. CASE A[x] \cup {x} = M
    <3>1. A[nx[x]] = {}
      BY <2>3 DEF IsRing
    <3>2. B[prev] \cup {prev} = M \ {x}
      BY <2>2, <2>3, <1>2, <1>5
    <3> QED BY <2>1, <2>2, <3>1, <3>2
  <2>4. CASE A[x] \cup {x} # M
    <3>1. A[nx[x]] = A[x] \cup {x}
      BY <2>4 DEF IsRing
    <3>2. B[nx[x]] = A[x]
      BY <2>2, <3>1, <1>2
    <3>3. CASE A[prev] \cup {prev} = M
      BY <3>2, <3>3, <1>3, <2>1, <2>2
    <3>4. CASE A[prev] \cup {prev} # M
      <4>1. A[x] = A[prev] \cup {prev} /\ x \notin A[x] /\ A[x] \subseteq M
        BY <3>4, <1>4, <1>2
      <4>2. B[prev] \cup {prev} = A[x] /\ A[x] # M \ {x}
        BY <4>1, <2>2, <2>4
      <4> QED BY <2>1, <3>2, <4>2
    <3> QED BY <3>3, <3>4
  <2> QED BY <2>3, <2>4
<1>9. z \in M \ {x} /\ B[z] = (M \ {x}) \ {z}
  <2>1. CASE x = last
    BY <2>1, <1>1, <1>2, <1>5
  <2>2. CASE x # last
    BY <2>2, <1>1
  <2> QED BY <2>1, <2>2
<1> QED BY <1>7, <1>8, <1>9 DEF IsRing

LEMMA ChainAppend ==
  ASSUME NEW M \in SUBSET Proc, NEW A \in [Proc -> SUBSET Proc], FP!IsOrder(M, A),
         NEW head, NEW nx, IsChain(M, A, head, nx), NEW p \in Proc \ M,
         NEW last \in M, A[last] \cup {last} = M,
         NEW B, B[p] = M, \A r \in M : B[r] = A[r],
         NEW ny, ny[last] = p, ny[p] = ENULL, \A r \in M \ {last} : ny[r] = nx[r]
  PROVE  IsChain(M \cup {p}, B, head, ny)
PROOF
<1>2. \A r \in M : A[r] \subseteq M /\ p \notin A[r]
  BY DEF FP!IsOrder
<1>4. ASSUME NEW r \in M \ {last}
      PROVE  nx[r] \in M /\ A[nx[r]] = A[r] \cup {r}
  BY OneLast DEF IsChain
<1>5. ASSUME NEW r \in M \cup {p}
      PROVE  /\ B[r] \cup {r} = M \cup {p} => ny[r] = ENULL
             /\ B[r] \cup {r} # M \cup {p} => ny[r] \in M \cup {p} /\ B[ny[r]] = B[r] \cup {r}
  <2>1. CASE r = p
    BY <2>1
  <2>2. CASE r = last
    BY <1>2, <2>2
  <2>3. CASE r \in M \ {last}
    BY <1>2, <1>4, <2>3
  <2> QED BY <2>1, <2>2, <2>3
<1>6. head \in M /\ B[head] = {}
  BY DEF IsChain
<1> QED BY <1>5, <1>6 DEF IsChain

LEMMA ChainTake ==
  ASSUME NEW M \in SUBSET Proc, NEW A \in [Proc -> SUBSET Proc], FP!IsOrder(M, A),
         NEW head, NEW nx, IsChain(M, A, head, nx), M # {},
         NEW B, \A r \in M \ {head} : B[r] = A[r] \ {head},
         NEW ny, \A r \in M \ {head} : ny[r] = nx[r]
  PROVE  IsChain(M \ {head}, B, nx[head], ny)
PROOF
<1>1. head \in M /\ A[head] = {}
  BY DEF IsChain
<1>2. \A r \in M \ {head} : A[r] \subseteq M /\ head \in A[r] /\ r \notin A[r]
  BY <1>1 DEF FP!IsOrder
<1>3. ASSUME NEW r \in M \ {head}
      PROVE  /\ B[r] \cup {r} = M \ {head} => ny[r] = ENULL
             /\ B[r] \cup {r} # M \ {head} => ny[r] \in M \ {head} /\ B[ny[r]] = B[r] \cup {r}
  <2>1. B[r] \cup {r} = M \ {head} <=> A[r] \cup {r} = M
    BY <1>1, <1>2
  <2>2. CASE A[r] \cup {r} # M
    <3>1. nx[r] \in M /\ A[nx[r]] = A[r] \cup {r}
      BY <2>2 DEF IsChain
    <3>2. nx[r] # head
      BY <3>1, <1>1
    <3> QED BY <2>1, <2>2, <3>1, <3>2, <1>2
  <2> QED BY <2>1, <2>2 DEF IsChain
<1>4. M \ {head} = {} => nx[head] = ENULL
  BY <1>1 DEF IsChain
<1>5. ASSUME M \ {head} # {}
      PROVE  nx[head] \in M \ {head} /\ B[nx[head]] = {}
  <2>1. nx[head] \in M /\ A[nx[head]] = {head}
    BY <1>1, <1>5 DEF IsChain
  <2> QED BY <2>1, <1>1
<1> QED BY <1>3, <1>4, <1>5 DEF IsChain

-----------------------------------------------------------------------------
LEMMA SameSets ==
  \A S : FP!IsFiniteSet(S) = IsFiniteSet(S) /\ FP!Cardinality(S) = Cardinality(S)
PROOF
<1>1. \A S : FP!IsFiniteSet(S) = IsFiniteSet(S)
  BY Zenon DEF FP!IsFiniteSet, IsFiniteSet
<1>2. \A S : FP!Cardinality(S) = Cardinality(S)
  BY Zenon DEF FP!Cardinality, Cardinality
<1> QED BY <1>1, <1>2

LEMMA Finite == IsFiniteSet(Proc) /\ Cardinality(Proc) = MAXPROC /\ MAXPROC \in Nat \ {0}
                /\ IsFiniteSet(Slot) /\ ENULL \notin Proc \cup Slot /\ 0 \in Slot
PROOF
<1>1. MAXPROC \in Nat \ {0} /\ SEMMAX \in Nat \ {0}
  BY SizeAssumption
<1>2. /\ 0 \in Int /\ MAXPROC - 1 \in Int /\ SEMMAX - 1 \in Int
      /\ ~ (0 > MAXPROC - 1) /\ ((MAXPROC - 1) - 0) + 1 = MAXPROC
  BY <1>1
<1>3. /\ IsFiniteSet(0 .. MAXPROC - 1) /\ IsFiniteSet(0 .. SEMMAX - 1)
      /\ Cardinality(0 .. MAXPROC - 1) = MAXPROC
  BY <1>2, FS_Interval
<1>4. ENULL \notin Proc \cup Slot /\ 0 \in Slot
  BY <1>1 DEF ENULL, Proc, Slot
<1> QED BY <1>1, <1>3, <1>4 DEF Proc, Slot

LEMMA SlotCount == Cardinality(Slot) = SEMMAX
PROOF
<1>1. /\ 0 \in Int /\ SEMMAX - 1 \in Int
      /\ ~ (0 > SEMMAX - 1) /\ ((SEMMAX - 1) - 0) + 1 = SEMMAX
  BY SizeAssumption
<1> QED BY <1>1, FS_Interval DEF Slot

(* The links s of the entries M are a ring in the order A, which t enters.  *)
OnRing(M, A, s, t) ==
  /\ t = [next |-> t.next, index |-> s[t.next]]
  /\ IsRing(M, A, t.next, [p \in Proc |-> link[p][s[p]].next])
  /\ \A p \in M : link[p][s[p]] = [next |-> link[p][s[p]].next, index |-> s[link[p][s[p]].next]]

(* The conjuncts of Linked, for one queue. *)
LEMMA QueueFields ==
  ASSUME NEW Q, NEW F, NEW S, Linked(Q, F, S), NEW k \in Queue
  PROVE  /\ Q[k].mem \in SUBSET Proc /\ Q[k].ahead \in [Proc -> SUBSET Proc]
         /\ Q[k] = [mem |-> Q[k].mem, ahead |-> Q[k].ahead]
         /\ FP!IsOrder(Q[k].mem, Q[k].ahead)
         /\ S[k] \in [Proc -> Slot]
         /\ Q[k].mem = {} => tail[k] = Null
         /\ Q[k].mem # {} => OnRing(Q[k].mem, Q[k].ahead, S[k], tail[k])
PROOF
<1> DEFINE q == Q[k]
           s == S[k]
           M == q.mem
           A == q.ahead
<1>1. q \in Promise!Fifo /\ Promise!Ordered(q) /\ Ring(q, tail[k], s)
  BY DEF Linked
<1>2. M \in SUBSET Proc /\ A \in [Proc -> SUBSET Proc] /\ q = [mem |-> M, ahead |-> A]
  BY <1>1 DEF Promise!Fifo
<1>3. s \in [Proc -> Slot]
  BY DEF Linked, LinksOf
<1>4. q \in FP!Fifo /\ FP!Ordered(q)
  <2>1. Promise!Fifo = FP!Fifo
    BY DEF Promise!Fifo, FP!Fifo
  <2>2. Promise!Ordered(q) = FP!Ordered(q)
    BY DEF Promise!Ordered, FP!Ordered
  <2> QED BY <1>1, <2>1, <2>2
<1>5. FP!IsOrder(M, A)
  BY <1>4, FP!OrderedFields
<1>6. tail[k] \in Link /\ \A p \in Proc : link[p][s[p]] \in Link
  BY <1>3 DEF Linked
<1>7. \A l \in Link : l = [next |-> l.next, index |-> l.index]
  BY DEF Link
<1>8. /\ M = {} => tail[k] = Null
      /\ M # {} => /\ tail[k].index = s[tail[k].next]
                   /\ tail[k].next \in M /\ A[tail[k].next] = M \ {tail[k].next}
  BY <1>1, Zenon DEF Ring
<1>9. ASSUME NEW p \in M
      PROVE  /\ link[p][s[p]].index = s[link[p][s[p]].next] /\ link[p][s[p]].next \in M
             /\ A[p] \cup {p} = M => A[link[p][s[p]].next] = {}
             /\ A[p] \cup {p} # M => A[link[p][s[p]].next] = A[p] \cup {p}
  BY <1>1, Zenon DEF Ring, AheadOfNext
<1> DEFINE nx == [p \in Proc |-> link[p][s[p]].next]
<1>10. M # {} => IsRing(M, A, tail[k].next, nx)
  <2> SUFFICES ASSUME M # {} PROVE IsRing(M, A, tail[k].next, nx)
    OBVIOUS
  <2>1. \A p \in M : nx[p] = link[p][s[p]].next
    BY <1>2
  <2> HIDE DEF nx, M, A, s
  <2> QED BY <1>8, <1>9, <2>1 DEF IsRing
<1> HIDE DEF s
<1>11. \A p \in M : link[p][s[p]] = [next |-> link[p][s[p]].next, index |-> s[link[p][s[p]].next]]
  BY <1>2, <1>6, <1>7, <1>9
<1>12. M # {} => tail[k] = [next |-> tail[k].next, index |-> s[tail[k].next]]
  BY <1>6, <1>7, <1>8
<1>13. M # {} => OnRing(M, A, s, tail[k])
  BY <1>10, <1>11, <1>12, Zenon DEF OnRing
<1> QED BY <1>2, <1>3, <1>5, <1>8, <1>13 DEF s

LEMMA FreeFields ==
  ASSUME NEW Q, NEW F, NEW S, Linked(Q, F, S)
  PROVE  /\ F.mem \in SUBSET Proc /\ F.ahead \in [Proc -> SUBSET Proc]
         /\ F = [mem |-> F.mem, ahead |-> F.ahead]
         /\ FP!IsOrder(F.mem, F.ahead)
         /\ IsChain(F.mem, F.ahead, procFree_h, [p \in Proc |-> link[p][0].next])
         /\ \A p \in F.mem : link[p][0] = [next |-> link[p][0].next, index |-> ENULL]
PROOF
<1> DEFINE M == F.mem
           A == F.ahead
           nx == [p \in Proc |-> link[p][0].next]
<1>1. F \in Promise!Fifo /\ Promise!Ordered(F) /\ Chain(F)
  BY DEF Linked
<1>2. M \in SUBSET Proc /\ A \in [Proc -> SUBSET Proc] /\ F = [mem |-> M, ahead |-> A]
  BY <1>1 DEF Promise!Fifo
<1>4. F \in FP!Fifo /\ FP!Ordered(F)
  <2>1. Promise!Fifo = FP!Fifo
    BY DEF Promise!Fifo, FP!Fifo
  <2>2. Promise!Ordered(F) = FP!Ordered(F)
    BY DEF Promise!Ordered, FP!Ordered
  <2> QED BY <1>1, <2>1, <2>2
<1>5. FP!IsOrder(M, A)
  BY <1>4, FP!OrderedFields
<1>6. \A p \in Proc : link[p][0] \in Link
  BY Finite DEF Linked
<1>7. \A l \in Link : l = [next |-> l.next, index |-> l.index]
  BY DEF Link
<1>8. /\ M = {} => procFree_h = ENULL
      /\ M # {} => procFree_h \in M /\ A[procFree_h] = {}
  BY <1>1, Zenon DEF Chain
<1>9. ASSUME NEW p \in M
      PROVE  /\ link[p][0].index = ENULL
             /\ A[p] \cup {p} = M => link[p][0].next = ENULL
             /\ A[p] \cup {p} # M => link[p][0].next \in M /\ A[link[p][0].next] = A[p] \cup {p}
  BY <1>1, Zenon DEF Chain
<1>10. IsChain(M, A, procFree_h, nx)
  <2>1. \A p \in M : nx[p] = link[p][0].next
    BY <1>2
  <2> HIDE DEF nx, M, A
  <2> QED BY <1>8, <1>9, <2>1 DEF IsChain
<1>11. \A p \in M : link[p][0] = [next |-> link[p][0].next, index |-> ENULL]
  BY <1>2, <1>6, <1>7, <1>9
<1> QED BY <1>2, <1>5, <1>10, <1>11

-----------------------------------------------------------------------------
(* What the walks are: the recursive definitions have the values they say. *)
LEMMA WalkSteps ==
  \A k \in Queue :
    tail \in [Queue -> Link] /\ link \in [Proc -> [Slot -> Link]] =>
      Walk(k)[0] = tail[k] /\ \A n \in 1 .. MAXPROC : Walk(k)[n] = Follow(Walk(k)[n - 1])
PROOF
<1> SUFFICES ASSUME NEW k \in Queue, tail \in [Queue -> Link], link \in [Proc -> [Slot -> Link]]
             PROVE  Walk(k)[0] = tail[k] /\ \A n \in 1 .. MAXPROC : Walk(k)[n] = Follow(Walk(k)[n - 1])
  OBVIOUS
<1> DEFINE step == [l \in Link |-> Follow(l)]
<1>1. step \in [Link -> Link]
  <2>1. \A l \in Link : Follow(l) \in Link
    BY DEF Follow, Link, Null
  <2> QED BY <2>1
<1>2. tail[k] \in Link /\ MAXPROC \in Nat
  BY SizeAssumption
<1>3. PICK g \in [0 .. MAXPROC -> Link] :
        g[0] = tail[k] /\ \A n \in 1 .. MAXPROC : g[n] = step[g[n - 1]]
  <2> HIDE DEF step
  <2>1. FP!IsStep(MAXPROC, Link, tail[k], step)
    BY <1>1, <1>2 DEF FP!IsStep
  <2> QED BY <2>1, FP!Iterates
<1>4. g = [n \in 0 .. MAXPROC |-> IF n = 0 THEN tail[k] ELSE Follow(g[n - 1])]
  <2>1. \A l \in Link : step[l] = Follow(l)
    OBVIOUS
  <2>2. \A n \in 1 .. MAXPROC : g[n - 1] \in Link /\ g[n] = Follow(g[n - 1])
    <3> HIDE DEF step
    <3> QED BY <1>2, <1>3, <2>1
  <2> QED BY <1>2, <1>3, <2>2
<1>5. Walk(k) = CHOOSE w : w = [n \in 0 .. MAXPROC |-> IF n = 0 THEN tail[k] ELSE Follow(w[n - 1])]
  BY DEF Walk
<1>6. Walk(k) = [n \in 0 .. MAXPROC |-> IF n = 0 THEN tail[k] ELSE Follow(Walk(k)[n - 1])]
  BY <1>4, <1>5, Zenon
<1> DEFINE w == Walk(k)
<1> HIDE DEF w
<1>7. w = [n \in 0 .. MAXPROC |-> IF n = 0 THEN tail[k] ELSE Follow(w[n - 1])]
  BY <1>6 DEF w
<1>8. w[0] = tail[k] /\ \A n \in 1 .. MAXPROC : w[n] = Follow(w[n - 1])
  BY <1>2, <1>7
<1> QED BY <1>8 DEF w

LEMMA FreeWalkSteps ==
  procFree_h \in Proc \cup {ENULL} /\ link \in [Proc -> [Slot -> Link]] =>
    /\ FreeWalk[0] = procFree_h
    /\ \A n \in 1 .. MAXPROC :
         FreeWalk[n] = IF FreeWalk[n - 1] = ENULL THEN ENULL ELSE link[FreeWalk[n - 1]][0].next
PROOF
<1> SUFFICES ASSUME procFree_h \in Proc \cup {ENULL}, link \in [Proc -> [Slot -> Link]]
             PROVE  /\ FreeWalk[0] = procFree_h
                    /\ \A n \in 1 .. MAXPROC :
                         FreeWalk[n] = IF FreeWalk[n - 1] = ENULL THEN ENULL
                                       ELSE link[FreeWalk[n - 1]][0].next
  OBVIOUS
<1> DEFINE X == Proc \cup {ENULL}
           next(p) == IF p = ENULL THEN ENULL ELSE link[p][0].next
           step == [p \in X |-> next(p)]
<1>1. step \in [X -> X]
  <2>1. \A p \in X : next(p) \in X
    BY Finite DEF Link
  <2> QED BY <2>1
<1>2. procFree_h \in X /\ MAXPROC \in Nat
  BY SizeAssumption
<1>3. PICK g \in [0 .. MAXPROC -> X] :
        g[0] = procFree_h /\ \A n \in 1 .. MAXPROC : g[n] = step[g[n - 1]]
  <2> HIDE DEF step, X
  <2>1. FP!IsStep(MAXPROC, X, procFree_h, step)
    BY <1>1, <1>2 DEF FP!IsStep
  <2> QED BY <2>1, FP!Iterates
<1>4. g = [n \in 0 .. MAXPROC |-> IF n = 0 THEN procFree_h ELSE next(g[n - 1])]
  <2>0. \A p \in X : step[p] = next(p)
    OBVIOUS
  <2>1. \A n \in 1 .. MAXPROC : g[n - 1] \in X /\ g[n] = next(g[n - 1])
    <3> HIDE DEF step, next, X
    <3> QED BY <1>2, <1>3, <2>0
  <2> HIDE DEF next, X
  <2> QED BY <1>2, <1>3, <2>1
<1>5. FreeWalk = CHOOSE f : f = [n \in 0 .. MAXPROC |-> IF n = 0 THEN procFree_h ELSE next(f[n - 1])]
  BY DEF FreeWalk
<1> DEFINE f == FreeWalk
<1>6. f = [n \in 0 .. MAXPROC |-> IF n = 0 THEN procFree_h ELSE next(f[n - 1])]
  BY <1>4, <1>5, Zenon
<1> HIDE DEF f, next
<1>8. f[0] = procFree_h /\ \A n \in 1 .. MAXPROC : f[n] = next(f[n - 1])
  BY <1>2, <1>6
<1> QED BY <1>8 DEF f, next

(* w goes round the entries M, each by the link that s says, and meets the  *)
(* first one of the order A at 1.                                           *)
GoesRound(M, A, s, w) ==
  /\ \A n \in 0 .. MAXPROC : w[n].next \in M /\ w[n] = [next |-> w[n].next, index |-> s[w[n].next]]
  /\ \A n \in 1 .. MAXPROC : w[n] = link[w[n - 1].next][s[w[n - 1].next]]
  /\ A[w[1].next] = {}

(* Round queue k: from the tail to the first entry, and on in its order. *)
LEMMA RingWalk ==
  ASSUME NEW Q, NEW F, NEW S, Linked(Q, F, S), NEW k \in Queue, Q[k].mem # {}
  PROVE  /\ GoesRound(Q[k].mem, Q[k].ahead, S[k], Walk(k))
         /\ Members(k) = Q[k].mem
         /\ Contents([n \in 1 .. MAXPROC |-> Walk(k)[n].next]) = Q[k]
PROOF
<1> DEFINE M == Q[k].mem
           A == Q[k].ahead
           s == S[k]
           nx == [p \in Proc |-> link[p][s[p]].next]
           w == Walk(k)
<1>1. /\ M \in SUBSET Proc /\ A \in [Proc -> SUBSET Proc] /\ Q[k] = [mem |-> M, ahead |-> A]
      /\ FP!IsOrder(M, A) /\ s \in [Proc -> Slot] /\ M # {}
      /\ OnRing(M, A, s, tail[k])
  BY QueueFields
<1>1a. /\ tail[k] = [next |-> tail[k].next, index |-> s[tail[k].next]]
       /\ IsRing(M, A, tail[k].next, nx)
       /\ \A p \in M : link[p][s[p]] = [next |-> link[p][s[p]].next, index |-> s[link[p][s[p]].next]]
  BY <1>1, Zenon DEF OnRing
<1>2. w[0] = tail[k] /\ \A n \in 1 .. MAXPROC : w[n] = Follow(w[n - 1])
  BY WalkSteps DEF Linked
<1>3. ENULL \notin M /\ \A p \in M : s[p] # ENULL
  <2>1. M \in SUBSET Proc /\ s \in [Proc -> Slot]
    BY <1>1
  <2> HIDE DEF M, s
  <2> QED BY <2>1, Finite
<1>3a. \A p \in Proc : nx[p] = link[p][s[p]].next
  OBVIOUS
<1> HIDE DEF M, A, s, w, nx
<1>4. \A p \in M : Follow([next |-> p, index |-> s[p]]) = link[p][s[p]] /\ link[p][s[p]].next \in M
  BY <1>1, <1>1a, <1>3, <1>3a DEF Follow, IsRing
<1> DEFINE Good == {n \in 0 .. MAXPROC : w[n].next \in M /\ w[n] = [next |-> w[n].next, index |-> s[w[n].next]]}
<1>5. 0 \in Good
  BY <1>1, <1>1a, <1>2, Finite DEF IsRing
<1>6. ASSUME NEW n \in 1 .. MAXPROC, n - 1 \in Good
      PROVE  w[n] = link[w[n - 1].next][s[w[n - 1].next]] /\ n \in Good
  <2>1. w[n] = link[w[n - 1].next][s[w[n - 1].next]]
    BY <1>2, <1>4, <1>6
  <2> QED BY <1>1, <1>1a, <1>4, <1>6, <2>1
<1>7. \A n \in 0 .. MAXPROC : n \in Good
  <2> HIDE DEF Good
  <2> QED BY <1>5, <1>6, Finite, FP!UpTo
<1>8. \A n \in 0 .. MAXPROC : w[n].next \in M /\ w[n] = [next |-> w[n].next, index |-> s[w[n].next]]
  BY <1>7
<1>9. \A n \in 1 .. MAXPROC : w[n] = link[w[n - 1].next][s[w[n - 1].next]]
  <2> TAKE n \in 1 .. MAXPROC
  <2>1. n - 1 \in Good
    BY <1>7, Finite
  <2> QED BY <1>6, <2>1
<1> HIDE DEF Good
<1> DEFINE e == [n \in 1 .. MAXPROC |-> w[n].next]
<1>10. e[1] \in M /\ A[e[1]] = {}
  <2>1. 1 \in 1 .. MAXPROC /\ 1 - 1 = 0 /\ 0 \in 0 .. MAXPROC
    BY Finite
  <2>2. e[1] = w[1].next /\ w[1] = link[w[0].next][s[w[0].next]] /\ w[0].next \in M
    BY <1>8, <1>9, <2>1
  <2>3. e[1] = nx[tail[k].next] /\ tail[k].next \in M
    BY <1>1, <1>1a, <1>2, <1>3a, <2>2
  <2> HIDE DEF e
  <2>4. A[tail[k].next] \cup {tail[k].next} = M
    BY <1>1, <1>1a, <2>3 DEF IsRing
  <2> QED BY <1>1, <1>1a, <2>3, <2>4 DEF IsRing
<1>11. \A n \in 1 .. MAXPROC - 1 : e[n] \in M /\ A[e[n]] \cup {e[n]} # M
                                     => e[n + 1] \in M /\ A[e[n + 1]] = A[e[n]] \cup {e[n]}
  <2> SUFFICES ASSUME NEW n \in 1 .. MAXPROC - 1, A[e[n]] \cup {e[n]} # M
               PROVE  e[n + 1] \in M /\ A[e[n + 1]] = A[e[n]] \cup {e[n]}
    OBVIOUS
  <2>1. n \in 0 .. MAXPROC /\ n \in 1 .. MAXPROC /\ n + 1 \in 1 .. MAXPROC /\ (n + 1) - 1 = n
    BY Finite
  <2>2. w[n].next \in M /\ w[n + 1] = link[w[n].next][s[w[n].next]]
    BY <1>8, <1>9, <2>1
  <2>3. e[n] = w[n].next /\ e[n + 1] = nx[w[n].next]
    BY <1>1, <1>1a, <1>3a, <2>1, <2>2
  <2> HIDE DEF e
  <2> QED BY <1>1, <1>1a, <2>2, <2>3 DEF IsRing
<1>12. /\ M \subseteq FP!Met(e, MAXPROC)
       /\ \A p, r \in M : r \in A[p] <=> \E n \in 1 .. MAXPROC : e[n] = r /\ \A m \in 1 .. n : e[m] # p
  <2> HIDE DEF e
  <2>1. FP!IsFiniteSet(Proc) /\ MAXPROC \in Nat /\ FP!Cardinality(Proc) <= MAXPROC
    BY Finite, SameSets
  <2>2. FP!InOrder(M, A, MAXPROC, e)
    BY <1>1, <1>1a, <1>10, <1>11, <2>1 DEF FP!InOrder
  <2> QED BY <2>1, <2>2, FP!WalkMeetsInOrder
<1>13. \A n \in 1 .. MAXPROC : e[n] \in M
  <2> TAKE n \in 1 .. MAXPROC
  <2>1. n \in 0 .. MAXPROC
    BY Finite
  <2>2. e[n] = w[n].next
    OBVIOUS
  <2> HIDE DEF e
  <2> QED BY <1>8, <2>1, <2>2
<1>14. {e[n] : n \in 1 .. MAXPROC} \ {ENULL} = M
  <2> HIDE DEF e
  <2> QED BY <1>3, <1>12, <1>13 DEF FP!Met
<1>15. Contents(e) = [mem |-> M, ahead |-> A]
  <2> HIDE DEF e
  <2>1. Contents(e) = [mem |-> M, ahead |-> [p \in Proc |->
          {r \in M : p \in M /\ \E n \in 1 .. MAXPROC : e[n] = r /\ \A m \in 1 .. n : e[m] # p}]]
    BY <1>14, Zenon DEF Contents
  <2>2. ASSUME NEW p \in Proc
        PROVE  A[p] = {r \in M : p \in M /\ \E n \in 1 .. MAXPROC : e[n] = r /\ \A m \in 1 .. n : e[m] # p}
    BY <1>1, <1>1a, <1>12 DEF FP!IsOrder
  <2>3. A = [p \in Proc |-> A[p]]
    BY <1>1, <1>1a
  <2> QED BY <2>1, <2>2, <2>3
<1>16. Members(k) = M
  <2>1. Members(k) = {w[n].next : n \in 1 .. MAXPROC} \ {ENULL}
    BY DEF Members, w
  <2>2. {w[n].next : n \in 1 .. MAXPROC} = {e[n] : n \in 1 .. MAXPROC}
    OBVIOUS
  <2> QED BY <1>14, <2>1, <2>2
<1>17. A[w[1].next] = {}
  BY <1>10, Finite
<1>18. Contents([n \in 1 .. MAXPROC |-> w[n].next]) = Q[k]
  BY <1>1, <1>1a, <1>15
<1>19. GoesRound(M, A, s, w)
  BY <1>8, <1>9, <1>17, Zenon DEF GoesRound
<1> QED BY <1>16, <1>18, <1>19 DEF M, A, s, w

(* Down the free list: through its entries, in its order, to the last one. *)
LEMMA ChainWalk ==
  ASSUME NEW Q, NEW F, NEW S, Linked(Q, F, S)
  PROVE  /\ procFree_h \in Proc \cup {ENULL}
         /\ FreeList = F.mem
         /\ freeOf = F
         /\ F.mem # {} => LastFree \in F.mem /\ F.ahead[LastFree] \cup {LastFree} = F.mem
PROOF
<1> DEFINE M == F.mem
           A == F.ahead
           nx == [p \in Proc |-> link[p][0].next]
           f == FreeWalk
<1>1. /\ M \in SUBSET Proc /\ A \in [Proc -> SUBSET Proc] /\ F = [mem |-> M, ahead |-> A]
      /\ FP!IsOrder(M, A) /\ IsChain(M, A, procFree_h, nx)
  BY FreeFields
<1>2. procFree_h \in M \cup {ENULL} /\ (procFree_h = ENULL <=> M = {})
  BY <1>1, Finite DEF IsChain
<1>3. ENULL \notin M
  BY <1>1, Finite
<1>4. \A p \in M : nx[p] = link[p][0].next
  BY <1>1
<1>5. f[0] = procFree_h /\ \A n \in 1 .. MAXPROC :
        f[n] = IF f[n - 1] = ENULL THEN ENULL ELSE link[f[n - 1]][0].next
  BY <1>1, <1>2, FreeWalkSteps DEF Linked
<1>6. 0 \in 0 .. MAXPROC /\ MAXPROC \in 1 .. MAXPROC /\ MAXPROC \in Nat
  BY Finite
<1>7. \A n \in 1 .. MAXPROC : n - 1 \in 0 .. MAXPROC /\ n \in 0 .. MAXPROC
  BY Finite
<1>8. freeOf = Contents([n \in 1 .. MAXPROC |-> f[n - 1]])
  BY DEF freeOf
<1>9. FreeList = {f[n] : n \in 0 .. MAXPROC - 1} \ {ENULL}
  BY DEF FreeList
<1>9a. LastFree = f[Max({n \in 0 .. MAXPROC : f[n] # ENULL})]
  BY DEF LastFree
<1>9b. /\ \A p \in M : A[p] \cup {p} = M => nx[p] = ENULL
       /\ \A p \in M : A[p] \cup {p} # M => nx[p] \in M /\ A[nx[p]] = A[p] \cup {p}
       /\ M # {} => A[procFree_h] = {}
  BY <1>1 DEF IsChain
<1> HIDE DEF M, A, nx, f
<1> DEFINE e == [n \in 1 .. MAXPROC |-> f[n - 1]]
           Good == {n \in 0 .. MAXPROC : f[n] = ENULL \/ (f[n] \in M /\ A[f[n]] = FP!Met(e, n))}
<1>10. \A n \in 1 .. MAXPROC : e[n] = f[n - 1]
  OBVIOUS
<1> HIDE DEF e
<1>11. 0 \in Good
  <2>1. FP!Met(e, 0) = {}
    BY FP!MetGrows, <1>6, Finite
  <2> QED BY <2>1, <1>2, <1>5, <1>6, <1>9b
<1>12. ASSUME NEW n \in 1 .. MAXPROC, n - 1 \in Good
       PROVE  /\ n \in Good
              /\ f[n - 1] \in M /\ A[f[n - 1]] \cup {f[n - 1]} # M
                   => f[n] \in M /\ A[f[n]] = A[f[n - 1]] \cup {f[n - 1]}
  <2>1. CASE f[n - 1] = ENULL
    BY <2>1, <1>3, <1>5, <1>7
  <2>2. CASE f[n - 1] \in M /\ A[f[n - 1]] = FP!Met(e, n - 1)
    <3>1. f[n] = nx[f[n - 1]]
      BY <2>2, <1>3, <1>4, <1>5
    <3>2. n \in Nat \ {0}
      BY Finite
    <3>3. FP!Met(e, n) = FP!Met(e, n - 1) \cup {f[n - 1]}
      BY <3>2, <1>10, FP!MetGrows
    <3>4. n \in 0 .. MAXPROC
      BY <1>7
    <3> QED BY <2>2, <3>1, <3>3, <3>4, <1>9b
  <2> QED BY <2>1, <2>2, <1>12
<1>13. \A n \in 0 .. MAXPROC : n \in Good
  <2> HIDE DEF Good
  <2> QED BY <1>6, <1>11, <1>12, FP!UpTo
<1>14. \A n \in 0 .. MAXPROC : f[n] \in M \cup {ENULL}
  BY <1>13
<1>15. \A n \in 1 .. MAXPROC : f[n - 1] \in M /\ A[f[n - 1]] \cup {f[n - 1]} # M
                   => f[n] \in M /\ A[f[n]] = A[f[n - 1]] \cup {f[n - 1]}
  <2> HIDE DEF Good
  <2> QED BY <1>7, <1>12, <1>13
<1>16. {e[n] : n \in 1 .. MAXPROC} = {f[n] : n \in 0 .. MAXPROC - 1}
  <2>1. \A n \in 0 .. MAXPROC - 1 : n + 1 \in 1 .. MAXPROC /\ (n + 1) - 1 = n
    BY <1>6
  <2>2. \A n \in 1 .. MAXPROC : n - 1 \in 0 .. MAXPROC - 1
    BY <1>6
  <2> QED BY <1>10, <2>1, <2>2
<1>17. \A n \in 1 .. MAXPROC : e[n] \in M \cup {ENULL}
  BY <1>7, <1>10, <1>14
<1>18. ASSUME M # {}
       PROVE  /\ M \subseteq FP!Met(e, MAXPROC)
              /\ \A p, r \in M : r \in A[p] <=> \E n \in 1 .. MAXPROC : e[n] = r /\ \A m \in 1 .. n : e[m] # p
  <2>1. FP!IsFiniteSet(Proc) /\ FP!Cardinality(Proc) <= MAXPROC
    BY Finite, SameSets
  <2>2. e[1] \in M /\ A[e[1]] = {}
    <3>1. 1 \in 1 .. MAXPROC /\ 1 - 1 = 0
      BY Finite
    <3> QED BY <1>2, <1>5, <1>9b, <1>10, <1>18, <3>1
  <2>3. \A n \in 1 .. MAXPROC - 1 : e[n] \in M /\ A[e[n]] \cup {e[n]} # M
                                      => e[n + 1] \in M /\ A[e[n + 1]] = A[e[n]] \cup {e[n]}
    <3> TAKE n \in 1 .. MAXPROC - 1
    <3>1. n \in 1 .. MAXPROC /\ n + 1 \in 1 .. MAXPROC /\ (n + 1) - 1 = n
      BY Finite
    <3> QED BY <1>10, <1>15, <3>1
  <2>4. FP!InOrder(M, A, MAXPROC, e)
    BY <1>1, <1>6, <2>1, <2>2, <2>3 DEF FP!InOrder
  <2> QED BY <2>1, <2>4, FP!WalkMeetsInOrder
<1>19. {e[n] : n \in 1 .. MAXPROC} \ {ENULL} = M
  <2>1. M \subseteq {e[n] : n \in 1 .. MAXPROC}
    BY <1>18 DEF FP!Met
  <2> QED BY <1>3, <1>17, <2>1
<1>20. Contents(e) = [mem |-> M, ahead |-> A]
  <2>1. Contents(e) = [mem |-> M, ahead |-> [p \in Proc |->
          {r \in M : p \in M /\ \E n \in 1 .. MAXPROC : e[n] = r /\ \A m \in 1 .. n : e[m] # p}]]
    BY <1>19, Zenon DEF Contents
  <2>2. ASSUME NEW p \in Proc
        PROVE  A[p] = {r \in M : p \in M /\ \E n \in 1 .. MAXPROC : e[n] = r /\ \A m \in 1 .. n : e[m] # p}
    BY <1>1, <1>18 DEF FP!IsOrder
  <2>3. A = [p \in Proc |-> A[p]]
    BY <1>1
  <2> QED BY <2>1, <2>2, <2>3
<1>21. ASSUME M # {} PROVE LastFree \in M /\ A[LastFree] \cup {LastFree} = M
  <2> DEFINE T == {n \in 0 .. MAXPROC : f[n] # ENULL}
  <2>1. T # {} /\ T \subseteq 0 .. MAXPROC
    BY <1>2, <1>3, <1>5, <1>6, <1>21
  <2>2. PICK last \in T : \A n \in T : n <= last
    <3> DEFINE U == {MAXPROC - n : n \in T}
    <3>1. U \in SUBSET Nat /\ U # {}
      BY <2>1, <1>6
    <3>2. PICK u \in U : \A n \in U : u <= n
      <4> HIDE DEF U
      <4> QED BY <3>1, FP!LeastExists
    <3>3. MAXPROC - u \in T /\ u \in Nat
      BY <2>1, <3>1, <1>6
    <3>4. \A n \in T : u <= MAXPROC - n
      BY <3>2
    <3>5. \A n \in T : n <= MAXPROC - u
      BY <2>1, <3>3, <3>4, <1>6
    <3> QED BY <3>3, <3>5
  <2>3. Max(T) \in T /\ \A n \in T : n <= Max(T)
    <3>1. Max(T) = CHOOSE x \in T : \A y \in T : x >= y
      BY DEF Max
    <3>2. last \in T /\ \A y \in T : last >= y
      BY <2>1, <2>2, <1>6
    <3> HIDE DEF T
    <3>3. Max(T) \in T /\ \A y \in T : Max(T) >= y
      BY <3>1, <3>2, Zenon
    <3> QED BY <3>3, <2>1, <1>6
  <2> DEFINE n == Max(T)
  <2>4. LastFree = f[n]
    BY <1>9a
  <2>5. n \in 0 .. MAXPROC /\ f[n] # ENULL /\ \A m \in 0 .. MAXPROC : f[m] # ENULL => m <= n
    BY <2>3
  <2> HIDE DEF n, T
  <2>6. f[n] \in M /\ A[f[n]] = FP!Met(e, n)
    BY <1>13, <2>5
  <2>7. n # MAXPROC
    BY <1>1, <1>18, <1>21, <2>6 DEF FP!IsOrder
  <2>8. A[f[n]] \cup {f[n]} = M
    <3>1. n + 1 \in 1 .. MAXPROC /\ (n + 1) - 1 = n /\ n + 1 \in 0 .. MAXPROC /\ ~ (n + 1 <= n)
      BY <2>5, <2>7, <1>6
    <3> QED BY <3>1, <1>3, <1>15, <2>5, <2>6
  <2> QED BY <2>4, <2>6, <2>8
<1>22. procFree_h \in Proc \cup {ENULL}
  BY <1>1, <1>2
<1>23. freeOf = F
  BY <1>1, <1>8, <1>20 DEF e
<1>24. FreeList = M
  BY <1>9, <1>16, <1>19
<1> QED BY <1>21, <1>22, <1>23, <1>24 DEF M, A

(* An invariant that speaks of any queues that the links stand for speaks   *)
(* of the contents of the walks.                                            *)
LEMMA MappingFound ==
  \A Q, F, S : Linked(Q, F, S) => queueOf = Q /\ freeOf = F
PROOF
<1> SUFFICES ASSUME NEW Q, NEW F, NEW S, Linked(Q, F, S) PROVE queueOf = Q /\ freeOf = F
  OBVIOUS
<1>1. freeOf = F
  BY ChainWalk
<1>2. ASSUME NEW k \in Queue PROVE Contents([n \in 1 .. MAXPROC |-> Walk(k)[n].next]) = Q[k]
  <2>1. CASE Q[k].mem # {}
    BY <2>1, RingWalk
  <2>2. CASE Q[k].mem = {}
    <3>1. tail[k] = Null /\ Q[k] = [mem |-> {}, ahead |-> Q[k].ahead]
          /\ Q[k].ahead \in [Proc -> SUBSET Proc] /\ \A p \in Proc : Q[k].ahead[p] = {}
      <4>1. /\ Q[k].ahead \in [Proc -> SUBSET Proc]
            /\ Q[k] = [mem |-> Q[k].mem, ahead |-> Q[k].ahead]
            /\ FP!IsOrder(Q[k].mem, Q[k].ahead)
            /\ Q[k].mem = {} => tail[k] = Null
        BY QueueFields
      <4>5. FP!IsOrder({}, Q[k].ahead) /\ tail[k] = Null
        BY <4>1, <2>2, Zenon
      <4>2. ASSUME NEW A, FP!IsOrder({}, A) PROVE \A p \in Proc : A[p] = {}
        BY <4>2 DEF FP!IsOrder
      <4>3. \A p \in Proc : Q[k].ahead[p] = {}
        BY <4>5, <4>2, Zenon
      <4>4. Q[k] = [mem |-> {}, ahead |-> Q[k].ahead]
        BY <4>1, <2>2, Zenon
      <4> QED BY <4>1, <4>5, <4>3, <4>4
    <3> DEFINE w == Walk(k)
               Good == {n \in 0 .. MAXPROC : w[n] = Null}
    <3>2. w[0] = Null /\ \A n \in 1 .. MAXPROC : w[n] = Follow(w[n - 1])
      BY <3>1, WalkSteps DEF Linked
    <3>3. Follow(Null) = Null
      BY DEF Follow, Null
    <3> HIDE DEF w
    <3>4. 0 \in Good
      BY <3>2, Finite
    <3>5. ASSUME NEW n \in 1 .. MAXPROC, n - 1 \in Good PROVE n \in Good
      BY <3>2, <3>3, <3>5, Finite
    <3>6. \A n \in 0 .. MAXPROC : n \in Good
      <4> HIDE DEF Good
      <4> QED BY <3>4, <3>5, Finite, FP!UpTo
    <3> DEFINE e == [n \in 1 .. MAXPROC |-> w[n].next]
    <3>7. {e[n] : n \in 1 .. MAXPROC} \ {ENULL} = {}
      <4>1. \A n \in 1 .. MAXPROC : n \in 0 .. MAXPROC
        BY Finite
      <4>2. \A n \in 1 .. MAXPROC : e[n] = ENULL
        BY <3>6, <4>1 DEF Null
      <4> HIDE DEF e
      <4> QED BY <4>2
    <3>8. Contents(e) = [mem |-> {}, ahead |-> [p \in Proc |-> {}]]
      <4> HIDE DEF e
      <4>1. Contents(e) = [mem |-> {}, ahead |-> [p \in Proc |->
              {r \in {} : p \in {} /\ \E n \in 1 .. MAXPROC : e[n] = r /\ \A m \in 1 .. n : e[m] # p}]]
        BY <3>7, Zenon DEF Contents
      <4> QED BY <4>1
    <3>9. Q[k].ahead = [p \in Proc |-> {}]
      BY <3>1
    <3>10. Contents([n \in 1 .. MAXPROC |-> w[n].next]) = Q[k]
      BY <3>1, <3>8, <3>9
    <3> QED BY <3>10 DEF w
  <2> QED BY <2>1, <2>2
<1>3. Q = [k \in Queue |-> Q[k]]
  BY DEF Linked
<1>4. queueOf = [k \in Queue |-> Q[k]]
  BY <1>2, Zenon DEF queueOf
<1> QED BY <1>1, <1>3, <1>4

-----------------------------------------------------------------------------
(* Storing into one link changes that link only. *)
Stored(N, L, p, s, v) ==
  /\ N \in [Proc -> [Slot -> Link]] /\ N[p][s] = v
  /\ \A q \in Proc, t \in Slot : q # p \/ t # s => N[q][t] = L[q][t]

LEMMA SetLinkIs ==
  ASSUME NEW L \in [Proc -> [Slot -> Link]], NEW l, NEW p \in Proc, NEW s \in Slot,
         l.next = p, l.index = s, NEW v \in Link
  PROVE  Stored(SetLink(L, l, v), L, p, s, v)
PROOF
<1>1. SetLink(L, l, v) = [L EXCEPT ![p] = [L[p] EXCEPT ![s] = v]]
  BY DEF SetLink
<1> DEFINE row == [L[p] EXCEPT ![s] = v]
<1>2. row \in [Slot -> Link] /\ row[s] = v /\ \A t \in Slot \ {s} : row[t] = L[p][t]
  OBVIOUS
<1> HIDE DEF row
<1>3. /\ [L EXCEPT ![p] = row] \in [Proc -> [Slot -> Link]]
      /\ [L EXCEPT ![p] = row][p] = row
      /\ \A q \in Proc \ {p} : [L EXCEPT ![p] = row][q] = L[q]
  BY <1>2
<1>4. SetLink(L, l, v) = [L EXCEPT ![p] = row]
  BY <1>1, Zenon DEF row
<1> DEFINE N == [L EXCEPT ![p] = row]
<1> HIDE DEF N
<1>5. Stored(N, L, p, s, v)
  BY <1>2, <1>3 DEF Stored, N
<1> QED BY <1>4, <1>5, Zenon DEF N

(* An entry is on as many queues as it has links in use. *)
LEMMA QueuesOfEntry ==
  ASSUME NEW Q, NEW F, NEW S, Linked(Q, F, S), NEW p \in Proc
  PROVE  /\ IsFiniteSet({k \in Queue : p \in Q[k].mem})
         /\ Cardinality({k \in Queue : p \in Q[k].mem}) \in Nat
         /\ Cardinality({k \in Queue : p \in Q[k].mem}) <= SEMMAX
         /\ p \notin F.mem => Cardinality({k \in Queue : p \in Q[k].mem})
                                = Cardinality({s \in Slot : link[p][s].next # ENULL})
PROOF
<1> DEFINE K == {k \in Queue : p \in Q[k].mem}
           U == {S[k][p] : k \in K}
           f == [k \in K |-> S[k][p]]
<1>1. U \subseteq Slot /\ \A k, j \in K : S[k][p] = S[j][p] => k = j
  BY DEF Linked, LinksOf
<1>2. f \in Injection(K, U) /\ f \in Surjection(K, U)
  BY <1>1 DEF Injection, Surjection, IsInjective
<1>3. IsFiniteSet(Slot) /\ IsFiniteSet(U) /\ Cardinality(U) <= Cardinality(Slot)
  BY <1>1, Finite, FS_Subset
<1>4. Cardinality(Slot) = SEMMAX
  BY SlotCount
<1>6. IsFiniteSet(K) /\ Cardinality(K) = Cardinality(U)
  <2> HIDE DEF K, U, f
  <2>1. IsFiniteSet(K)
    BY <1>2, <1>3, FS_Injection
  <2> QED BY <1>2, <2>1, FS_Surjection
<1>7. Cardinality(K) \in Nat
  BY <1>6, FS_CardinalityType
<1>8. ASSUME p \notin F.mem PROVE U = {s \in Slot : link[p][s].next # ENULL}
  <2>1. ASSUME NEW k \in K PROVE link[p][S[k][p]].next # ENULL
    <3>1. p \in Q[k].mem
      OBVIOUS
    <3>2. Q[k].mem \subseteq Proc
      BY QueueFields
    <3>3. link[p][S[k][p]].next \in Q[k].mem
      BY <3>1, Zenon DEF Linked, Ring
    <3> QED BY <3>2, <3>3, Finite
  <2>2. ASSUME NEW s \in Slot, s \notin U PROVE link[p][s].next = ENULL
    <3>1. \A k \in Queue : p \in Q[k].mem => S[k][p] # s
      BY <2>2
    <3>2. link[p][s] = Null
      BY <1>8, <3>1 DEF Linked
    <3> QED BY <3>2 DEF Null
  <2> QED BY <1>1, <2>1, <2>2
<1> QED BY <1>3, <1>4, <1>6, <1>7, <1>8

-----------------------------------------------------------------------------
(* How Linked is established: for the links, and for a ring and a chain in  *)
(* the next state.                                                          *)
LEMMA RingNext ==
  ASSUME NEW M \in SUBSET Proc, NEW A, NEW q, q.mem = M, q.ahead = A, NEW k, NEW s,
         M = {} => tail'[k] = Null,
         M # {} => /\ tail'[k].index = s[tail'[k].next]
                   /\ IsRing(M, A, tail'[k].next, [p \in Proc |-> link'[p][s[p]].next]),
         \A p \in M : link'[p][s[p]].index = s[link'[p][s[p]].next]
  PROVE  Ring(q, tail[k], s)'
PROOF
<1> DEFINE nx == [p \in Proc |-> link'[p][s[p]].next]
<1>1. q.mem = M /\ q.ahead = A /\ \A p \in M : nx[p] = link'[p][s[p]].next
  OBVIOUS
<1>2. \A p \in M : AheadOfNext(q, p) = IF A[p] \cup {p} = M THEN {} ELSE A[p] \cup {p}
  BY <1>1, Zenon DEF AheadOfNext
<1> HIDE DEF nx
<1>3. IF q.mem = {} THEN tail'[k] = Null
      ELSE tail'[k].next \in q.mem /\ tail'[k].index = s[tail'[k].next]
           /\ q.ahead[tail'[k].next] = q.mem \ {tail'[k].next}
  BY <1>1 DEF IsRing, nx
<1>4. \A p \in q.mem :
        /\ link'[p][s[p]].next \in q.mem
        /\ link'[p][s[p]].index = s[link'[p][s[p]].next]
        /\ q.ahead[link'[p][s[p]].next] = AheadOfNext(q, p)
  <2> SUFFICES ASSUME NEW p \in M
               PROVE  /\ link'[p][s[p]].index = s[link'[p][s[p]].next]
                      /\ link'[p][s[p]].next \in M
                      /\ A[link'[p][s[p]].next] = AheadOfNext(q, p)
    BY <1>1
  <2>1. IsRing(M, A, tail'[k].next, nx)
    BY DEF nx
  <2>2. /\ nx[p] \in M
        /\ A[p] \cup {p} = M => A[nx[p]] = {}
        /\ A[p] \cup {p} # M => A[nx[p]] = A[p] \cup {p}
    BY <2>1 DEF IsRing
  <2>3. nx[p] = link'[p][s[p]].next
    BY <1>1
  <2> QED BY <1>2, <2>2, <2>3
<1> QED BY <1>3, <1>4, Zenon DEF Ring, AheadOfNext

LEMMA ChainNext ==
  ASSUME NEW M \in SUBSET Proc, NEW A,
         IsChain(M, A, procFree_h', [p \in Proc |-> link'[p][0].next]),
         \A p \in M : link'[p][0].index = ENULL
  PROVE  Chain([mem |-> M, ahead |-> A])'
PROOF
<1> DEFINE q == [mem |-> M, ahead |-> A]
           nx == [p \in Proc |-> link'[p][0].next]
<1>1. q.mem = M /\ q.ahead = A /\ \A p \in M : nx[p] = link'[p][0].next
  OBVIOUS
<1>2. IsChain(M, A, procFree_h', nx)
  OBVIOUS
<1> HIDE DEF q, nx
<1>3. IF q.mem = {} THEN procFree_h' = ENULL
      ELSE procFree_h' \in q.mem /\ q.ahead[procFree_h'] = {}
  BY <1>1, <1>2 DEF IsChain
<1>4. \A p \in q.mem :
       /\ link'[p][0].index = ENULL
       /\ IF q.ahead[p] \cup {p} = q.mem THEN link'[p][0].next = ENULL
          ELSE /\ link'[p][0].next \in q.mem
               /\ q.ahead[link'[p][0].next] = q.ahead[p] \cup {p}
  BY <1>1, <1>2 DEF IsChain
<1>5. Chain(q)'
  BY <1>3, <1>4, Zenon DEF Chain, q
<1> QED BY <1>5 DEF q

(* Fifo records, of the two fields. *)
LEMMA OrderedRecord ==
  ASSUME NEW M \in SUBSET Proc, NEW A \in [Proc -> SUBSET Proc], FP!IsOrder(M, A)
  PROVE  [mem |-> M, ahead |-> A] \in Promise!Fifo /\ Promise!Ordered([mem |-> M, ahead |-> A])
PROOF
<1> DEFINE q == [mem |-> M, ahead |-> A]
<1>1. q.mem = M /\ q.ahead = A /\ q \in FP!Fifo /\ q \in Promise!Fifo
  BY DEF FP!Fifo, Promise!Fifo
<1>2. FP!Ordered(q) <=> FP!IsOrder(q.mem, q.ahead)
  <2> HIDE DEF q
  <2> QED BY <1>1, FP!OrderedFields
<1>3. FP!Ordered(q)
  BY <1>1, <1>2
<1>4. Promise!Ordered(q) = FP!Ordered(q)
  BY DEF Promise!Ordered, FP!Ordered
<1> QED BY <1>1, <1>3, <1>4

LEMMA RingKept ==
  ASSUME NEW q, NEW k, NEW s, Ring(q, tail[k], s), tail'[k] = tail[k],
         \A p \in q.mem : link'[p][s[p]] = link[p][s[p]]
  PROVE  Ring(q, tail[k], s)'
PROOF
<1>1. /\ IF q.mem = {} THEN tail[k] = Null
         ELSE tail[k].next \in q.mem /\ tail[k].index = s[tail[k].next]
              /\ q.ahead[tail[k].next] = q.mem \ {tail[k].next}
      /\ \A p \in q.mem :
           /\ link[p][s[p]].next \in q.mem /\ link[p][s[p]].index = s[link[p][s[p]].next]
           /\ q.ahead[link[p][s[p]].next] = AheadOfNext(q, p)
  BY Zenon DEF Ring
<1>2. /\ IF q.mem = {} THEN tail'[k] = Null
         ELSE tail'[k].next \in q.mem /\ tail'[k].index = s[tail'[k].next]
              /\ q.ahead[tail'[k].next] = q.mem \ {tail'[k].next}
      /\ \A p \in q.mem :
           /\ link'[p][s[p]].next \in q.mem /\ link'[p][s[p]].index = s[link'[p][s[p]].next]
           /\ q.ahead[link'[p][s[p]].next] = AheadOfNext(q, p)
  BY <1>1
<1> QED BY <1>2, Zenon DEF Ring, AheadOfNext

LEMMA ChainKept ==
  ASSUME NEW q, Chain(q), procFree_h' = procFree_h, \A p \in q.mem : link'[p][0] = link[p][0]
  PROVE  Chain(q)'
PROOF
<1>1. /\ IF q.mem = {} THEN procFree_h = ENULL
         ELSE procFree_h \in q.mem /\ q.ahead[procFree_h] = {}
      /\ \A p \in q.mem :
           /\ link[p][0].index = ENULL
           /\ IF q.ahead[p] \cup {p} = q.mem THEN link[p][0].next = ENULL
              ELSE /\ link[p][0].next \in q.mem
                   /\ q.ahead[link[p][0].next] = q.ahead[p] \cup {p}
  BY Zenon DEF Chain
<1>2. /\ IF q.mem = {} THEN procFree_h' = ENULL
         ELSE procFree_h' \in q.mem /\ q.ahead[procFree_h'] = {}
      /\ \A p \in q.mem :
           /\ link'[p][0].index = ENULL
           /\ IF q.ahead[p] \cup {p} = q.mem THEN link'[p][0].next = ENULL
              ELSE /\ link'[p][0].next \in q.mem
                   /\ q.ahead[link'[p][0].next] = q.ahead[p] \cup {p}
  BY <1>1
<1> QED BY <1>2, Zenon DEF Chain

(* What an operation on queue k does, which then has the entries M in the   *)
(* order A, with their links s: only these links change.                    *)
Changes(Q, F, S, k, M, A, s) ==
  /\ M \in SUBSET Proc /\ A \in [Proc -> SUBSET Proc] /\ FP!IsOrder(M, A)
  /\ M \cap F.mem = {}
  /\ s \in [Proc -> Slot] /\ \A p \in Q[k].mem : s[p] = S[k][p]
  /\ SlotOf[k] # Any => \A p \in M : s[p] = SlotOf[k]
  /\ \A j \in Queue \ {k} : \A p \in M \cap Q[j].mem : s[p] # S[j][p]
  /\ link' \in [Proc -> [Slot -> Link]]
  /\ \A p \in Proc, t \in Slot : t # s[p] \/ p \notin Q[k].mem \cup M => link'[p][t] = link[p][t]
  /\ \A p \in Q[k].mem \ M : link'[p][s[p]] = Null
  /\ \A p \in M : link'[p][s[p]].index = s[link'[p][s[p]].next]
  /\ tail' \in [Queue -> Link] /\ \A j \in Queue \ {k} : tail'[j] = tail[j]
  /\ M = {} => tail'[k] = Null
  /\ M # {} => /\ tail'[k].index = s[tail'[k].next]
               /\ IsRing(M, A, tail'[k].next, [p \in Proc |-> link'[p][s[p]].next])
  /\ procFree_h' = procFree_h
  /\ \A p \in Proc : qcount'[p] = IF p \in M \ Q[k].mem THEN qcount[p] + 1
                                  ELSE IF p \in Q[k].mem \ M THEN qcount[p] - 1 ELSE qcount[p]

(* The queue k of Q has the entries M in the order A, then. *)
Updated(Q, k, M, A) == [Q EXCEPT ![k] = [mem |-> M, ahead |-> A]]

(* Whose links are those of the others, and s for queue k. *)
LEMMA LinksUpdated ==
  ASSUME NEW Q, NEW F, NEW S, Linked(Q, F, S), NEW k \in Queue, NEW M, NEW A, NEW s,
         Changes(Q, F, S, k, M, A, s), NEW R, R[k].mem = M, \A j \in Queue \ {k} : R[j] = Q[j]
  PROVE  LinksOf(R, [S EXCEPT ![k] = s])
PROOF
<1> DEFINE T == [S EXCEPT ![k] = s]
<1>1. /\ S \in [Queue -> [Proc -> Slot]] /\ M \in SUBSET Proc
      /\ \A j \in Queue : SlotOf[j] # Any => \A p \in Q[j].mem : S[j][p] = SlotOf[j]
      /\ \A i, j \in Queue : i # j => \A p \in Q[i].mem \cap Q[j].mem : S[i][p] # S[j][p]
  BY DEF Linked, LinksOf, Changes
<1>2. /\ s \in [Proc -> Slot]
      /\ SlotOf[k] # Any => \A p \in M : s[p] = SlotOf[k]
      /\ \A j \in Queue \ {k} : \A p \in M \cap Q[j].mem : s[p] # S[j][p]
  BY DEF Changes
<1>3. T \in [Queue -> [Proc -> Slot]] /\ T[k] = s /\ \A j \in Queue \ {k} : T[j] = S[j]
  BY <1>1, <1>2
<1> HIDE DEF T
<1>4. ASSUME NEW j \in Queue, SlotOf[j] # Any, NEW p \in R[j].mem PROVE T[j][p] = SlotOf[j]
  BY <1>1, <1>2, <1>3, <1>4
<1>5. ASSUME NEW i \in Queue, NEW j \in Queue, i # j, NEW p \in R[i].mem \cap R[j].mem
      PROVE  T[i][p] # T[j][p]
  <2>1. CASE i = k
    <3>1. j \in Queue \ {k} /\ p \in M \cap Q[j].mem
      BY <2>1, <1>5
    <3> QED BY <2>1, <3>1, <1>2, <1>3
  <2>2. CASE j = k
    <3>1. i \in Queue \ {k} /\ p \in M \cap Q[i].mem
      BY <2>2, <1>5
    <3> QED BY <2>2, <3>1, <1>2, <1>3
  <2>3. CASE i # k /\ j # k
    BY <2>3, <1>1, <1>3, <1>5
  <2> QED BY <2>1, <2>2, <2>3
<1>6. LinksOf(R, T)
  BY <1>3, <1>4, <1>5, Zenon DEF LinksOf
<1> QED BY <1>6 DEF T

LEMMA QueueChanges ==
  ASSUME NEW Q, NEW F, NEW S, Linked(Q, F, S), NEW k \in Queue, NEW M, NEW A, NEW s,
         Changes(Q, F, S, k, M, A, s)
  PROVE  Linked(Updated(Q, k, M, A), F, [S EXCEPT ![k] = s])'
PROOF
<1> DEFINE R == Updated(Q, k, M, A)
           T == [S EXCEPT ![k] = s]
           N == Q[k].mem
<1>a. /\ Q \in [Queue -> Promise!Fifo] /\ \A j \in Queue : Promise!Ordered(Q[j])
      /\ F \in Promise!Fifo /\ Promise!Ordered(F) /\ Chain(F)
  BY DEF Linked
<1>b. /\ \A j \in Queue : Ring(Q[j], tail[j], S[j]) /\ Q[j].mem \cap F.mem = {}
      /\ S \in [Queue -> [Proc -> Slot]]
      /\ \A i, j \in Queue : i # j => \A p \in Q[i].mem \cap Q[j].mem : S[i][p] # S[j][p]
  BY DEF Linked, LinksOf
<1>c. \A p \in Proc, t \in Slot :
       (\A j \in Queue : p \in Q[j].mem => S[j][p] # t) /\ (t = 0 => p \notin F.mem)
         => link[p][t] = Null
  BY DEF Linked
<1>d. /\ M \in SUBSET Proc /\ A \in [Proc -> SUBSET Proc] /\ FP!IsOrder(M, A)
      /\ M \cap F.mem = {} /\ tail' \in [Queue -> Link] /\ link' \in [Proc -> [Slot -> Link]]
      /\ procFree_h' = procFree_h /\ \A j \in Queue \ {k} : tail'[j] = tail[j]
      /\ s \in [Proc -> Slot] /\ \A p \in N : s[p] = S[k][p]
      /\ \A j \in Queue \ {k} : \A p \in M \cap Q[j].mem : s[p] # S[j][p]
  BY DEF Changes
<1>e. \A p \in Proc, t \in Slot : t # s[p] \/ p \notin N \cup M => link'[p][t] = link[p][t]
  BY DEF Changes
<1>f. \A p \in N \ M : link'[p][s[p]] = Null
  BY DEF Changes
<1>g. \A q : q.mem = M /\ q.ahead = A => Ring(q, tail[k], s)'
  <2>1. /\ M = {} => tail'[k] = Null
        /\ M # {} => /\ tail'[k].index = s[tail'[k].next]
                     /\ IsRing(M, A, tail'[k].next, [p \in Proc |-> link'[p][s[p]].next])
        /\ \A p \in M : link'[p][s[p]].index = s[link'[p][s[p]].next]
    BY Zenon DEF Changes
  <2> QED BY <1>d, <2>1, RingNext
<1>2. /\ R \in [Queue -> Promise!Fifo] /\ \A j \in Queue : Promise!Ordered(R[j])
      /\ R[k].mem = M /\ R[k] = [mem |-> M, ahead |-> A] /\ \A j \in Queue \ {k} : R[j] = Q[j]
  <2>1. [mem |-> M, ahead |-> A] \in Promise!Fifo /\ Promise!Ordered([mem |-> M, ahead |-> A])
    BY <1>d, OrderedRecord
  <2>2. [mem |-> M, ahead |-> A].mem = M
    OBVIOUS
  <2> DEFINE q == [mem |-> M, ahead |-> A]
  <2> HIDE DEF q
  <2>3. /\ [Q EXCEPT ![k] = q] \in [Queue -> Promise!Fifo] /\ [Q EXCEPT ![k] = q][k] = q
        /\ \A j \in Queue \ {k} : [Q EXCEPT ![k] = q][j] = Q[j]
    BY <1>a, <2>1 DEF q
  <2>4. \A j \in Queue : Promise!Ordered([Q EXCEPT ![k] = q][j])
    <3> TAKE j \in Queue
    <3>1. CASE j = k
      BY <3>1, <2>1, <2>3, Zenon DEF q
    <3>2. CASE j # k
      BY <3>2, <1>a, <2>3
    <3> QED BY <3>1, <3>2
  <2> QED BY <2>2, <2>3, <2>4, Zenon DEF q, Updated
<1>3. F.mem \subseteq Proc
  BY FreeFields
<1>4. N \subseteq Proc /\ \A j \in Queue : Q[j].mem \subseteq Proc
  BY QueueFields
<1>l. LinksOf(R, T)
  BY <1>2, LinksUpdated
<1>m. T[k] = s /\ \A j \in Queue \ {k} : T[j] = S[j]
  BY <1>b
<1> HIDE DEF R, T, N
<1>5. ASSUME NEW j \in Queue PROVE (Ring(R[j], tail[j], T[j]))'
  <2>1. CASE j = k
    <3>1. R[k].mem = M /\ R[k].ahead = A
      BY <1>2
    <3>2. Ring(R[k], tail[k], s)'
      BY <1>g, <3>1
    <3> QED BY <2>1, <3>2, <1>m, Zenon
  <2>2. CASE j # k
    <3>1. R[j] = Q[j] /\ tail'[j] = tail[j] /\ T[j] = S[j]
      BY <1>2, <1>d, <1>m, <2>2
    <3>2. \A p \in Q[j].mem : link'[p][S[j][p]] = link[p][S[j][p]]
      <4> TAKE p \in Q[j].mem
      <4>1. S[j][p] # s[p] \/ p \notin N \cup M
        BY <2>2, <1>b, <1>d DEF N
      <4>2. p \in Proc
        BY <1>4
      <4>3. S[j][p] \in Slot
        BY <4>2, <1>b
      <4> QED BY <4>1, <4>2, <4>3, <1>e
    <3>3. ASSUME NEW q, NEW u, q = Q[j], u = S[j] PROVE (Ring(q, tail[j], u))'
      <4>1. /\ Ring(q, tail[j], u) /\ tail'[j] = tail[j]
            /\ \A p \in q.mem : link'[p][u[p]] = link[p][u[p]]
        BY <1>b, <3>1, <3>2, <3>3
      <4> QED BY <4>1, RingKept
    <3> QED BY <3>1, <3>3
  <2> QED BY <2>1, <2>2
<1>10. \A j \in Queue : R[j].mem \cap F.mem = {}
  BY <1>2, <1>b, <1>d
<1>7. Chain(F)'
  <2>1. \A p \in F.mem : link'[p][0] = link[p][0]
    <3>1. F.mem \cap N = {} /\ F.mem \cap M = {} /\ 0 \in Slot
      BY <1>b, <1>d, Finite DEF N
    <3> QED BY <3>1, <1>3, <1>e
  <2> QED BY <2>1, <1>a, <1>d, ChainKept
<1>8. ASSUME NEW p \in Proc, NEW t \in Slot,
             \A j \in Queue : p \in R[j].mem => T[j][p] # t, t = 0 => p \notin F.mem
      PROVE  link'[p][t] = Null
  <2>0. /\ p \in M => s[p] # t
        /\ \A j \in Queue \ {k} : p \in Q[j].mem => S[j][p] # t
    BY <1>2, <1>8, <1>m
  <2>1. CASE t = s[p] /\ p \in N
    <3>1. p \notin M
      BY <2>0, <2>1
    <3> QED BY <2>1, <3>1, <1>f
  <2>2. CASE ~ (t = s[p] /\ p \in N)
    <3>1. \A j \in Queue : p \in Q[j].mem => S[j][p] # t
      BY <2>0, <2>2, <1>d DEF N
    <3>2. link[p][t] = Null
      BY <1>8, <3>1, <1>c
    <3>3. t # s[p] \/ p \notin N \cup M
      BY <2>0, <2>2
    <3> QED BY <3>2, <3>3, <1>e
  <2> QED BY <2>1, <2>2
<1>9. ASSUME NEW p \in Proc
      PROVE  qcount'[p] = Cardinality({j \in Queue : p \in R[j].mem})
  <2> DEFINE J == {j \in Queue : p \in Q[j].mem}
             I == {j \in Queue : p \in R[j].mem}
  <2>1. IsFiniteSet(J) /\ Cardinality(J) \in Nat
    BY QueuesOfEntry
  <2>6. qcount[p] = Cardinality(J)
    BY Zenon DEF Linked
  <2>2. p \in M \ N => I = J \cup {k} /\ k \notin J
    BY <1>2 DEF N
  <2>3. p \in N \ M => I = J \ {k} /\ k \in J
    BY <1>2 DEF N
  <2>4. p \notin M \ N /\ p \notin N \ M => I = J
    BY <1>2 DEF N
  <2>5. /\ p \in M \ N => qcount'[p] = qcount[p] + 1
        /\ p \in N \ M => qcount'[p] = qcount[p] - 1
        /\ p \notin M \ N /\ p \notin N \ M => qcount'[p] = qcount[p]
    <3>1. qcount'[p] = IF p \in M \ N THEN qcount[p] + 1
                       ELSE IF p \in N \ M THEN qcount[p] - 1 ELSE qcount[p]
      BY Zenon DEF Changes, N
    <3> QED BY <3>1
  <2> HIDE DEF I, J
  <2>8. /\ k \notin J => Cardinality(J \cup {k}) = Cardinality(J) + 1
        /\ k \in J => Cardinality(J \ {k}) = Cardinality(J) - 1
    BY <2>1, FS_AddElement, FS_RemoveElement
  <2>9. qcount'[p] = Cardinality(I)
    BY <2>1, <2>6, <2>2, <2>3, <2>4, <2>5, <2>8
  <2> QED BY <2>9 DEF I
<1>11. Linked(R, F, T)'
  <2>1. \A j \in Queue : Ring(R[j], tail[j], T[j])'
    BY <1>5
  <2>2. LinksOf(R, T)'
    BY <1>l DEF LinksOf
  <2>3. \A p \in Proc, t \in Slot :
          (\A j \in Queue : p \in R[j].mem => T[j][p] # t) /\ (t = 0 => p \notin F.mem)
            => link'[p][t] = Null
    BY <1>8
  <2>4. \A p \in Proc : qcount'[p] = Cardinality({j \in Queue : p \in R[j].mem})
    BY <1>9
  <2> QED BY <1>a, <1>d, <1>2, <1>10, <1>7, <2>1, <2>2, <2>3, <2>4, Zenon DEF Linked
<1> QED BY <1>11 DEF R, T

-----------------------------------------------------------------------------
(* The steps.  Each leaves the links for the queues that ProcQueueSpec says. *)
LEMMA MembersAre ==
  ASSUME NEW Q, NEW F, NEW S, Linked(Q, F, S), NEW k \in Queue
  PROVE  Members(k) = Q[k].mem
PROOF
<1>1. queueOf[k] = Contents([n \in 1 .. MAXPROC |-> Walk(k)[n].next])
  BY DEF queueOf
<1>2. queueOf = Q
  BY MappingFound
<1> DEFINE e == [n \in 1 .. MAXPROC |-> Walk(k)[n].next]
<1>3. Members(k) = {e[n] : n \in 1 .. MAXPROC} \ {ENULL}
  BY DEF Members
<1> HIDE DEF e
<1>4. Contents(e).mem = {e[n] : n \in 1 .. MAXPROC} \ {ENULL}
  BY DEF Contents
<1> QED BY <1>1, <1>2, <1>3, <1>4 DEF e

(* Where the head of a queue is: t leads to the last entry, h to the first. *)
TailAndHead(M, A, s, t, h) ==
  /\ t # Null /\ t.next # ENULL /\ t.index # ENULL
  /\ t.index = s[t.next] /\ t.next \in M
  /\ h = link[t.next][s[t.next]]
  /\ h.index = s[h.next] /\ h.next \in M /\ A[h.next] = {}

LEMMA HeadIs ==
  ASSUME NEW Q, NEW F, NEW S, Linked(Q, F, S), NEW k \in Queue, Q[k].mem # {}
  PROVE  TailAndHead(Q[k].mem, Q[k].ahead, S[k], tail[k], Follow(tail[k]))
PROOF
<1> DEFINE M == Q[k].mem
           A == Q[k].ahead
           s == S[k]
           nx == [p \in Proc |-> link[p][s[p]].next]
           last == tail[k].next
<1>1. /\ M \in SUBSET Proc /\ A \in [Proc -> SUBSET Proc] /\ s \in [Proc -> Slot]
      /\ tail[k] = [next |-> last, index |-> s[last]] /\ IsRing(M, A, last, nx)
  <2>1. M \in SUBSET Proc /\ A \in [Proc -> SUBSET Proc] /\ s \in [Proc -> Slot]
    BY QueueFields
  <2>2. OnRing(M, A, s, tail[k])
    BY QueueFields
  <2>3. tail[k] = [next |-> last, index |-> s[last]] /\ IsRing(M, A, last, nx)
    BY <2>2, Zenon DEF OnRing
  <2> QED BY <2>1, <2>3, Zenon
<1>1a. \A p \in M : link[p][s[p]].index = s[link[p][s[p]].next]
  BY Zenon DEF Linked, Ring
<1>2. ENULL \notin M /\ \A p \in M : s[p] # ENULL
  BY <1>1, Finite
<1>3. \A p \in Proc : nx[p] = link[p][s[p]].next
  OBVIOUS
<1> HIDE DEF M, A, s, nx
<1>4. last \in M /\ nx[last] \in M /\ A[nx[last]] = {} /\ nx[last] = link[last][s[last]].next
  <2> HIDE DEF last
  <2>1. last \in M /\ A[last] \cup {last} = M
    BY <1>1 DEF IsRing
  <2>2. nx[last] \in M /\ A[nx[last]] = {}
    BY <1>1, <2>1 DEF IsRing
  <2>3. nx[last] = link[last][s[last]].next
    BY <1>1, <1>3, <2>1
  <2> QED BY <2>1, <2>2, <2>3
<1>5. tail[k] # Null /\ tail[k].next = last /\ tail[k].index = s[last]
  <2>1. \A v, i : v = [next |-> v.next, index |-> i] => v.index = i
    OBVIOUS
  <2>2. tail[k].index = s[last]
    BY <1>1, <2>1, Zenon
  <2>3. tail[k].next # ENULL
    BY <1>2, <1>4
  <2>4. Null.next = ENULL
    BY DEF Null
  <2> QED BY <2>2, <2>3, <2>4, Zenon
<1>5a. Follow(tail[k]) = link[last][s[last]]
  BY <1>2, <1>4, <1>5 DEF Follow
<1> HIDE DEF last
<1>6. link[last][s[last]].index = s[link[last][s[last]].next]
  BY <1>1a, <1>4
<1> DEFINE h == Follow(tail[k])
<1>7. /\ h = link[last][s[last]] /\ h.index = s[h.next] /\ h.next \in M /\ A[h.next] = {}
      /\ tail[k].next # ENULL /\ tail[k].index # ENULL /\ tail[k].index = s[tail[k].next]
  BY <1>2, <1>4, <1>5, <1>5a, <1>6, Zenon
<1> HIDE DEF h
<1>8. TailAndHead(M, A, s, tail[k], h)
  BY <1>4, <1>5, <1>7, Zenon DEF TailAndHead
<1> QED BY <1>8, Zenon DEF M, A, s, h

LEMMA FrontIs ==
  ASSUME NEW q \in Promise!Fifo, Promise!Ordered(q), NEW p \in q.mem, q.ahead[p] = {}
  PROVE  p = Promise!Front(q)
PROOF
<1>1. Promise!Front(q) = FP!Front(q)
  BY DEF Promise!Front, FP!Front
<1>2. q \in FP!Fifo /\ FP!Ordered(q)
  <2>1. Promise!Fifo = FP!Fifo
    BY DEF Promise!Fifo, FP!Fifo
  <2>2. Promise!Ordered(q) = FP!Ordered(q)
    BY DEF Promise!Ordered, FP!Ordered
  <2> QED BY <2>1, <2>2
<1>3. FP!IsFiniteSet(Proc)
  BY Finite, SameSets
<1>4. p = FP!Front(q)
  BY <1>2, <1>3, FP!FrontExists
<1> QED BY <1>1, <1>4

(* The link that findAvailableQueueSlot finds is in no use. *)
LEMMA SlotFound ==
  ASSUME NEW Q, NEW F, NEW S, Linked(Q, F, S), NEW p \in Proc \ F.mem, qcount[p] < SEMMAX
  PROVE  /\ findAvailableQueueSlot(p) \in Slot
         /\ link[p][findAvailableQueueSlot(p)].next = ENULL
PROOF
<1> DEFINE idle == {t \in Slot : link[p][t].next = ENULL}
           used == {t \in Slot : link[p][t].next # ENULL}
<1>1. findAvailableQueueSlot(p) = IF idle = {} THEN ENULL ELSE Min(idle)
  BY DEF findAvailableQueueSlot
<1>2. Cardinality(used) = qcount[p]
  <2>1. qcount[p] = Cardinality({k \in Queue : p \in Q[k].mem})
    BY Zenon DEF Linked
  <2> QED BY <2>1, QueuesOfEntry
<1>3. idle # {}
  <2> SUFFICES ASSUME idle = {} PROVE FALSE
    OBVIOUS
  <2>1. used = Slot
    OBVIOUS
  <2> HIDE DEF used, idle
  <2> QED BY <2>1, <1>2, SlotCount, SizeAssumption
<1>4. idle \in SUBSET Nat
  BY DEF Slot
<1>5. PICK t \in idle : \A u \in idle : t <= u
  <2> HIDE DEF idle
  <2> QED BY <1>3, <1>4, FP!LeastExists
<1>6. Min(idle) = CHOOSE x \in idle : \A y \in idle : x <= y
  BY DEF Min
<1>7. Min(idle) \in idle
  <2> HIDE DEF idle
  <2> QED BY <1>5, <1>6, Zenon
<1> QED BY <1>1, <1>3, <1>7

LEMMA InsertStep ==
  ASSUME NEW Q, NEW F, NEW S, Linked(Q, F, S), qcount \in [Proc -> Nat],
         NEW k \in Queue, NEW p \in Proc, insertProc(k, p)
  PROVE  /\ p \notin F.mem \cup Q[k].mem
         /\ \E T : Linked([Q EXCEPT ![k] = Promise!Insert(@, p)], F, T)'
         /\ qcount' \in [Proc -> Nat]
PROOF
<1>0. PICK u : u = findAvailableQueueSlot(p)
  OBVIOUS
<1> DEFINE M == Q[k].mem
           A == Q[k].ahead
           s == [S[k] EXCEPT ![p] = u]
           nx == [q \in Proc |-> link[q][S[k][q]].next]
           last == tail[k].next
           l == [next |-> p, index |-> u]
           N == M \cup {p}
           B == [A EXCEPT ![p] = M]
           ny == [q \in Proc |-> link'[q][s[q]].next]
<1>1. /\ M \in SUBSET Proc /\ A \in [Proc -> SUBSET Proc] /\ FP!IsOrder(M, A) /\ S[k] \in [Proc -> Slot]
      /\ M = {} => tail[k] = Null
      /\ M # {} => tail[k] = [next |-> last, index |-> S[k][last]] /\ IsRing(M, A, last, nx)
  <2>1. M \in SUBSET Proc /\ A \in [Proc -> SUBSET Proc] /\ FP!IsOrder(M, A) /\ S[k] \in [Proc -> Slot]
    BY QueueFields
  <2>2. (M = {} => tail[k] = Null) /\ (M # {} => OnRing(M, A, S[k], tail[k]))
    BY QueueFields
  <2>3. M # {} => tail[k] = [next |-> last, index |-> S[k][last]] /\ IsRing(M, A, last, nx)
    BY <2>2, Zenon DEF OnRing
  <2> QED BY <2>1, <2>2, <2>3, Zenon
<1>2. p \notin F.mem \cup M
  BY MembersAre, ChainWalk DEF insertProc
<1>3. u \in Slot /\ link[p][u].next = ENULL
  <2>1. p \in Proc \ F.mem /\ qcount[p] < SEMMAX
    BY <1>2 DEF insertProc
  <2> QED BY <2>1, <1>0, SlotFound
<1>3a. SlotOf[k] # Any => SlotOf[k] = u
  BY <1>0, Zenon DEF insertProc
<1>4. link' = IF tail[k] = Null THEN SetLink(link, l, l)
              ELSE SetLink(SetLink(link, tail[k], l), l, Follow(tail[k]))
  BY <1>0, Zenon DEF insertProc
<1>5. tail' = [tail EXCEPT ![k] = l] /\ qcount' = [qcount EXCEPT ![p] = @ + 1] /\ procFree_h' = procFree_h
  BY <1>0, Zenon DEF insertProc
<1>6. l \in Link /\ l.index = u /\ l.next = p
  BY <1>3 DEF Link
<1>7. link \in [Proc -> [Slot -> Link]] /\ tail \in [Queue -> Link]
  BY DEF Linked
<1>6a. s \in [Proc -> Slot] /\ s[p] = u /\ \A q \in Proc \ {p} : s[q] = S[k][q]
  BY <1>1, <1>3
<1>6b. \A q \in M : s[q] = S[k][q] /\ link[q][s[q]].next \in M /\ link[q][s[q]].index = s[link[q][s[q]].next]
  <2>1. \A q \in M : q # p /\ q \in Proc
    BY <1>1, <1>2
  <2>2. ASSUME NEW q \in M
        PROVE  link[q][S[k][q]].next \in M /\ link[q][S[k][q]].index = S[k][link[q][S[k][q]].next]
    BY Zenon DEF Linked, Ring
  <2> HIDE DEF M, s
  <2> QED BY <2>1, <2>2, <1>6a
<1>7a. \A q \in Proc : nx[q] = link[q][S[k][q]].next /\ ny[q] = link'[q][s[q]].next
  OBVIOUS
<1>7b. \A r \in Proc : (r = p => B[r] = M) /\ (r # p => B[r] = A[r])
  BY <1>1
<1>7c. N \in SUBSET Proc /\ B \in [Proc -> SUBSET Proc] /\ FP!IsOrder(N, B)
  BY <1>1, <1>2, FP!InsertOrder
<1>7d. Promise!Insert(Q[k], p) = [mem |-> N, ahead |-> B]
  BY DEF Promise!Insert
<1> HIDE DEF M, A, s, nx, last, N, B, ny, l
<1>8. /\ link' \in [Proc -> [Slot -> Link]]
      /\ \A q \in Proc, t \in Slot : t # s[q] \/ q \notin N => link'[q][t] = link[q][t]
      /\ \A q \in N : link'[q][s[q]].index = s[link'[q][s[q]].next]
      /\ IsRing(N, B, p, ny)
  <2>1. CASE M = {}
    <3>1. link' = SetLink(link, l, l)
      BY <2>1, <1>1, <1>4
    <3>2. /\ link' \in [Proc -> [Slot -> Link]] /\ link'[p][u] = l
          /\ \A q \in Proc, t \in Slot : q # p \/ t # u => link'[q][t] = link[q][t]
      <4>1. Stored(SetLink(link, l, l), link, p, u, l)
        BY <1>3, <1>6, <1>7, SetLinkIs, Zenon
      <4> QED BY <3>1, <4>1 DEF Stored
    <3>3. N = {p} /\ ny[p] = p /\ B[p] = {}
      BY <2>1, <3>2, <1>6, <1>6a, <1>7a, <1>7b DEF N
    <3>4. IsRing(N, B, p, ny)
      BY <3>3 DEF IsRing
    <3> QED BY <3>2, <3>3, <3>4, <1>6, <1>6a
  <2>2. CASE M # {}
    <3>1. tail[k] = [next |-> last, index |-> s[last]] /\ last \in M /\ last \in Proc
          /\ s[last] \in Slot /\ IsRing(M, A, last, nx)
      BY <2>2, <1>1, <1>6a, <1>6b DEF IsRing
    <3>2. tail[k] # Null /\ Follow(tail[k]) = link[last][s[last]]
      <4>1. TailAndHead(M, A, S[k], tail[k], Follow(tail[k]))
        BY <2>2, HeadIs DEF M, A
      <4>2. tail[k] # Null /\ Follow(tail[k]) = link[last][S[k][last]]
        BY <4>1, Zenon DEF TailAndHead, last
      <4> QED BY <4>2, <3>1, <1>6b
    <3> DEFINE L == SetLink(link, tail[k], l)
    <3>3. /\ L \in [Proc -> [Slot -> Link]] /\ L[last][s[last]] = l
          /\ \A q \in Proc, t \in Slot : q # last \/ t # s[last] => L[q][t] = link[q][t]
      <4>1. tail[k].next = last /\ tail[k].index = s[last]
        BY <3>1
      <4>2. Stored(L, link, last, s[last], l)
        BY <4>1, <3>1, <1>6, <1>7, SetLinkIs, Zenon
      <4> HIDE DEF L
      <4> QED BY <4>2, Zenon DEF Stored
    <3>4. link' = SetLink(L, l, link[last][s[last]])
      BY <3>2, <1>4
    <3>5. link[last][s[last]] \in Link
      BY <3>1, <1>7
    <3> HIDE DEF L
    <3>6. /\ link' \in [Proc -> [Slot -> Link]] /\ link'[p][u] = link[last][s[last]]
          /\ \A q \in Proc, t \in Slot : q # p \/ t # u => link'[q][t] = L[q][t]
      <4>1. Stored(SetLink(L, l, link[last][s[last]]), L, p, u, link[last][s[last]])
        BY <3>3, <3>5, <1>3, <1>6, SetLinkIs, Zenon
      <4> QED BY <3>4, <4>1 DEF Stored
    <3>7. p # last /\ \A q \in M : q # p /\ q \in Proc /\ s[q] \in Slot
      BY <3>1, <1>1, <1>2, <1>6a DEF M
    <3>8. link'[last][s[last]] = l /\ \A q \in M \ {last} : link'[q][s[q]] = link[q][s[q]]
      BY <3>1, <3>3, <3>6, <3>7
    <3>9. ny[last] = p /\ ny[p] = nx[last] /\ \A q \in M \ {last} : ny[q] = nx[q]
      <4>1. ny[last] = p
        BY <3>1, <3>8, <1>6, <1>7a
      <4>2. ny[p] = nx[last]
        <5>1. nx[last] = link[last][s[last]].next
          BY <3>1, <1>6b, <1>7a
        <5> QED BY <5>1, <3>6, <1>6a, <1>7a
      <4>3. ASSUME NEW q \in M \ {last} PROVE ny[q] = nx[q]
        <5>1. q \in Proc /\ s[q] = S[k][q]
          BY <3>7, <1>6b
        <5> QED BY <5>1, <3>8, <1>7a
      <4> QED BY <4>1, <4>2, <4>3
    <3>10. IsRing(N, B, p, ny)
      <4>1. p \in Proc \ M /\ B[p] = M /\ \A r \in M : B[r] = A[r]
        BY <1>1, <1>2, <1>7b DEF M
      <4> QED BY <3>1, <3>9, <4>1, <1>1, RingAppend DEF N
    <3>11. \A q \in N : link'[q][s[q]].index = s[link'[q][s[q]].next]
      <4>1. link'[p][s[p]].index = s[link'[p][s[p]].next]
        BY <3>1, <3>6, <1>6a, <1>6b
      <4>2. link'[last][s[last]].index = s[link'[last][s[last]].next]
        BY <3>8, <1>6, <1>6a
      <4>3. \A q \in M \ {last} : link'[q][s[q]].index = s[link'[q][s[q]].next]
        BY <3>8, <1>6b
      <4> QED BY <4>1, <4>2, <4>3 DEF N
    <3>12. \A q \in Proc, t \in Slot : t # s[q] \/ q \notin N => link'[q][t] = link[q][t]
      <4> SUFFICES ASSUME NEW q \in Proc, NEW t \in Slot, t # s[q] \/ q \notin N
                   PROVE  link'[q][t] = link[q][t]
        OBVIOUS
      <4>1. link'[q][t] = L[q][t]
        BY <3>6, <1>6a DEF N
      <4>2. L[q][t] = link[q][t]
        BY <3>1, <3>3 DEF N
      <4> QED BY <4>1, <4>2
    <3> QED BY <3>6, <3>10, <3>11, <3>12
  <2> QED BY <2>1, <2>2
<1>9. Changes(Q, F, S, k, N, B, s)
  <2>1. N \cap F.mem = {}
    <3>1. M \cap F.mem = {}
      BY DEF Linked, M
    <3> QED BY <3>1, <1>2 DEF N
  <2>2. ASSUME NEW j \in Queue \ {k}, NEW q \in N \cap Q[j].mem PROVE s[q] # S[j][q]
    <3>1. CASE q \in M
      <4>1. s[q] = S[k][q]
        BY <3>1, <1>6b
      <4>2. S[k][q] # S[j][q]
        BY <3>1 DEF Linked, LinksOf, M
      <4> QED BY <4>1, <4>2
    <3>2. CASE q = p
      <4>1. link[p][S[j][p]].next \in Q[j].mem
        BY <3>2, Zenon DEF Linked, Ring
      <4>2. Q[j].mem \subseteq Proc
        BY QueueFields
      <4> QED BY <3>2, <4>1, <4>2, <1>3, <1>6a, Finite
    <3> QED BY <3>1, <3>2 DEF N
  <2>3. /\ tail' \in [Queue -> Link] /\ tail'[k] = l /\ \A j \in Queue \ {k} : tail'[j] = tail[j]
    BY <1>5, <1>6, <1>7
  <2>4. \A q \in Proc, t \in Slot : t # s[q] \/ q \notin M \cup N => link'[q][t] = link[q][t]
    BY <1>8 DEF N
  <2>5. M \ N = {} /\ N # {} /\ N \ M = {p}
    BY <1>2 DEF N, M
  <2>6. \A q \in Proc : qcount'[q] = IF q \in N \ M THEN qcount[q] + 1
                                     ELSE IF q \in M \ N THEN qcount[q] - 1 ELSE qcount[q]
    BY <1>5, <2>5
  <2>7. N # {} => tail'[k].index = s[tail'[k].next] /\ IsRing(N, B, tail'[k].next, ny)
    BY <2>3, <1>6, <1>6a, <1>8
  <2>8. N = {} => tail'[k] = Null
    BY <2>5
  <2>9. \A q \in M \ N : link'[q][s[q]] = Null
    BY <2>5
  <2>10. SlotOf[k] # Any => \A q \in N : s[q] = SlotOf[k]
    <3>1. SlotOf[k] # Any => \A q \in M : S[k][q] = SlotOf[k]
      BY DEF Linked, LinksOf, M
    <3> QED BY <3>1, <1>3a, <1>6a, <1>6b DEF N
  <2>11. \A q \in M : s[q] = S[k][q]
    BY <1>6b
  <2>12. \A j \in Queue \ {k} : \A q \in N \cap Q[j].mem : s[q] # S[j][q]
    BY <2>2
  <2> HIDE DEF N, B
  <2>13. /\ link' \in [Proc -> [Slot -> Link]]
         /\ \A q \in N : link'[q][s[q]].index = s[link'[q][s[q]].next]
    BY <1>8
  <2>14. /\ N \cap F.mem = {} /\ s \in [Proc -> Slot] /\ \A q \in M : s[q] = S[k][q]
         /\ SlotOf[k] # Any => \A q \in N : s[q] = SlotOf[k]
         /\ \A j \in Queue \ {k} : \A q \in N \cap Q[j].mem : s[q] # S[j][q]
    BY <1>6a, <2>1, <2>10, <2>11, <2>12, Zenon
  <2>15. /\ tail' \in [Queue -> Link] /\ \A j \in Queue \ {k} : tail'[j] = tail[j]
         /\ procFree_h' = procFree_h
    BY <1>5, <2>3, Zenon
  <2> QED
    BY <1>7c, <2>13, <2>14, <2>15, <2>4, <2>6, <2>7, <2>8, <2>9, Zenon DEF Changes, M, ny
<1>10. Linked(Updated(Q, k, N, B), F, [S EXCEPT ![k] = s])'
  BY <1>9, QueueChanges
<1>11. Updated(Q, k, N, B) = [Q EXCEPT ![k] = Promise!Insert(@, p)]
  BY <1>7d, Zenon DEF Updated
<1>12. qcount' \in [Proc -> Nat]
  BY <1>5
<1>13. \E T : Linked([Q EXCEPT ![k] = Promise!Insert(@, p)], F, T)'
  <2>1. Linked([Q EXCEPT ![k] = Promise!Insert(@, p)], F, [S EXCEPT ![k] = s])'
    BY <1>10, <1>11, Zenon
  <2> DEFINE T == [S EXCEPT ![k] = s]
  <2> HIDE DEF T
  <2>2. Linked([Q EXCEPT ![k] = Promise!Insert(@, p)], F, T)'
    BY <2>1 DEF T
  <2> QED BY <2>2
<1> QED BY <1>2, <1>12, <1>13 DEF M

(* x is taken out from behind prev; P and X are their links among the s.    *)
Leaves(k, s, x, prev, P, X) ==
  /\ P.next = prev /\ P.index = s[prev] /\ X.next = x /\ X.index = s[x]
  /\ link' = SetLink(SetLink(link, P, link[x][s[x]]), X, Null)
  /\ tail' = IF x = tail[k].next THEN [tail EXCEPT ![k] = [next |-> prev, index |-> s[prev]]] ELSE tail
  /\ qcount' = [qcount EXCEPT ![x] = @ - 1]
  /\ procFree_h' = procFree_h

(* The order that is left. *)
Without(A, x) == [r \in Proc |-> IF r \in {x} THEN {} ELSE A[r] \ {x}]

(* The links s of the entries N are theirs for queue k alone. *)
OwnLinks(Q, F, S, k, N, s) ==
  /\ N \cap F.mem = {}
  /\ SlotOf[k] # Any => \A p \in N : s[p] = SlotOf[k]
  /\ \A j \in Queue \ {k} : \A p \in N \cap Q[j].mem : s[p] # S[j][p]

(* The links of the entries that stay on queue k are still their own. *)
LEMMA StillTheirs ==
  ASSUME NEW Q, NEW F, NEW S, Linked(Q, F, S), NEW k \in Queue, NEW N \in SUBSET Q[k].mem
  PROVE  OwnLinks(Q, F, S, k, N, S[k])
PROOF
<1>1. Q[k].mem \cap F.mem = {} /\ LinksOf(Q, S)
  BY DEF Linked
<1>2. /\ S[k] \in [Proc -> Slot]
      /\ SlotOf[k] # Any => \A p \in Q[k].mem : S[k][p] = SlotOf[k]
      /\ \A j \in Queue : k # j => \A p \in Q[k].mem \cap Q[j].mem : S[k][p] # S[j][p]
  BY <1>1 DEF LinksOf
<1> QED BY <1>1, <1>2 DEF OwnLinks

LEMMA LeavesStep ==
  ASSUME NEW Q, NEW F, NEW S, Linked(Q, F, S), NEW k \in Queue, NEW x \in Q[k].mem, NEW prev \in Q[k].mem,
         x # prev, link[prev][S[k][prev]].next = x, NEW P, NEW X, Leaves(k, S[k], x, prev, P, X),
         qcount \in [Proc -> Nat]
  PROVE  Changes(Q, F, S, k, Q[k].mem \ {x}, Without(Q[k].ahead, x), S[k])
PROOF
<1> DEFINE M == Q[k].mem
           A == Q[k].ahead
           s == S[k]
           nx == [q \in Proc |-> link[q][s[q]].next]
           last == tail[k].next
           N == M \ {x}
           B == Without(A, x)
           ny == [q \in Proc |-> link'[q][s[q]].next]
           L == SetLink(link, P, link[x][s[x]])
<1>1. /\ M \in SUBSET Proc /\ A \in [Proc -> SUBSET Proc] /\ FP!IsOrder(M, A) /\ s \in [Proc -> Slot]
      /\ tail[k] = [next |-> last, index |-> s[last]] /\ IsRing(M, A, last, nx)
  <2>1. M \in SUBSET Proc /\ A \in [Proc -> SUBSET Proc] /\ FP!IsOrder(M, A) /\ s \in [Proc -> Slot]
    BY QueueFields
  <2>2. OnRing(M, A, s, tail[k])
    BY QueueFields
  <2>3. tail[k] = [next |-> last, index |-> s[last]] /\ IsRing(M, A, last, nx)
    BY <2>2, Zenon DEF OnRing
  <2> QED BY <2>1, <2>3, Zenon
<1>2. /\ P.next = prev /\ P.index = s[prev] /\ X.next = x /\ X.index = s[x]
      /\ link' = SetLink(L, X, Null)
      /\ tail' = IF x = last THEN [tail EXCEPT ![k] = [next |-> prev, index |-> s[prev]]] ELSE tail
      /\ qcount' = [qcount EXCEPT ![x] = @ - 1]
      /\ procFree_h' = procFree_h
  BY Zenon DEF Leaves
<1>3. link \in [Proc -> [Slot -> Link]] /\ tail \in [Queue -> Link]
  BY DEF Linked
<1>4. \A q \in Proc : nx[q] = link[q][s[q]].next /\ ny[q] = link'[q][s[q]].next
  OBVIOUS
<1>5. /\ x \in M /\ prev \in M /\ nx[prev] = x /\ x \in Proc /\ prev \in Proc
      /\ s[x] \in Slot /\ s[prev] \in Slot /\ link[x][s[x]] \in Link
  <2>1. x \in M /\ prev \in M /\ x \in Proc /\ prev \in Proc /\ s[x] \in Slot /\ s[prev] \in Slot
    BY <1>1
  <2>2. nx[prev] = x /\ link[x][s[x]] \in Link
    BY <2>1, <1>3
  <2> QED BY <2>1, <2>2
<1>6. \A q \in M : link[q][s[q]].next \in M /\ link[q][s[q]].index = s[link[q][s[q]].next]
  BY Zenon DEF Linked, Ring
<1>7. N \in SUBSET Proc /\ B \in [Proc -> SUBSET Proc] /\ FP!IsOrder(N, B) /\ \A r \in N : B[r] = A[r] \ {x}
  <2> DEFINE C == [r \in Proc |-> IF r \in {x} THEN {} ELSE A[r] \ {x}]
  <2>1. FP!IsOrder(N, C)
    BY <1>1, FP!RemoveOrder
  <2>2. C \in [Proc -> SUBSET Proc] /\ N \in SUBSET Proc /\ \A r \in N : C[r] = A[r] \ {x}
    BY <1>1
  <2> QED BY <2>1, <2>2, Zenon DEF Without
<1>7a. /\ N \cap F.mem = {}
       /\ SlotOf[k] # Any => \A p \in N : s[p] = SlotOf[k]
       /\ \A j \in Queue \ {k} : \A p \in N \cap Q[j].mem : s[p] # S[j][p]
  <2>1. Q[k].mem \ {x} \in SUBSET Q[k].mem
    OBVIOUS
  <2>2. OwnLinks(Q, F, S, k, Q[k].mem \ {x}, S[k])
    BY <2>1, StillTheirs
  <2> QED BY <2>2, Zenon DEF OwnLinks
<1> HIDE DEF M, A, s, nx, last, N, B, ny, L
<1>8. /\ L \in [Proc -> [Slot -> Link]] /\ L[prev][s[prev]] = link[x][s[x]]
      /\ \A q \in Proc, t \in Slot : q # prev \/ t # s[prev] => L[q][t] = link[q][t]
  <2>1. Stored(L, link, prev, s[prev], link[x][s[x]])
    BY <1>2, <1>3, <1>5, SetLinkIs, Zenon DEF L
  <2> QED BY <2>1, Zenon DEF Stored
<1>9. /\ link' \in [Proc -> [Slot -> Link]] /\ link'[x][s[x]] = Null
      /\ \A q \in Proc, t \in Slot : q # x \/ t # s[x] => link'[q][t] = L[q][t]
  <2>1. Null \in Link
    BY DEF Null, Link
  <2>2. Stored(SetLink(L, X, Null), L, x, s[x], Null)
    BY <2>1, <1>2, <1>5, <1>8, SetLinkIs, Zenon
  <2> QED BY <2>2, <1>2 DEF Stored
<1>10. /\ link'[prev][s[prev]] = link[x][s[x]]
       /\ \A q \in M \ {x, prev} : link'[q][s[q]] = link[q][s[q]]
       /\ \A q \in Proc, t \in Slot : t # s[q] \/ q \notin M => link'[q][t] = link[q][t]
  <2>1. link'[prev][s[prev]] = link[x][s[x]]
    BY <1>5, <1>8, <1>9
  <2>2. ASSUME NEW q \in M \ {x, prev} PROVE link'[q][s[q]] = link[q][s[q]]
    <3>1. q \in Proc /\ s[q] \in Slot
      BY <1>1
    <3> QED BY <3>1, <1>8, <1>9
  <2>3. ASSUME NEW q \in Proc, NEW t \in Slot, t # s[q] \/ q \notin M PROVE link'[q][t] = link[q][t]
    <3>1. link'[q][t] = L[q][t]
      BY <2>3, <1>5, <1>9
    <3>2. L[q][t] = link[q][t]
      BY <2>3, <1>5, <1>8
    <3> QED BY <3>1, <3>2
  <2> QED BY <2>1, <2>2, <2>3
<1>11. ny[prev] = nx[x] /\ \A r \in M \ {x, prev} : ny[r] = nx[r]
  <2>1. ny[prev] = nx[x]
    BY <1>4, <1>5, <1>10
  <2>2. ASSUME NEW r \in M \ {x, prev} PROVE ny[r] = nx[r]
    <3>1. r \in Proc
      BY <1>1
    <3> QED BY <3>1, <1>4, <1>10
  <2> QED BY <2>1, <2>2
<1>13. \A q \in N : link'[q][s[q]].index = s[link'[q][s[q]].next]
  <2> TAKE q \in N
  <2>1. CASE q = prev
    BY <2>1, <1>5, <1>6, <1>10
  <2>2. CASE q # prev
    <3>1. q \in M \ {x, prev}
      BY <2>2 DEF N
    <3> QED BY <3>1, <1>6, <1>10
  <2> QED BY <2>1, <2>2
<1>14. /\ tail' \in [Queue -> Link] /\ \A j \in Queue \ {k} : tail'[j] = tail[j]
       /\ tail'[k].index = s[tail'[k].next]
       /\ x = last => tail'[k].next = prev
       /\ x # last => tail'[k].next = last
  <2> DEFINE v == [next |-> prev, index |-> s[prev]]
  <2>1. v \in Link /\ v.next = prev /\ v.index = s[prev]
    BY <1>5 DEF Link
  <2>2. tail[k].next = last /\ tail[k].index = s[last]
    BY <1>1
  <2> HIDE DEF v
  <2>3. tail' = IF x = last THEN [tail EXCEPT ![k] = v] ELSE tail
    BY <1>2 DEF v
  <2>4. CASE x = last
    BY <2>1, <2>3, <2>4, <1>3
  <2>5. CASE x # last
    BY <2>2, <2>3, <2>5, <1>3
  <2> QED BY <2>4, <2>5
<1>15. IsRing(N, B, tail'[k].next, ny)
  <2>2. /\ \A r \in M \ {x} : B[r] = A[r] \ {x}
        /\ \A r \in M \ {x, prev} : ny[r] = nx[r]
        /\ x # prev /\ ny[prev] = nx[x] /\ nx[prev] = x
    BY <1>5, <1>7, <1>11 DEF N
  <2> DEFINE z == tail'[k].next
  <2>3. (x = last => z = prev) /\ (x # last => z = last)
    BY <1>14
  <2> HIDE DEF z
  <2>4. Skips(M, A, nx, last, x, prev, B, ny, z)
    BY <2>2, <2>3, <1>5 DEF Skips
  <2>5. IsRing(M \ {x}, B, z, ny)
    BY <2>4, <1>1, RingTake
  <2> QED BY <2>5, Zenon DEF N, z
<1>16. M \ N = {x} /\ N \ M = {} /\ N # {} /\ M \cup N = M
  <2>1. prev \in N
    BY <1>5 DEF N
  <2> QED BY <2>1, <1>5 DEF N
<1>17. \A q \in Proc : qcount'[q] = IF q \in N \ M THEN qcount[q] + 1
                                    ELSE IF q \in M \ N THEN qcount[q] - 1 ELSE qcount[q]
  <2>1. \A q \in Proc : qcount'[q] = IF q = x THEN qcount[q] - 1 ELSE qcount[q]
    BY <1>2
  <2> QED BY <2>1, <1>16
<1>18. \A q \in M \ N : link'[q][s[q]] = Null
  BY <1>9, <1>16
<1>19. /\ \A q \in Proc, t \in Slot : t # s[q] \/ q \notin M \cup N => link'[q][t] = link[q][t]
       /\ N = {} => tail'[k] = Null
       /\ N # {} => tail'[k].index = s[tail'[k].next] /\ IsRing(N, B, tail'[k].next, ny)
  BY <1>10, <1>14, <1>15, <1>16
<1>20. s \in [Proc -> Slot] /\ \A q \in M : s[q] = S[k][q]
  BY <1>1 DEF s
<1>21. /\ link' \in [Proc -> [Slot -> Link]] /\ procFree_h' = procFree_h
       /\ tail' \in [Queue -> Link] /\ \A j \in Queue \ {k} : tail'[j] = tail[j]
       /\ N \in SUBSET Proc /\ B \in [Proc -> SUBSET Proc] /\ FP!IsOrder(N, B)
  BY <1>2, <1>7, <1>9, <1>14, Zenon
<1>22. Changes(Q, F, S, k, N, B, s)
  BY <1>7a, <1>13, <1>17, <1>18, <1>19, <1>20, <1>21, Zenon DEF Changes, M, ny
<1> QED BY <1>22 DEF M, A, N, B, s

(* What is left is the queue that ProcQueueSpec leaves. *)
LEMMA RemovedStep ==
  ASSUME NEW Q, NEW F, NEW S, Linked(Q, F, S), NEW k \in Queue, NEW x \in Q[k].mem,
         Changes(Q, F, S, k, Q[k].mem \ {x}, Without(Q[k].ahead, x), S[k]),
         qcount \in [Proc -> Nat], qcount' = [qcount EXCEPT ![x] = @ - 1]
  PROVE  /\ Linked([Q EXCEPT ![k] = Promise!Remove(@, {x})], F, S)'
         /\ qcount' \in [Proc -> Nat]
PROOF
<1>1. Linked(Updated(Q, k, Q[k].mem \ {x}, Without(Q[k].ahead, x)), F, S)'
  <2>1. Linked(Updated(Q, k, Q[k].mem \ {x}, Without(Q[k].ahead, x)), F, [S EXCEPT ![k] = S[k]])'
    BY QueueChanges
  <2>2. [S EXCEPT ![k] = S[k]] = S
    BY DEF Linked, LinksOf
  <2> QED BY <2>1, <2>2, Zenon
<1>2. Promise!Remove(Q[k], {x}) = [mem |-> Q[k].mem \ {x}, ahead |-> Without(Q[k].ahead, x)]
  BY DEF Promise!Remove, Without
<1>3. Updated(Q, k, Q[k].mem \ {x}, Without(Q[k].ahead, x)) = [Q EXCEPT ![k] = Promise!Remove(@, {x})]
  BY <1>2, Zenon DEF Updated
<1>4. x \in Proc
  BY QueueFields
<1>5. qcount[x] # 0
  <2> DEFINE K == {j \in Queue : x \in Q[j].mem}
  <2>1. IsFiniteSet(K) /\ qcount[x] = Cardinality(K)
    <3>1. qcount[x] = Cardinality(K)
      BY <1>4, Zenon DEF Linked
    <3>2. IsFiniteSet(K)
      BY <1>4, QueuesOfEntry
    <3> QED BY <3>1, <3>2
  <2>2. k \in K
    OBVIOUS
  <2> HIDE DEF K
  <2> QED BY <2>1, <2>2, FS_EmptySet
<1>6. qcount' \in [Proc -> Nat]
  BY <1>4, <1>5
<1> QED BY <1>1, <1>3, <1>6

LEMMA TakeHeadStep ==
  ASSUME NEW Q, NEW F, NEW S, Linked(Q, F, S), qcount \in [Proc -> Nat],
         NEW k \in Queue, Q[k].mem # {}, TakeHead(k), Matched(k), NEW x, ret' = x
  PROVE  /\ x \in Q[k].mem /\ Q[k].ahead[x] = {}
         /\ Linked([Q EXCEPT ![k] = Promise!Remove(@, {x})], F, S)'
         /\ qcount' \in [Proc -> Nat]
PROOF
<1> DEFINE M == Q[k].mem
           A == Q[k].ahead
           s == S[k]
           last == tail[k].next
           t == tail[k]
           h == Follow(t)
<1>1. M \in SUBSET Proc /\ A \in [Proc -> SUBSET Proc] /\ FP!IsOrder(M, A) /\ s \in [Proc -> Slot]
  BY QueueFields
<1>2. /\ last \in M /\ last # ENULL /\ t.index = s[last] /\ t.next = last /\ t.index # ENULL
      /\ h = link[last][s[last]] /\ h.index = s[h.next] /\ h.next \in M /\ A[h.next] = {}
  <2>1. TailAndHead(Q[k].mem, Q[k].ahead, S[k], tail[k], Follow(tail[k]))
    BY HeadIs
  <2> QED BY <2>1, Zenon DEF TailAndHead
<1>4. /\ h.next = last => /\ link' = Cleared(link, t)
                          /\ tail' = [tail EXCEPT ![k] = Null]
      /\ h.next # last => /\ link' = Cleared(SetLink(link, t, Follow(h)), [h EXCEPT !.index = t.index])
                          /\ tail' = tail
      /\ qcount' = [qcount EXCEPT ![h.next] = @ - 1]
      /\ ret' = h.next
      /\ procFree_h' = procFree_h
  BY Zenon DEF TakeHead
<1>5. x = h.next /\ h.index = t.index
  BY <1>4 DEF Matched
<1>6. link \in [Proc -> [Slot -> Link]] /\ tail \in [Queue -> Link]
  BY DEF Linked
<1>8. ENULL \notin M /\ x \in M /\ x \in Proc /\ s[x] \in Slot /\ s[x] # ENULL /\ s[x] = s[last]
  <2>1. x \in M /\ x \in Proc
    BY <1>1, <1>2, <1>5
  <2>2. s[x] = s[last]
    BY <1>2, <1>5, Zenon
  <2> QED BY <2>1, <2>2, <1>1, Finite
<1>9. Changes(Q, F, S, k, M \ {x}, Without(A, x), s)
  <2>1. CASE x = last
    <3>1. M = {x}
      <4>1. A[last] = M \ {last}
        BY Zenon DEF Linked, Ring
      <4> QED BY <4>1, <2>1, <1>2, <1>5
    <3>2. link' = SetLink(link, t, Null) /\ tail' = [tail EXCEPT ![k] = Null]
      BY <2>1, <1>4, <1>5 DEF Cleared
    <3>2a. {} \in SUBSET Q[k].mem
      OBVIOUS
    <3>2b. /\ SlotOf[k] # Any => \A p \in {} : s[p] = SlotOf[k]
           /\ \A j \in Queue \ {k} : \A p \in {} \cap Q[j].mem : s[p] # S[j][p]
           /\ {} \cap F.mem = {} /\ \A p \in M : s[p] = S[k][p]
      OBVIOUS
    <3> DEFINE B == Without(A, x)
    <3> HIDE DEF M, A, s, last, h, t
    <3>3. Null \in Link
      BY DEF Null, Link
    <3>4. /\ link' \in [Proc -> [Slot -> Link]] /\ link'[x][s[x]] = Null
          /\ \A q \in Proc, r \in Slot : q # x \/ r # s[x] => link'[q][r] = link[q][r]
      <4>1. Stored(SetLink(link, t, Null), link, x, s[x], Null)
        BY <2>1, <3>3, <1>2, <1>6, <1>8, SetLinkIs, Zenon
      <4> QED BY <3>2, <4>1 DEF Stored
    <3>5. {} \in SUBSET Proc /\ B \in [Proc -> SUBSET Proc] /\ FP!IsOrder({}, B)
      <4>1. FP!IsOrder(M \ {x}, B)
        BY <1>1, FP!RemoveOrder, Zenon DEF Without
      <4>2. B \in [Proc -> SUBSET Proc]
        BY <1>1 DEF Without
      <4>3. M \ {x} = {}
        BY <3>1
      <4> QED BY <4>1, <4>2, <4>3, Zenon
    <3>6. tail' \in [Queue -> Link] /\ tail'[k] = Null /\ \A j \in Queue \ {k} : tail'[j] = tail[j]
      BY <3>2, <3>3, <1>6
    <3>7. \A q \in Proc : qcount'[q] = IF q \in {} \ M THEN qcount[q] + 1
                                       ELSE IF q \in M \ {} THEN qcount[q] - 1 ELSE qcount[q]
      <4>1. \A q \in Proc : qcount'[q] = IF q = x THEN qcount[q] - 1 ELSE qcount[q]
        BY <1>4, <1>5
      <4> QED BY <4>1, <3>1
    <3>8. /\ \A q \in M \ {} : link'[q][s[q]] = Null
          /\ \A q \in Proc, r \in Slot : r # s[q] \/ q \notin M \cup {} => link'[q][r] = link[q][r]
      BY <3>1, <3>4
    <3> HIDE DEF B
    <3>9. Changes(Q, F, S, k, {}, B, s)
      <4>2. {} = {} /\ \A q \in {} : link'[q][s[q]].index = s[link'[q][s[q]].next]
        OBVIOUS
      <4> QED BY <4>2, <3>2b, <3>4, <3>5, <3>6, <3>7, <3>8, <1>1, <1>4, Zenon DEF Changes, M
    <3>10. M \ {x} = {}
      BY <3>1
    <3> QED BY <3>9, <3>10 DEF B
  <2>2. CASE x # last
    <3> DEFINE X == [h EXCEPT !.index = t.index]
    <3>1. Follow(h) = link[x][s[x]]
      <4>1. h.next = x /\ h.index = s[x] /\ x # ENULL /\ s[x] # ENULL
        BY <1>2, <1>5, <1>8
      <4> HIDE DEF h
      <4> QED BY <4>1, Zenon DEF Follow
    <3>2. link' = SetLink(SetLink(link, t, link[x][s[x]]), X, Null) /\ tail' = tail
      BY <2>2, <3>1, <1>4, <1>5, Zenon DEF Cleared
    <3>3. X.next = x /\ X.index = s[x]
      <4>0. h \in Link
        <5>1. last \in Proc /\ s[last] \in Slot
          BY <1>1, <1>2
        <5>2. h = link[last][s[last]]
          BY <1>2
        <5> HIDE DEF last, s, h
        <5> QED BY <5>1, <5>2, <1>6
      <4>1. h.next = x /\ t.index = s[x]
        BY <1>2, <1>5, <1>8
      <4> HIDE DEF h, t
      <4> QED BY <4>0, <4>1 DEF Link
    <3> HIDE DEF X
    <3>4. tail' = IF x = tail[k].next THEN [tail EXCEPT ![k] = [next |-> last, index |-> s[last]]] ELSE tail
      BY <2>2, <3>2
    <3>5. Leaves(k, s, x, last, t, X)
      BY <3>2, <3>3, <3>4, <1>2, <1>4, <1>5, Zenon DEF Leaves
    <3>6. x \in Q[k].mem /\ last \in Q[k].mem /\ x # last /\ link[last][s[last]].next = x
      BY <2>2, <1>2, <1>5, <1>8
    <3> HIDE DEF last, t
    <3>7. Changes(Q, F, S, k, Q[k].mem \ {x}, Without(Q[k].ahead, x), S[k])
      BY <3>5, <3>6, LeavesStep, Zenon
    <3> QED BY <3>7
  <2> QED BY <2>1, <2>2
<1>10. qcount' = [qcount EXCEPT ![x] = @ - 1]
  BY <1>4, <1>5
<1>11. x \in Q[k].mem /\ Q[k].ahead[x] = {}
  BY <1>2, <1>5, <1>8
<1>12. Changes(Q, F, S, k, Q[k].mem \ {x}, Without(Q[k].ahead, x), S[k])
  BY <1>9
<1>13. /\ Linked([Q EXCEPT ![k] = Promise!Remove(@, {x})], F, S)'
       /\ qcount' \in [Proc -> Nat]
  BY <1>10, <1>11, <1>12, RemovedStep
<1> QED BY <1>11, <1>13

LEMMA TakeInnerStep ==
  ASSUME NEW Q, NEW F, NEW S, Linked(Q, F, S), qcount \in [Proc -> Nat],
         NEW k \in Queue, NEW x \in Q[k].mem, Q[k].ahead[x] # {}, TakeInner(k, x)
  PROVE  /\ ret' = x
         /\ Linked([Q EXCEPT ![k] = Promise!Remove(@, {x})], F, S)'
         /\ qcount' \in [Proc -> Nat]
PROOF
<1> DEFINE M == Q[k].mem
           s == S[k]
           w == Walk(k)
           T == {m \in 2 .. MAXPROC : w[m].next = x}
           n == Min(T)
           l == w[n]
           prev == w[n - 1]
<1>1. /\ \A m \in 0 .. MAXPROC : w[m].next \in M /\ w[m] = [next |-> w[m].next, index |-> s[w[m].next]]
      /\ \A m \in 1 .. MAXPROC : w[m] = link[w[m - 1].next][s[w[m - 1].next]]
      /\ Q[k].ahead[w[1].next] = {}
      /\ Members(k) = M
  <2>1. Q[k].mem # {}
    OBVIOUS
  <2>2. GoesRound(Q[k].mem, Q[k].ahead, S[k], Walk(k))
    BY <2>1, RingWalk
  <2>5. Members(k) = Q[k].mem
    BY MembersAre
  <2> QED BY <2>2, <2>5, Zenon DEF GoesRound
<1>2. Members(k) = {w[m].next : m \in 1 .. MAXPROC} \ {ENULL}
  BY DEF Members
<1>3. M \in SUBSET Proc /\ ENULL \notin M /\ \A p \in M : s[p] \in Slot /\ s[p] # ENULL
  <2>1. M \in SUBSET Proc /\ s \in [Proc -> Slot]
    BY QueueFields
  <2> HIDE DEF M, s
  <2> QED BY <2>1, Finite
<1>4. /\ tail' = [tail EXCEPT ![k] = TailWithout(k, l, prev)]
      /\ link' = Cleared(SetLink(link, prev, Follow(l)), l)
      /\ qcount' = [qcount EXCEPT ![x] = @ - 1]
      /\ ret' = x
      /\ procFree_h' = procFree_h
  BY Zenon DEF TakeInner
<1>5. tail \in [Queue -> Link]
  BY DEF Linked
<1> HIDE DEF w, s, M, n
<1>6. PICK m \in 2 .. MAXPROC : w[m].next = x
  <2>1. PICK m \in 1 .. MAXPROC : w[m].next = x
    BY <1>1, <1>2 DEF M
  <2>2. m # 1
    BY <2>1, <1>1
  <2> QED BY <2>1, <2>2, Finite
<1>7. n \in 2 .. MAXPROC /\ w[n].next = x /\ \A i \in 2 .. MAXPROC : w[i].next = x => n <= i
  <2>1. T \in SUBSET Nat /\ T # {}
    BY <1>6, Finite
  <2>2. PICK least \in T : \A i \in T : least <= i
    <3> HIDE DEF T
    <3> QED BY <2>1, FP!LeastExists
  <2>3. n = CHOOSE j \in T : \A i \in T : j <= i
    BY DEF n, Min
  <2>4. n \in T /\ \A i \in T : n <= i
    <3> HIDE DEF T
    <3> QED BY <2>2, <2>3, Zenon
  <2> QED BY <2>4
<1>8. n \in 1 .. MAXPROC /\ n - 1 \in 1 .. MAXPROC /\ n \in 0 .. MAXPROC /\ n - 1 \in 0 .. MAXPROC
      /\ ~ (n <= n - 1)
  BY <1>7, Finite
<1>9. l.next = x /\ l.index = s[x] /\ prev.next \in M /\ prev.index = s[prev.next] /\ l = link[prev.next][s[prev.next]]
      /\ prev = [next |-> prev.next, index |-> s[prev.next]]
  <2>1. \A v, i : v = [next |-> v.next, index |-> i] => v.index = i
    OBVIOUS
  <2>2. l = [next |-> x, index |-> s[x]]
    BY <1>1, <1>7, <1>8
  <2>3. prev = [next |-> prev.next, index |-> s[prev.next]] /\ prev.next \in M
    BY <1>1, <1>8
  <2>4. l = link[prev.next][s[prev.next]]
    BY <1>1, <1>8
  <2>5. l.next = x /\ l.index = s[x]
    BY <2>2
  <2> HIDE DEF l, prev
  <2> QED BY <2>1, <2>3, <2>4, <2>5
<1>10. prev.next # x
  <2>1. CASE n - 1 = 1
    BY <2>1, <1>1
  <2>2. CASE n - 1 # 1
    <3>1. n - 1 \in 2 .. MAXPROC
      BY <2>2, <1>7, Finite
    <3> QED BY <3>1, <1>7, <1>8
  <2> QED BY <2>1, <2>2
<1> DEFINE p == prev.next
<1> HIDE DEF l, prev
<1>11. Follow(l) = link[x][s[x]]
  <2>1. x # ENULL /\ s[x] # ENULL
    BY <1>3 DEF M
  <2> QED BY <2>1, <1>9, Zenon DEF Follow
<1>12. tail' = IF x = tail[k].next THEN [tail EXCEPT ![k] = [next |-> p, index |-> s[p]]] ELSE tail
  <2>1. CASE x = tail[k].next
    <3>1. TailWithout(k, l, prev) = prev
      BY <2>1, <1>9 DEF TailWithout
    <3> QED BY <2>1, <3>1, <1>4, <1>9
  <2>2. CASE x # tail[k].next
    <3>1. TailWithout(k, l, prev) = tail[k]
      BY <2>2, <1>9 DEF TailWithout
    <3> QED BY <2>2, <3>1, <1>4, <1>5
  <2> QED BY <2>1, <2>2
<1>13. link' = SetLink(SetLink(link, prev, link[x][s[x]]), l, Null)
  BY <1>4, <1>11, Zenon DEF Cleared
<1> HIDE DEF p
<1>14. Leaves(k, S[k], x, p, prev, l)
  <2>1. prev.next = p /\ prev.index = s[p]
    BY <1>9 DEF p
  <2> QED BY <2>1, <1>4, <1>9, <1>12, <1>13, Zenon DEF Leaves, s
<1>15. p \in Q[k].mem /\ x # p /\ link[p][S[k][p]].next = x
  BY <1>9, <1>10, Zenon DEF p, M, s
<1>16. Changes(Q, F, S, k, Q[k].mem \ {x}, Without(Q[k].ahead, x), S[k])
  BY <1>14, <1>15, LeavesStep, Zenon
<1>17. /\ Linked([Q EXCEPT ![k] = Promise!Remove(@, {x})], F, S)'
       /\ qcount' \in [Proc -> Nat]
  BY <1>4, <1>16, RemovedStep
<1> QED BY <1>4, <1>17

-----------------------------------------------------------------------------
(* What an operation on the free list does, which then has the entries M in *)
(* the order A: only links 0 change.                                        *)
FreeChanges(Q, F, M, A) ==
  /\ M \in SUBSET Proc /\ A \in [Proc -> SUBSET Proc] /\ FP!IsOrder(M, A)
  /\ \A j \in Queue : Q[j].mem \cap M = {}
  /\ link' \in [Proc -> [Slot -> Link]]
  /\ \A p \in Proc, s \in Slot : s # 0 \/ p \notin F.mem \cup M => link'[p][s] = link[p][s]
  /\ \A p \in F.mem \ M : link'[p][0] = Null
  /\ \A p \in M : link'[p][0].index = ENULL
  /\ IsChain(M, A, procFree_h', [p \in Proc |-> link'[p][0].next])
  /\ tail' = tail
  /\ \A p \in Proc : qcount'[p] = qcount[p]

LEMMA ListChanges ==
  ASSUME NEW Q, NEW F, NEW S, Linked(Q, F, S), NEW M, NEW A, FreeChanges(Q, F, M, A)
  PROVE  Linked(Q, [mem |-> M, ahead |-> A], S)'
PROOF
<1> DEFINE G == [mem |-> M, ahead |-> A]
<1>1. /\ Q \in [Queue -> Promise!Fifo] /\ \A j \in Queue : Promise!Ordered(Q[j])
      /\ \A j \in Queue : Ring(Q[j], tail[j], S[j]) /\ Q[j].mem \cap F.mem = {}
      /\ tail \in [Queue -> Link] /\ LinksOf(Q, S)
  BY DEF Linked
<1>2. \A p \in Proc, t \in Slot :
       (\A j \in Queue : p \in Q[j].mem => S[j][p] # t) /\ (t = 0 => p \notin F.mem)
         => link[p][t] = Null
  BY DEF Linked
<1>3. /\ M \in SUBSET Proc /\ A \in [Proc -> SUBSET Proc] /\ FP!IsOrder(M, A)
      /\ \A j \in Queue : Q[j].mem \cap M = {}
      /\ link' \in [Proc -> [Slot -> Link]] /\ tail' = tail
  BY DEF FreeChanges
<1>4. /\ \A p \in Proc, s \in Slot : s # 0 \/ p \notin F.mem \cup M => link'[p][s] = link[p][s]
      /\ \A p \in F.mem \ M : link'[p][0] = Null
  BY DEF FreeChanges
<1>5. G \in Promise!Fifo /\ Promise!Ordered(G) /\ G.mem = M
  <2>1. G \in Promise!Fifo /\ Promise!Ordered(G)
    BY <1>3, OrderedRecord
  <2> QED BY <2>1
<1>6. Chain(G)'
  <2>1. IsChain(M, A, procFree_h', [p \in Proc |-> link'[p][0].next]) /\ \A p \in M : link'[p][0].index = ENULL
    BY Zenon DEF FreeChanges
  <2> QED BY <2>1, <1>3, ChainNext
<1>7. \A j \in Queue : Q[j].mem \subseteq Proc /\ S[j] \in [Proc -> Slot]
  BY QueueFields
<1>8. F.mem \subseteq Proc
  BY FreeFields
<1> HIDE DEF G
<1>9. ASSUME NEW j \in Queue PROVE (Ring(Q[j], tail[j], S[j]))'
  <2>1. \A p \in Q[j].mem : link'[p][S[j][p]] = link[p][S[j][p]]
    <3> TAKE p \in Q[j].mem
    <3>1. p \in Proc /\ S[j][p] \in Slot
      BY <1>7
    <3>2. p \notin F.mem \cup M
      BY <1>1, <1>3
    <3> QED BY <3>1, <3>2, <1>4
  <2>2. tail'[j] = tail[j] /\ Ring(Q[j], tail[j], S[j])
    BY <1>1, <1>3
  <2> QED BY <2>1, <2>2, RingKept
<1>10. ASSUME NEW p \in Proc, NEW t \in Slot,
              \A j \in Queue : p \in Q[j].mem => S[j][p] # t, t = 0 => p \notin M
       PROVE  link'[p][t] = Null
  <2>1. CASE t = 0 /\ p \in F.mem
    BY <2>1, <1>4, <1>10
  <2>2. CASE ~ (t = 0 /\ p \in F.mem)
    <3>1. link[p][t] = Null
      BY <2>2, <1>2, <1>10
    <3>2. t # 0 \/ p \notin F.mem \cup M
      BY <2>2, <1>10
    <3> QED BY <3>1, <3>2, <1>4
  <2> QED BY <2>1, <2>2
<1>11. \A p \in Proc : qcount'[p] = Cardinality({j \in Queue : p \in Q[j].mem})
  <2>1. \A p \in Proc : qcount'[p] = qcount[p]
    BY Zenon DEF FreeChanges
  <2>2. \A p \in Proc : qcount[p] = Cardinality({j \in Queue : p \in Q[j].mem})
    BY Zenon DEF Linked
  <2> QED BY <2>1, <2>2
<1>12. Linked(Q, G, S)'
  <2>0. LinksOf(Q, S)'
    BY <1>1 DEF LinksOf
  <2>1. \A p \in Proc, t \in Slot :
          (\A j \in Queue : p \in Q[j].mem => S[j][p] # t) /\ (t = 0 => p \notin G.mem)
            => link'[p][t] = Null
    BY <1>5, <1>10
  <2>2. \A j \in Queue : Ring(Q[j], tail[j], S[j])' /\ Q[j].mem \cap G.mem = {}
    BY <1>3, <1>5, <1>9
  <2>3. tail' \in [Queue -> Link]
    BY <1>1, <1>3
  <2> QED BY <1>1, <1>3, <1>5, <1>6, <1>11, <2>0, <2>1, <2>2, <2>3, Zenon DEF Linked
<1> QED BY <1>12 DEF G

LEMMA AllocStep ==
  ASSUME NEW Q, NEW F, NEW S, Linked(Q, F, S), qcount \in [Proc -> Nat], F.mem # {}, allocProc, NEW x, ret' = x
  PROVE  /\ x = Promise!Front(F)
         /\ Linked(Q, Promise!Remove(F, {x}), S)'
         /\ qcount' \in [Proc -> Nat]
PROOF
<1> DEFINE M == F.mem
           A == F.ahead
           nx == [q \in Proc |-> link[q][0].next]
           ny == [q \in Proc |-> link'[q][0].next]
           N == M \ {x}
           B == Without(A, x)
<1>1. /\ M \in SUBSET Proc /\ A \in [Proc -> SUBSET Proc] /\ FP!IsOrder(M, A)
      /\ IsChain(M, A, procFree_h, nx)
      /\ \A p \in M : link[p][0] = [next |-> link[p][0].next, index |-> ENULL]
  BY FreeFields
<1>2. procFree_h \in M /\ A[procFree_h] = {} /\ ENULL \notin M
  BY <1>1, Finite DEF IsChain
<1>3. /\ procFree_h' = link[procFree_h][0].next
      /\ link' = [link EXCEPT ![procFree_h][0] = Null]
      /\ ret' = procFree_h /\ tail' = tail /\ qcount' = qcount
  BY <1>2, Zenon DEF allocProc
<1>4. x = procFree_h /\ x \in M /\ x \in Proc
  BY <1>1, <1>2, <1>3
<1>5. link \in [Proc -> [Slot -> Link]] /\ \A j \in Queue : Q[j].mem \cap M = {}
  BY DEF Linked
<1>6. \A q \in Proc : nx[q] = link[q][0].next /\ ny[q] = link'[q][0].next
  OBVIOUS
<1>7. N \in SUBSET Proc /\ B \in [Proc -> SUBSET Proc] /\ FP!IsOrder(N, B) /\ \A r \in N : B[r] = A[r] \ {x}
  <2> DEFINE C == [r \in Proc |-> IF r \in {x} THEN {} ELSE A[r] \ {x}]
  <2>1. FP!IsOrder(N, C)
    BY <1>1, FP!RemoveOrder
  <2>2. C \in [Proc -> SUBSET Proc] /\ N \in SUBSET Proc /\ \A r \in N : C[r] = A[r] \ {x}
    BY <1>1
  <2> QED BY <2>1, <2>2, Zenon DEF Without
<1>7a. x = Promise!Front(F)
  <2>1. F \in Promise!Fifo /\ Promise!Ordered(F)
    BY DEF Linked
  <2>2. x \in F.mem /\ F.ahead[x] = {}
    BY <1>2, <1>4
  <2> QED BY <2>1, <2>2, FrontIs
<1>7b. Promise!Remove(F, {x}) = [mem |-> N, ahead |-> B]
  BY DEF Promise!Remove, Without
<1> HIDE DEF M, A, nx, ny, N, B
<1>8. /\ link' \in [Proc -> [Slot -> Link]] /\ link'[x][0] = Null
      /\ \A q \in Proc, t \in Slot : q # x \/ t # 0 => link'[q][t] = link[q][t]
  <2> DEFINE l == [next |-> x, index |-> 0]
  <2>1. l.next = x /\ l.index = 0 /\ 0 \in Slot /\ Null \in Link
    BY Finite DEF Null, Link
  <2>2. link' = SetLink(link, l, Null)
    BY <2>1, <1>3, <1>4 DEF SetLink
  <2> HIDE DEF l
  <2>3. Stored(SetLink(link, l, Null), link, x, 0, Null)
    BY <2>1, <1>4, <1>5, SetLinkIs, Zenon
  <2> QED BY <2>2, <2>3 DEF Stored
<1>9. IsChain(N, B, procFree_h', ny)
  <2>1. \A r \in M \ {x} : ny[r] = nx[r] /\ B[r] = A[r] \ {x}
    BY <1>1, <1>6, <1>7, <1>8, Finite DEF N
  <2>2. procFree_h' = nx[x] /\ M # {} /\ IsChain(M, A, x, nx)
    BY <1>1, <1>3, <1>4, <1>6
  <2>3. IsChain(M \ {x}, B, nx[x], ny)
    BY <2>1, <2>2, <1>1, ChainTake
  <2> QED BY <2>2, <2>3 DEF N
<1>10. FreeChanges(Q, F, N, B)
  <2>1. \A j \in Queue : Q[j].mem \cap N = {}
    BY <1>5 DEF N
  <2>2. M \ N = {x} /\ M \cup N = M
    BY <1>4 DEF N
  <2>3. \A p \in Proc, s \in Slot : s # 0 \/ p \notin M \cup N => link'[p][s] = link[p][s]
    BY <2>2, <1>4, <1>8
  <2>4. \A p \in M \ N : link'[p][0] = Null
    BY <2>2, <1>8
  <2>5. \A p \in N : link'[p][0].index = ENULL
    <3>1. \A p \in M : link[p][0].index = ENULL
      <4>1. \A v : v = [next |-> v.next, index |-> ENULL] => v.index = ENULL
        OBVIOUS
      <4> QED BY <4>1, <1>1, Zenon
    <3> QED BY <3>1, <1>1, <1>8, Finite DEF N
  <2>6. \A p \in Proc : qcount'[p] = qcount[p]
    BY <1>3
  <2> QED BY <1>3, <1>7, <1>8, <1>9, <2>1, <2>3, <2>4, <2>5, <2>6, Zenon DEF FreeChanges, M, ny
<1>11. Linked(Q, [mem |-> N, ahead |-> B], S)'
  BY <1>10, ListChanges
<1>12. qcount' \in [Proc -> Nat]
  BY <1>3
<1> QED BY <1>7a, <1>7b, <1>11, <1>12, Zenon

(* An entry that is on no queue and not free has no link in use. *)
LEMMA IdleLinks ==
  ASSUME NEW Q, NEW F, NEW S, Linked(Q, F, S), NEW p \in Proc, p \notin F.mem, qcount[p] = 0
  PROVE  (\A k \in Queue : p \notin Q[k].mem) /\ \A s \in Slot : link[p][s] = Null
PROOF
<1>1. \A k \in Queue : p \notin Q[k].mem
  <2> DEFINE K == {k \in Queue : p \in Q[k].mem}
  <2>1. IsFiniteSet(K)
    BY QueuesOfEntry
  <2>2. Cardinality(K) = 0
    BY Zenon DEF Linked
  <2>3. K = {}
    <3> HIDE DEF K
    <3> QED BY <2>1, <2>2, FS_EmptySet
  <2> QED BY <2>3
<1>2. \A s \in Slot : link[p][s] = Null
  BY <1>1 DEF Linked
<1> QED BY <1>1, <1>2

LEMMA FreeStep ==
  ASSUME NEW Q, NEW F, NEW S, Linked(Q, F, S), qcount \in [Proc -> Nat], NEW p \in Proc, freeProc(p)
  PROVE  /\ p \notin F.mem /\ \A k \in Queue : p \notin Q[k].mem
         /\ Linked(Q, Promise!Insert(F, p), S)'
         /\ qcount' \in [Proc -> Nat]
PROOF
<1> DEFINE M == F.mem
           A == F.ahead
           nx == [q \in Proc |-> link[q][0].next]
           ny == [q \in Proc |-> link'[q][0].next]
           N == M \cup {p}
           B == [A EXCEPT ![p] = M]
           L == [link EXCEPT ![p] = [s \in Slot |-> Null]]
           last == LastFree
<1>1. /\ M \in SUBSET Proc /\ A \in [Proc -> SUBSET Proc] /\ FP!IsOrder(M, A)
      /\ IsChain(M, A, procFree_h, nx)
      /\ \A q \in M : link[q][0] = [next |-> link[q][0].next, index |-> ENULL]
  BY FreeFields
<1>2. FreeList = M /\ (M # {} => last \in M /\ A[last] \cup {last} = M)
  BY ChainWalk
<1>3. /\ p \notin M /\ qcount[p] = 0
      /\ procFree_h = ENULL => procFree_h' = p /\ link' = L
      /\ procFree_h # ENULL => link' = [L EXCEPT ![last][0].next = p] /\ procFree_h' = procFree_h
      /\ qcount' = [qcount EXCEPT ![p] = 0] /\ tail' = tail
  BY <1>2, Zenon DEF freeProc
<1>4. (\A k \in Queue : p \notin Q[k].mem) /\ \A s \in Slot : link[p][s] = Null
  BY <1>3, IdleLinks
<1>5. link \in [Proc -> [Slot -> Link]] /\ \A j \in Queue : Q[j].mem \cap M = {}
  BY DEF Linked
<1>6. L = link
  <2>1. link[p] = [s \in Slot |-> Null]
    BY <1>4, <1>5
  <2> QED BY <2>1, <1>5
<1>7. \A q \in Proc : nx[q] = link[q][0].next /\ ny[q] = link'[q][0].next
  OBVIOUS
<1>8. Promise!Insert(F, p) = [mem |-> N, ahead |-> B]
  BY DEF Promise!Insert
<1>9. \A r \in Proc : (r = p => B[r] = M) /\ (r # p => B[r] = A[r])
  BY <1>1
<1>10. N \in SUBSET Proc /\ B \in [Proc -> SUBSET Proc] /\ FP!IsOrder(N, B)
  BY <1>1, <1>3, FP!InsertOrder
<1>11. procFree_h = ENULL <=> M = {}
  BY <1>1, Finite DEF IsChain
<1> HIDE DEF M, A, nx, ny, N, B, L, last
<1>12. /\ link' \in [Proc -> [Slot -> Link]]
       /\ \A q \in Proc, s \in Slot : s # 0 \/ q \notin N => link'[q][s] = link[q][s]
       /\ \A q \in N : link'[q][0].index = ENULL
       /\ IsChain(N, B, procFree_h', ny)
  <2>0. link[p][0] = Null /\ Null.next = ENULL /\ Null.index = ENULL
    BY <1>4, Finite DEF Null
  <2>1. CASE M = {}
    <3>1. procFree_h' = p /\ link' = link
      BY <2>1, <1>3, <1>6, <1>11
    <3>2. N = {p} /\ ny[p] = ENULL /\ B[p] = {}
      BY <2>0, <2>1, <3>1, <1>7, <1>9 DEF N
    <3>3. IsChain(N, B, procFree_h', ny)
      BY <3>1, <3>2 DEF IsChain
    <3> QED BY <2>0, <3>1, <3>2, <3>3, <1>5
  <2>2. CASE M # {}
    <3>1. procFree_h' = procFree_h /\ link' = [link EXCEPT ![last][0].next = p] /\ last \in M /\ last \in Proc
          /\ A[last] \cup {last} = M
      BY <2>2, <1>1, <1>2, <1>3, <1>6, <1>11
    <3> DEFINE v == [next |-> p, index |-> ENULL]
               l == [next |-> last, index |-> 0]
    <3>2. link' = SetLink(link, l, v)
      <4>1. [link[last][0] EXCEPT !.next = p] = v
        <5>1. \A u : u = [next |-> u.next, index |-> ENULL] => [u EXCEPT !.next = p] = v
          OBVIOUS
        <5> QED BY <5>1, <3>1, <1>1, Zenon
      <4>2. link' = [link EXCEPT ![last] = [link[last] EXCEPT ![0] = [link[last][0] EXCEPT !.next = p]]]
        BY <3>1
      <4>3. SetLink(link, l, v) = [link EXCEPT ![last] = [link[last] EXCEPT ![0] = v]]
        BY DEF SetLink
      <4> QED BY <4>1, <4>2, <4>3
    <3>3. l.next = last /\ l.index = 0 /\ v \in Link /\ v.next = p /\ v.index = ENULL /\ 0 \in Slot
      BY Finite DEF Link
    <3> HIDE DEF l, v
    <3>4. /\ link' \in [Proc -> [Slot -> Link]] /\ link'[last][0] = v
          /\ \A q \in Proc, t \in Slot : q # last \/ t # 0 => link'[q][t] = link[q][t]
      <4>1. Stored(SetLink(link, l, v), link, last, 0, v)
        BY <3>1, <3>3, <1>5, SetLinkIs, Zenon
      <4> QED BY <3>2, <4>1 DEF Stored
    <3>5. ny[last] = p /\ ny[p] = ENULL /\ \A r \in M \ {last} : ny[r] = nx[r]
      BY <2>0, <3>1, <3>3, <3>4, <1>1, <1>3, <1>7
    <3>6. IsChain(N, B, procFree_h, ny)
      <4>1. p \in Proc \ M /\ B[p] = M /\ \A r \in M : B[r] = A[r]
        BY <1>1, <1>3, <1>9
      <4> QED BY <3>1, <3>5, <4>1, <1>1, ChainAppend DEF N
    <3>7. \A q \in N : link'[q][0].index = ENULL
      <4>1. \A q \in M : link[q][0].index = ENULL
        <5>1. \A u : u = [next |-> u.next, index |-> ENULL] => u.index = ENULL
          OBVIOUS
        <5> QED BY <5>1, <1>1, Zenon
      <4>2. link'[p][0].index = ENULL
        BY <2>0, <3>1, <3>4, <1>3, Finite
      <4>3. ASSUME NEW q \in M PROVE link'[q][0].index = ENULL
        <5>1. q = last => link'[q][0].index = ENULL
          BY <3>3, <3>4
        <5>2. q # last => link'[q][0] = link[q][0]
          BY <3>3, <3>4, <1>1
        <5> QED BY <4>1, <5>1, <5>2
      <4> QED BY <4>2, <4>3 DEF N
    <3>8. \A q \in Proc, s \in Slot : s # 0 \/ q \notin N => link'[q][s] = link[q][s]
      BY <3>1, <3>4 DEF N
    <3> QED BY <3>1, <3>4, <3>6, <3>7, <3>8
  <2> QED BY <2>1, <2>2
<1>13. FreeChanges(Q, F, N, B)
  <2>1. \A j \in Queue : Q[j].mem \cap N = {}
    BY <1>4, <1>5 DEF N
  <2>2. M \ N = {} /\ M \cup N = N
    BY DEF N
  <2>3. \A q \in Proc, s \in Slot : s # 0 \/ q \notin M \cup N => link'[q][s] = link[q][s]
    BY <2>2, <1>12
  <2>4. \A q \in M \ N : link'[q][0] = Null
    BY <2>2
  <2>6. \A q \in Proc : qcount'[q] = qcount[q]
    BY <1>3
  <2> QED BY <1>3, <1>10, <1>12, <2>1, <2>3, <2>4, <2>6, Zenon DEF FreeChanges, M, ny
<1>14. Linked(Q, [mem |-> N, ahead |-> B], S)'
  BY <1>13, ListChanges
<1>15. qcount' \in [Proc -> Nat]
  BY <1>3
<1>16. p \notin F.mem /\ \A k \in Queue : p \notin Q[k].mem
  BY <1>3, <1>4 DEF M
<1> QED BY <1>8, <1>14, <1>15, <1>16, Zenon

LEMMA SameLinks ==
  ASSUME NEW Q, NEW F, NEW S, Linked(Q, F, S), tail' = tail, link' = link, qcount' = qcount, procFree_h' = procFree_h
  PROVE  Linked(Q, F, S)'
PROOF
<1> DEFINE M == F.mem
           A == F.ahead
           nx == [p \in Proc |-> link[p][0].next]
<1>1. /\ M \in SUBSET Proc /\ A \in [Proc -> SUBSET Proc] /\ F = [mem |-> M, ahead |-> A]
      /\ FP!IsOrder(M, A) /\ IsChain(M, A, procFree_h, nx)
  BY FreeFields
<1>2. link \in [Proc -> [Slot -> Link]] /\ \A j \in Queue : Q[j].mem \cap M = {}
  BY DEF Linked
<1>3. \A p \in M : link[p][0].index = ENULL
  BY Zenon DEF Linked, Chain
<1>4. IsChain(M, A, procFree_h', [p \in Proc |-> link'[p][0].next])
  BY <1>1
<1> HIDE DEF M, A, nx
<1>5. /\ \A p \in Proc, s \in Slot : s # 0 \/ p \notin M \cup M => link'[p][s] = link[p][s]
      /\ \A p \in M \ M : link'[p][0] = Null
      /\ \A p \in M : link'[p][0].index = ENULL
      /\ link' \in [Proc -> [Slot -> Link]]
      /\ \A p \in Proc : qcount'[p] = qcount[p]
  BY <1>2, <1>3
<1>6. FreeChanges(Q, F, M, A)
  BY <1>1, <1>2, <1>4, <1>5, Zenon DEF FreeChanges, M
<1>7. Linked(Q, [mem |-> M, ahead |-> A], S)'
  BY <1>6, ListChanges
<1> QED BY <1>1, <1>7

(* In the first state no entry is on a queue, and the free list has all of  *)
(* them, in the order of the table.                                         *)
FirstQueues(Q, F) ==
  /\ Q = [k \in Queue |-> Promise!EmptyFifo]
  /\ F \in Promise!Fifo /\ F.mem = Proc /\ Promise!Ordered(F)

FirstSlots == [k \in Queue |-> [p \in Proc |-> 0]]

LEMMA InitLinked == Init => \E Q, F : Linked(Q, F, FirstSlots) /\ FirstQueues(Q, F)
PROOF
<1> SUFFICES ASSUME Init PROVE \E Q, F : Linked(Q, F, FirstSlots) /\ FirstQueues(Q, F)
  OBVIOUS
<1> DEFINE E == [mem |-> {}, ahead |-> [p \in Proc |-> {}]]
           Q == [k \in Queue |-> E]
           A == [p \in Proc |-> 0 .. p - 1]
           F == [mem |-> Proc, ahead |-> A]
<1>1. \A n \in Proc : n \in Nat /\ n < MAXPROC /\ 0 .. n - 1 \subseteq Proc
  BY Finite DEF Proc
<1>2. FP!IsOrder(Proc, A) /\ A \in [Proc -> SUBSET Proc]
  <2>1. \A p \in Proc : A[p] = 0 .. p - 1
    OBVIOUS
  <2>2. \A p \in Proc : A[p] \in SUBSET Proc
    BY <1>1, <2>1
  <2>3. A \in [Proc -> SUBSET Proc]
    BY <2>2
  <2> HIDE DEF A
  <2>4. \A p, r \in Proc : r \in A[p] <=> r < p
    BY <1>1, <2>1
  <2>5. \A p, r, s \in Proc : p \in A[r] /\ s \in A[p] => s \in A[r]
    BY <1>1, <2>4
  <2>6. \A p, r \in Proc : p # r /\ p \notin A[r] => r \in A[p]
    BY <1>1, <2>4
  <2>7. \A p, r \in Proc : p # r /\ p \in A[r] => r \notin A[p]
    BY <1>1, <2>4
  <2>8. \A p \in Proc : p \notin A[p]
    BY <1>1, <2>4
  <2>9. \A p \in Proc : \A r \in A[p] : r \in Proc
    BY <2>2
  <2> QED BY <2>3, <2>5, <2>6, <2>7, <2>8, <2>9, Zenon DEF FP!IsOrder
<1>3. E \in Promise!Fifo /\ Promise!Ordered(E)
  <2>1. FP!IsOrder({}, [p \in Proc |-> {}])
    BY DEF FP!IsOrder
  <2>2. {} \in SUBSET Proc /\ [p \in Proc |-> {}] \in [Proc -> SUBSET Proc]
    OBVIOUS
  <2> QED BY <2>1, <2>2, OrderedRecord
<1>4. F \in Promise!Fifo /\ Promise!Ordered(F)
  <2> HIDE DEF A
  <2> QED BY <1>2, OrderedRecord
<1>5. E.mem = {} /\ F.mem = Proc /\ F.ahead = A /\ \A k \in Queue : Q[k] = E
  OBVIOUS
<1>5a. Q = [k \in Queue |-> Promise!EmptyFifo]
  BY DEF Promise!EmptyFifo
<1>6. /\ tail = [k \in Queue |-> Null] /\ qcount = [p \in Proc |-> 0] /\ procFree_h = 0
      /\ link = FreeLinks
  BY DEF Init
<1>7. Null \in Link /\ Null.index = ENULL /\ Null.next = ENULL
  BY DEF Null, Link
<1>8. \A p \in Proc, s \in Slot : link[p][s] = IF s = 0 /\ p # MAXPROC - 1
                                               THEN [Null EXCEPT !.next = p + 1] ELSE Null
  BY <1>6 DEF FreeLinks
<1>9. link \in [Proc -> [Slot -> Link]]
  <2>1. \A p \in Proc : p # MAXPROC - 1 => [Null EXCEPT !.next = p + 1] \in Link
    <3> TAKE p \in Proc
    <3> HAVE p # MAXPROC - 1
    <3>1. p + 1 \in Proc
      BY Finite DEF Proc
    <3> QED BY <3>1 DEF Null, Link
  <2> QED BY <2>1, <1>6, <1>7 DEF FreeLinks
<1>10. Chain(F)
  <2>1. 0 \in Proc /\ A[0] = {} /\ Proc # {}
    BY Finite DEF Proc
  <2>2. ASSUME NEW p \in Proc
        PROVE  /\ link[p][0].index = ENULL
               /\ A[p] \cup {p} = Proc => link[p][0].next = ENULL
               /\ A[p] \cup {p} # Proc => link[p][0].next \in Proc /\ A[link[p][0].next] = A[p] \cup {p}
    <3>1. 0 \in Slot /\ A[p] \cup {p} = 0 .. p
      BY <1>1, Finite
    <3>2. CASE p = MAXPROC - 1
      <4>1. link[p][0] = Null
        BY <3>1, <3>2, <1>8
      <4>2. A[p] \cup {p} = Proc
        BY <3>1, <3>2 DEF Proc
      <4> HIDE DEF A
      <4> QED BY <4>1, <4>2, <1>7
    <3>3. CASE p # MAXPROC - 1
      <4>1. link[p][0] = [Null EXCEPT !.next = p + 1]
        BY <3>1, <3>3, <1>8
      <4>2. link[p][0].index = ENULL /\ link[p][0].next = p + 1
        BY <4>1 DEF Null
      <4>3. p + 1 \in Proc /\ p + 1 \notin 0 .. p /\ A[p + 1] = 0 .. p
        BY <3>3, <1>1, Finite DEF Proc
      <4> HIDE DEF A
      <4> QED BY <4>2, <4>3, <3>1
    <3> QED BY <3>2, <3>3
  <2>3. procFree_h = 0
    BY <1>6
  <2> HIDE DEF A, F
  <2>4. IF F.mem = {} THEN procFree_h = ENULL ELSE procFree_h \in F.mem /\ F.ahead[procFree_h] = {}
    BY <2>1, <2>3, <1>5
  <2>5. \A p \in F.mem : /\ link[p][0].index = ENULL
                         /\ IF F.ahead[p] \cup {p} = F.mem THEN link[p][0].next = ENULL
                            ELSE /\ link[p][0].next \in F.mem
                                 /\ F.ahead[link[p][0].next] = F.ahead[p] \cup {p}
    BY <2>2, <1>5
  <2> QED BY <2>4, <2>5, Zenon DEF Chain
<1> HIDE DEF F, A, E, Q
<1>11. ASSUME NEW k \in Queue PROVE Ring(Q[k], tail[k], FirstSlots[k]) /\ Q[k].mem \cap F.mem = {} /\ Q[k].mem = {}
  <2>1. Q[k].mem = {} /\ tail[k] = Null
    BY <1>5, <1>6
  <2> QED BY <2>1 DEF Ring
<1>12. Q \in [Queue -> Promise!Fifo] /\ \A k \in Queue : Promise!Ordered(Q[k])
  BY <1>3, <1>5 DEF Q
<1>13. \A p \in Proc : qcount[p] = Cardinality({k \in Queue : p \in Q[k].mem})
  <2> TAKE p \in Proc
  <2>1. {k \in Queue : p \in Q[k].mem} = {}
    BY <1>11
  <2>2. qcount[p] = 0 /\ Cardinality({}) = 0
    BY <1>6, FS_EmptySet
  <2> QED BY <2>1, <2>2, Zenon
<1>14. \A p \in Proc, s \in Slot :
         (\A k \in Queue : p \in Q[k].mem => FirstSlots[k][p] # s) /\ (s = 0 => p \notin F.mem)
           => link[p][s] = Null
  BY <1>5, <1>8
<1>15. LinksOf(Q, FirstSlots)
  <2>1. FirstSlots \in [Queue -> [Proc -> Slot]]
    BY Finite DEF FirstSlots
  <2>2. \A k \in Queue : Q[k].mem = {}
    BY <1>11
  <2> QED BY <2>1, <2>2 DEF LinksOf
<1>16. tail \in [Queue -> Link]
  BY <1>6, <1>7
<1>17. Linked(Q, F, FirstSlots)
  BY <1>4, <1>9, <1>10, <1>11, <1>12, <1>13, <1>14, <1>15, <1>16, Zenon DEF Linked
<1>18. FirstQueues(Q, F)
  BY <1>4, <1>5, <1>5a, Zenon DEF FirstQueues
<1> QED BY <1>17, <1>18

-----------------------------------------------------------------------------
(* The queues that the links stand for are unique, in the next state, too. *)
LEMMA MappingFoundNext == \A Q, F, S : Linked(Q, F, S)' => queueOf' = Q /\ freeOf' = F
PROOF
<1>1. (\A Q, F, S : Linked(Q, F, S) => queueOf = Q /\ freeOf = F)'
  BY MappingFound, PTL
<1> QED BY <1>1

(* Links for some queues are links for the queues that they stand for. *)
LEMMA LinksOfMapping ==
  (\E Q, F, S : Linked(Q, F, S)) => \E S \in [Queue -> [Proc -> Slot]] : Linked(queueOf, freeOf, S)
PROOF
<1> SUFFICES ASSUME NEW Q, NEW F, NEW S, Linked(Q, F, S)
             PROVE  S \in [Queue -> [Proc -> Slot]] /\ Linked(queueOf, freeOf, S)
  BY Zenon
<1>1. queueOf = Q /\ freeOf = F
  BY MappingFound
<1>2. S \in [Queue -> [Proc -> Slot]]
  BY Zenon DEF Linked, LinksOf
<1> QED BY <1>1, <1>2, Zenon

(* What a step does to the queues Q and the free list F, by its operation. *)
LEMMA StepLinked ==
  ASSUME NEW Q, NEW F, NEW S, Linked(Q, F, S), qcount \in [Proc -> Nat], ret \in Proc \cup {ENULL},
         [MatchedNext]_vars, queueOf = Q, freeOf = F,
         \A R, G, T : Linked(R, G, T)' => queueOf' = R /\ freeOf' = G
  PROVE  /\ \E R, G, T : Linked(R, G, T)'
         /\ qcount' \in [Proc -> Nat] /\ ret' \in Proc \cup {ENULL}
         /\ [Promise!Next]_(Promise!vars)
PROOF
<1> DEFINE Done == /\ \E R, G, T : Linked(R, G, T)'
                   /\ qcount' \in [Proc -> Nat] /\ ret' \in Proc \cup {ENULL}
                   /\ [Promise!Next]_(Promise!vars)
<1>1. Q \in [Queue -> Promise!Fifo] /\ \A k \in Queue : Promise!Ordered(Q[k]) /\ Q[k].mem \subseteq Proc
  <2>1. \A k \in Queue : Q[k].mem \subseteq Proc
    BY QueueFields
  <2> QED BY <2>1 DEF Linked
<1>2. F.mem \subseteq Proc
  BY FreeFields
<1>3. ASSUME tail' = tail, link' = link, qcount' = qcount, procFree_h' = procFree_h
      PROVE  /\ \E R, G, T : Linked(R, G, T)'
             /\ queueOf' = Q /\ freeOf' = F /\ qcount' \in [Proc -> Nat]
  <2>1. Linked(Q, F, S)'
    BY <1>3, SameLinks
  <2> QED BY <2>1, <1>3
<1>3a. UNCHANGED vars \/ (Next /\ \A k \in Queue : TakeHead(k) => Matched(k))
  BY DEF MatchedNext
<1>4. CASE UNCHANGED vars
  <2>1. tail' = tail /\ link' = link /\ qcount' = qcount /\ procFree_h' = procFree_h /\ ret' = ret
    BY <1>4 DEF vars
  <2>2. UNCHANGED Promise!vars
    BY <2>1, <1>3 DEF Promise!vars
  <2> QED BY <2>1, <2>2, <1>3
<1>5. ASSUME Nothing, Promise!Nothing => Promise!Next PROVE Done
  <2>1. tail' = tail /\ link' = link /\ qcount' = qcount /\ procFree_h' = procFree_h /\ ret' = ENULL
    BY <1>5 DEF Nothing
  <2>2. Promise!Nothing
    BY <2>1, <1>3 DEF Promise!Nothing
  <2> QED BY <2>1, <2>2, <1>3, <1>5
<1>6. ASSUME NEW k \in Queue, TakeHead(k), Matched(k), Q[k].mem # {} PROVE Done /\ Promise!TakeOut(k, Promise!Front(Q[k]))
  <2>1. PICK x : x = ret'
    OBVIOUS
  <2>2. /\ x \in Q[k].mem /\ Q[k].ahead[x] = {}
        /\ Linked([Q EXCEPT ![k] = Promise!Remove(@, {x})], F, S)'
        /\ qcount' \in [Proc -> Nat]
    BY <2>1, <1>6, TakeHeadStep
  <2>3. queueOf' = [Q EXCEPT ![k] = Promise!Remove(@, {x})] /\ freeOf' = F /\ ret' = x
    BY <2>1, <2>2
  <2>4. x = Promise!Front(Q[k])
    BY <1>1, <2>2, FrontIs
  <2>5. Promise!TakeOut(k, x)
    BY <2>3 DEF Promise!TakeOut
  <2>6. Promise!outProc(k, x)
    BY <2>2, <2>5, Zenon DEF Promise!outProc
  <2>7. Promise!Next
    BY <2>2, <2>6, <1>1 DEF Promise!Next
  <2>8. x \in Proc
    BY <1>1, <2>2
  <2> QED BY <2>2, <2>3, <2>4, <2>5, <2>7, <2>8
<1>7. ASSUME NEW k \in Queue PROVE tail[k] = Null <=> Q[k].mem = {}
  <2>1. Q[k].mem = {} => tail[k] = Null
    BY QueueFields
  <2>2. Q[k].mem # {} => tail[k] # Null
    <3> SUFFICES ASSUME Q[k].mem # {} PROVE tail[k] # Null
      OBVIOUS
    <3>1. TailAndHead(Q[k].mem, Q[k].ahead, S[k], tail[k], Follow(tail[k]))
      BY HeadIs
    <3> QED BY <3>1, Zenon DEF TailAndHead
  <2> QED BY <2>1, <2>2
<1>8. ASSUME NEW k \in Queue, removeProc(k), TakeHead(k) => Matched(k) PROVE Done
  <2>1. CASE tail[k] = Null
    <3>1. Nothing
      BY <1>8, <2>1 DEF removeProc
    <3>2. Promise!Nothing => Promise!removeProc(k)
      BY <1>7, <2>1, Zenon DEF Promise!removeProc
    <3>3. Promise!removeProc(k) => Promise!Next
      BY DEF Promise!Next
    <3> QED BY <3>1, <3>2, <3>3, <1>5
  <2>2. CASE tail[k] # Null
    BY <1>6, <1>7, <1>8, <2>2 DEF removeProc
  <2> QED BY <2>1, <2>2
<1>9. ASSUME NEW k \in Queue, NEW p \in Proc, outProc(k, p), TakeHead(k) => Matched(k) PROVE Done
  <2>1. Members(k) = Q[k].mem
    BY MembersAre
  <2>2. CASE p \notin Q[k].mem
    <3>1. Nothing
      BY <1>9, <2>1, <2>2, Zenon DEF outProc
    <3>2. Promise!Nothing => Promise!outProc(k, p)
      BY <2>2, Zenon DEF Promise!outProc
    <3>3. Promise!outProc(k, p) => Promise!Next
      BY DEF Promise!Next
    <3> QED BY <3>1, <3>2, <3>3, <1>5
  <2>3. CASE p \in Q[k].mem /\ TakeHead(k)
    BY <2>3, <1>6, <1>9
  <2>4. CASE p \in Q[k].mem /\ p # Follow(tail[k]).next
    <3>1. TakeInner(k, p)
      BY <1>9, <2>1, <2>4, Zenon DEF outProc
    <3>2. Q[k].ahead[p] # {}
      <4> DEFINE h == Follow(tail[k])
      <4>1. h.next \in Q[k].mem /\ Q[k].ahead[h.next] = {}
        <5>1. Q[k].mem # {}
          BY <2>4
        <5>2. TailAndHead(Q[k].mem, Q[k].ahead, S[k], tail[k], Follow(tail[k]))
          BY <5>1, HeadIs
        <5> QED BY <5>2, Zenon DEF TailAndHead
      <4>2. p # h.next
        BY <2>4
      <4>3. FP!IsOrder(Q[k].mem, Q[k].ahead)
        BY QueueFields
      <4> HIDE DEF h
      <4> QED BY <4>1, <4>2, <4>3, <2>4 DEF FP!IsOrder
    <3>3. /\ ret' = p
          /\ Linked([Q EXCEPT ![k] = Promise!Remove(@, {p})], F, S)'
          /\ qcount' \in [Proc -> Nat]
      BY <3>1, <3>2, <2>4, TakeInnerStep
    <3>4. queueOf' = [Q EXCEPT ![k] = Promise!Remove(@, {p})] /\ freeOf' = F
      BY <3>3
    <3>5. Promise!TakeOut(k, p)
      BY <3>3, <3>4 DEF Promise!TakeOut
    <3>6. Promise!outProc(k, p)
      BY <3>5, <2>4, Zenon DEF Promise!outProc
    <3>7. Promise!Next
      BY <3>6 DEF Promise!Next
    <3> QED BY <3>3, <3>7
  <2>5. p \in Q[k].mem /\ p = Follow(tail[k]).next => TakeHead(k)
    BY <1>9, <2>1, Zenon DEF outProc
  <2> QED BY <2>2, <2>3, <2>4, <2>5
<1>10. ASSUME NEW k \in Queue, NEW p \in Proc, insertProc(k, p) PROVE Done
  <2>1. /\ p \notin F.mem \cup Q[k].mem
        /\ \E T : Linked([Q EXCEPT ![k] = Promise!Insert(@, p)], F, T)'
        /\ qcount' \in [Proc -> Nat]
    BY <1>10, InsertStep
  <2>2. queueOf' = [Q EXCEPT ![k] = Promise!Insert(@, p)] /\ freeOf' = F /\ ret' = ENULL
    BY <2>1, <1>10 DEF insertProc
  <2>3. Promise!insertProc(k, p)
    BY <2>1, <2>2 DEF Promise!insertProc
  <2>4. Promise!Next
    BY <2>3 DEF Promise!Next
  <2> QED BY <2>1, <2>2, <2>4
<1>11. ASSUME allocProc PROVE Done
  <2>1. procFree_h = ENULL <=> F.mem = {}
    BY FreeFields, Finite DEF IsChain
  <2>2. CASE F.mem = {}
    <3>1. Nothing
      BY <1>11, <2>1, <2>2 DEF allocProc
    <3>2. Promise!Nothing => Promise!Next
      BY <2>2 DEF Promise!allocProc, Promise!Next
    <3> QED BY <3>1, <3>2, <1>5
  <2>3. CASE F.mem # {}
    <3>1. PICK x : x = ret'
      OBVIOUS
    <3>2. /\ x = Promise!Front(F)
          /\ Linked(Q, Promise!Remove(F, {x}), S)'
          /\ qcount' \in [Proc -> Nat]
      BY <3>1, <2>3, <1>11, AllocStep
    <3>3. queueOf' = Q /\ freeOf' = Promise!Remove(F, {x}) /\ ret' = x
      BY <3>1, <3>2
    <3>4. Promise!allocProc
      BY <3>2, <3>3, <2>3 DEF Promise!allocProc
    <3>5. Promise!Next
      BY <3>4 DEF Promise!Next
    <3>6. x \in Proc
      <4>1. x = procFree_h
        BY <1>11, <2>1, <2>3, <3>1 DEF allocProc
      <4> QED BY <4>1, <2>1, <2>3, ChainWalk
    <3> QED BY <3>2, <3>3, <3>5, <3>6
  <2> QED BY <2>2, <2>3
<1>12. ASSUME NEW p \in Proc, freeProc(p) PROVE Done
  <2>1. /\ p \notin F.mem /\ \A k \in Queue : p \notin Q[k].mem
        /\ Linked(Q, Promise!Insert(F, p), S)'
        /\ qcount' \in [Proc -> Nat]
    BY <1>12, FreeStep
  <2>2. queueOf' = Q /\ freeOf' = Promise!Insert(F, p) /\ ret' = ENULL
    BY <2>1, <1>12 DEF freeProc
  <2>3. Promise!freeProc(p)
    BY <2>1, <2>2 DEF Promise!freeProc
  <2>4. Promise!Next
    BY <2>3 DEF Promise!Next
  <2> QED BY <2>1, <2>2, <2>4
<1>13. CASE Next /\ \A k \in Queue : TakeHead(k) => Matched(k)
  <2> HIDE DEF Done
  <2>1. Done
    BY <1>8, <1>9, <1>10, <1>11, <1>12, <1>13 DEF Next
  <2> QED BY <2>1 DEF Done
<1> QED BY <1>3a, <1>4, <1>13

-----------------------------------------------------------------------------
(* In every state of procq.c, every link of every entry leads where the     *)
(* queues and the free list say it leads.                                   *)
THEOREM LinksAlwaysRight == MatchedSpec => []LinkInv
PROOF
<1> DEFINE Links == (\E Q, F, S : Linked(Q, F, S)) /\ qcount \in [Proc -> Nat] /\ ret \in Proc \cup {ENULL}
<1>1. Init => Links
  <2>1. Init => \E Q, F, S : Linked(Q, F, S)
    BY InitLinked, Zenon
  <2>2. Init => qcount \in [Proc -> Nat] /\ ret \in Proc \cup {ENULL}
    BY DEF Init
  <2> QED BY <2>1, <2>2
<1>2. Links /\ [MatchedNext]_vars => Links'
  <2> SUFFICES ASSUME NEW Q, NEW F, NEW S, Linked(Q, F, S), qcount \in [Proc -> Nat], ret \in Proc \cup {ENULL},
                      [MatchedNext]_vars
               PROVE  (\E R, G, T : Linked(R, G, T)') /\ qcount' \in [Proc -> Nat] /\ ret' \in Proc \cup {ENULL}
    OBVIOUS
  <2>1. queueOf = Q /\ freeOf = F
    BY MappingFound
  <2> QED BY <2>1, MappingFoundNext, StepLinked, Zenon
<1>3. Links => LinkInv
  BY LinksOfMapping, Zenon DEF LinkInv
<1> QED BY <1>1, <1>2, <1>3, PTL DEF MatchedSpec

(* The links of procq.c implement queues and a free list that are first-in  *)
(* first-out: each of its operations does to them what ProcQueueSpec says.  *)
THEOREM LinksImplementFifo == MatchedSpec => ImplementsFifo
PROOF
<1>1. Init /\ LinkInv => Promise!Init
  <2> SUFFICES ASSUME Init, LinkInv PROVE Promise!Init
    OBVIOUS
  <2>1. PICK Q, F : Linked(Q, F, FirstSlots) /\ FirstQueues(Q, F)
    BY InitLinked
  <2>2. queueOf = Q /\ freeOf = F
    BY <2>1, MappingFound
  <2>3. ret = ENULL
    BY DEF Init
  <2> QED BY <2>1, <2>2, <2>3 DEF Promise!Init, FirstQueues
<1>2. LinkInv /\ [MatchedNext]_vars => [Promise!Next]_(Promise!vars)
  <2> SUFFICES ASSUME LinkInv, [MatchedNext]_vars PROVE [Promise!Next]_(Promise!vars)
    OBVIOUS
  <2>1. PICK Q, F : Q = queueOf /\ F = freeOf
    OBVIOUS
  <2>2. PICK S : Linked(Q, F, S) /\ qcount \in [Proc -> Nat] /\ ret \in Proc \cup {ENULL}
    BY <2>1, Zenon DEF LinkInv
  <2> QED BY <2>1, <2>2, MappingFoundNext, StepLinked, Zenon
<1> QED BY <1>1, <1>2, LinksAlwaysRight, PTL DEF MatchedSpec, ImplementsFifo, Promise!Spec

(* Every link has an entry and a link of the tables' sizes in it, or is     *)
(* clear, and no entry is on more than SEMMAX queues.                       *)
THEOREM LinksTypeCorrect == MatchedSpec => []TypeOK
PROOF
<1>1. LinkInv => TypeOK
  <2> SUFFICES ASSUME LinkInv PROVE TypeOK
    OBVIOUS
  <2>1. PICK Q, F, S : Linked(Q, F, S) /\ qcount \in [Proc -> Nat] /\ ret \in Proc \cup {ENULL}
    BY Zenon DEF LinkInv
  <2>2. tail \in [Queue -> Link] /\ link \in [Proc -> [Slot -> Link]]
    BY <2>1 DEF Linked
  <2>3. ASSUME NEW p \in Proc PROVE qcount[p] \in 0 .. SEMMAX
    <3> DEFINE n == Cardinality({k \in Queue : p \in Q[k].mem})
    <3>1. n \in Nat /\ n <= SEMMAX
      BY <2>1, QueuesOfEntry
    <3>2. qcount[p] = n
      BY <2>1, Zenon DEF Linked
    <3> HIDE DEF n
    <3> QED BY <3>1, <3>2, SizeAssumption
  <2>4. qcount \in [Proc -> 0 .. SEMMAX]
    BY <2>1, <2>3
  <2>5. procFree_h \in Proc \cup {ENULL}
    BY <2>1, ChainWalk
  <2> QED BY <2>1, <2>2, <2>4, <2>5 DEF TypeOK
<1> QED BY <1>1, LinksAlwaysRight, PTL

(* qcount is the number of queues on which the walks find the entry.        *)
THEOREM QcountCorrect == MatchedSpec => []QcountCounts
PROOF
<1>1. LinkInv => QcountCounts
  <2> SUFFICES ASSUME LinkInv, NEW p \in Proc
               PROVE  qcount[p] = Cardinality({k \in Queue : p \in Members(k)})
    BY DEF QcountCounts
  <2>1. PICK Q, F, S : Linked(Q, F, S)
    BY Zenon DEF LinkInv
  <2>2. \A k \in Queue : Members(k) = Q[k].mem
    BY <2>1, MembersAre
  <2>3. {k \in Queue : p \in Members(k)} = {k \in Queue : p \in Q[k].mem}
    BY <2>2
  <2>4. qcount[p] = Cardinality({k \in Queue : p \in Q[k].mem})
    BY <2>1, Zenon DEF Linked
  <2> QED BY <2>3, <2>4
<1> QED BY <1>1, LinksAlwaysRight, PTL

(* No call leaves a link in use behind: an entry that is not free has as    *)
(* many links in use as it has queues.                                      *)
THEOREM NoLinkLeaks == MatchedSpec => []LinksInUse
PROOF
<1>1. LinkInv => LinksInUse
  <2> SUFFICES ASSUME LinkInv, NEW p \in Proc \ FreeList
               PROVE  qcount[p] = Cardinality({s \in Slot : link[p][s].next # ENULL})
    BY DEF LinksInUse
  <2>1. PICK Q, F, S : Linked(Q, F, S)
    BY Zenon DEF LinkInv
  <2>2. p \in Proc /\ p \notin F.mem
    BY <2>1, ChainWalk
  <2>3. Cardinality({k \in Queue : p \in Q[k].mem}) = Cardinality({s \in Slot : link[p][s].next # ENULL})
    BY <2>1, <2>2, QueuesOfEntry
  <2>4. qcount[p] = Cardinality({k \in Queue : p \in Q[k].mem})
    BY <2>1, <2>2, Zenon DEF Linked
  <2> QED BY <2>3, <2>4
<1> QED BY <1>1, LinksAlwaysRight, PTL

-----------------------------------------------------------------------------
(* The two indices are the same where the callers use the queue with one    *)
(* link, and then no call can go wrong.                                     *)
THEOREM UniformMatches == ASSUME SlotOf \in [Queue -> Slot] PROVE Spec => MatchedSpec
PROOF
<1> DEFINE Links == (\E Q, F, S : Linked(Q, F, S)) /\ qcount \in [Proc -> Nat] /\ ret \in Proc \cup {ENULL}
<1>1. Init => Links
  <2>1. Init => \E Q, F, S : Linked(Q, F, S)
    BY InitLinked, Zenon
  <2>2. Init => qcount \in [Proc -> Nat] /\ ret \in Proc \cup {ENULL}
    BY DEF Init
  <2> QED BY <2>1, <2>2
<1>2. Links /\ [Next]_vars => [MatchedNext]_vars
  <2> SUFFICES ASSUME NEW Q, NEW F, NEW S, Linked(Q, F, S), NEW k \in Queue PROVE Matched(k)
    BY Zenon DEF MatchedNext
  <2>1. CASE Q[k].mem = {}
    <3>1. tail[k] = Null
      BY <2>1, QueueFields
    <3> QED BY <3>1 DEF Matched, Follow, Null
  <2>2. CASE Q[k].mem # {}
    <3>1. TailAndHead(Q[k].mem, Q[k].ahead, S[k], tail[k], Follow(tail[k]))
      BY <2>2, HeadIs
    <3>2. /\ tail[k].index = S[k][tail[k].next] /\ tail[k].next \in Q[k].mem
          /\ Follow(tail[k]).index = S[k][Follow(tail[k]).next] /\ Follow(tail[k]).next \in Q[k].mem
      BY <3>1, Zenon DEF TailAndHead
    <3>3. SlotOf[k] # Any
      BY SlotAssumption
    <3>4. \A p \in Q[k].mem : S[k][p] = SlotOf[k]
      BY <3>3 DEF Linked, LinksOf
    <3> QED BY <3>2, <3>4, Zenon DEF Matched
  <2> QED BY <2>1, <2>2
<1>3. Links /\ [MatchedNext]_vars => Links'
  <2> SUFFICES ASSUME NEW Q, NEW F, NEW S, Linked(Q, F, S), qcount \in [Proc -> Nat], ret \in Proc \cup {ENULL},
                      [MatchedNext]_vars
               PROVE  (\E R, G, T : Linked(R, G, T)') /\ qcount' \in [Proc -> Nat] /\ ret' \in Proc \cup {ENULL}
    OBVIOUS
  <2>1. queueOf = Q /\ freeOf = F
    BY MappingFound
  <2> QED BY <2>1, MappingFoundNext, StepLinked, Zenon
<1> QED BY <1>1, <1>2, <1>3, PTL DEF Spec, MatchedSpec

(* The links that lead on to a link, which are those of the queues: as many *)
(* of an entry as qcount says, each leading to another one, and each led to *)
(* by a tail or by a link of another entry.                                 *)
OnQueue(L, p, s) == L[p][s].index # ENULL

LinksInRings ==
  /\ link \in [Proc -> [Slot -> Link]] /\ qcount \in [Proc -> Nat]
  /\ \A p \in Proc : qcount[p] = Cardinality({s \in Slot : OnQueue(link, p, s)})
  /\ \A p \in Proc, s \in Slot : OnQueue(link, p, s) =>
       /\ link[p][s].next \in Proc /\ link[p][s].index \in Slot
       /\ OnQueue(link, link[p][s].next, link[p][s].index)
  /\ \A k \in Queue : tail[k] # Null => OnQueue(link, tail[k].next, tail[k].index)

LedTo(p, s) ==
  \/ \E k \in Queue : tail[k] # Null /\ tail[k].next = p /\ tail[k].index = s
  \/ \E m \in Proc \ {p}, t \in Slot : link[m][t].next = p /\ link[m][t].index = s

LEMMA OnQueueIs ==
  ASSUME NEW Q, NEW F, NEW S, Linked(Q, F, S), NEW p \in Proc, NEW s \in Slot
  PROVE  OnQueue(link, p, s) <=> \E k \in Queue : p \in Q[k].mem /\ S[k][p] = s
PROOF
<1>1. ASSUME NEW k \in Queue, p \in Q[k].mem, S[k][p] = s PROVE OnQueue(link, p, s)
  <2>1. link[p][S[k][p]].next \in Q[k].mem /\ link[p][S[k][p]].index = S[k][link[p][S[k][p]].next]
    BY <1>1, Zenon DEF Linked, Ring
  <2>2. Q[k].mem \subseteq Proc /\ S[k] \in [Proc -> Slot]
    BY QueueFields
  <2>3. link[p][s].index \in Slot
    BY <1>1, <2>1, <2>2
  <2> QED BY <2>3, Finite DEF OnQueue
<1>2. ASSUME \A k \in Queue : p \in Q[k].mem => S[k][p] # s PROVE ~ OnQueue(link, p, s)
  <2>1. CASE s = 0 /\ p \in F.mem
    BY <2>1, Zenon DEF Linked, Chain, OnQueue
  <2>2. CASE ~ (s = 0 /\ p \in F.mem)
    <3>1. link[p][s] = Null
      BY <1>2, <2>2 DEF Linked
    <3> QED BY <3>1 DEF OnQueue, Null
  <2> QED BY <2>1, <2>2
<1> QED BY <1>1, <1>2

LEMMA RingsOfLinks ==
  ASSUME NEW Q, NEW F, NEW S, Linked(Q, F, S), qcount \in [Proc -> Nat]
  PROVE  LinksInRings
PROOF
<1>1. link \in [Proc -> [Slot -> Link]]
  BY DEF Linked
<1>2. ASSUME NEW p \in Proc PROVE qcount[p] = Cardinality({s \in Slot : OnQueue(link, p, s)})
  <2>1. qcount[p] = Cardinality({k \in Queue : p \in Q[k].mem})
    BY Zenon DEF Linked
  <2>2. CASE p \in F.mem
    <3>1. \A k \in Queue : p \notin Q[k].mem
      BY <2>2 DEF Linked
    <3>2. {k \in Queue : p \in Q[k].mem} = {}
      BY <3>1
    <3>3. {s \in Slot : OnQueue(link, p, s)} = {}
      BY <3>1, OnQueueIs
    <3> QED BY <2>1, <3>2, <3>3, Zenon
  <2>3. CASE p \notin F.mem
    <3>1. ASSUME NEW s \in Slot PROVE link[p][s].next # ENULL <=> OnQueue(link, p, s)
      <4>1. CASE \E k \in Queue : p \in Q[k].mem /\ S[k][p] = s
        <5>1. PICK k \in Queue : p \in Q[k].mem /\ S[k][p] = s
          BY <4>1
        <5>2. link[p][S[k][p]].next \in Q[k].mem
          BY <5>1, Zenon DEF Linked, Ring
        <5>3. Q[k].mem \subseteq Proc
          BY QueueFields
        <5>4. link[p][s].next \in Proc
          BY <5>1, <5>2, <5>3
        <5> QED BY <4>1, <5>4, OnQueueIs, Finite
      <4>2. CASE ~ \E k \in Queue : p \in Q[k].mem /\ S[k][p] = s
        <5>1. link[p][s] = Null
          BY <2>3, <4>2 DEF Linked
        <5> QED BY <5>1 DEF Null, OnQueue
      <4> QED BY <4>1, <4>2
    <3>2. {s \in Slot : link[p][s].next # ENULL} = {s \in Slot : OnQueue(link, p, s)}
      BY <3>1
    <3>3. Cardinality({k \in Queue : p \in Q[k].mem}) = Cardinality({s \in Slot : link[p][s].next # ENULL})
      BY <2>3, QueuesOfEntry
    <3> QED BY <2>1, <3>2, <3>3, Zenon
  <2> QED BY <2>2, <2>3
<1>3. ASSUME NEW p \in Proc, NEW s \in Slot, OnQueue(link, p, s)
      PROVE  /\ link[p][s].next \in Proc /\ link[p][s].index \in Slot
             /\ OnQueue(link, link[p][s].next, link[p][s].index)
  <2>1. PICK k \in Queue : p \in Q[k].mem /\ S[k][p] = s
    BY <1>3, OnQueueIs
  <2>2. link[p][S[k][p]].next \in Q[k].mem /\ link[p][S[k][p]].index = S[k][link[p][S[k][p]].next]
    BY <2>1, Zenon DEF Linked, Ring
  <2>3. Q[k].mem \subseteq Proc /\ S[k] \in [Proc -> Slot]
    BY QueueFields
  <2>4. PICK r : r = link[p][s].next
    OBVIOUS
  <2>5. r \in Q[k].mem /\ r \in Proc /\ link[p][s].index = S[k][r] /\ S[k][r] \in Slot
    BY <2>1, <2>2, <2>3, <2>4
  <2>6. OnQueue(link, r, S[k][r])
    BY <2>5, OnQueueIs
  <2> QED BY <2>4, <2>5, <2>6
<1>4. ASSUME NEW k \in Queue, tail[k] # Null PROVE OnQueue(link, tail[k].next, tail[k].index)
  <2>1. Q[k].mem # {}
    BY <1>4, QueueFields
  <2>2. TailAndHead(Q[k].mem, Q[k].ahead, S[k], tail[k], Follow(tail[k]))
    BY <2>1, HeadIs
  <2>3. PICK r : r = tail[k].next
    OBVIOUS
  <2>4. r \in Q[k].mem /\ tail[k].index = S[k][r]
    BY <2>2, <2>3, Zenon DEF TailAndHead
  <2>5. r \in Proc /\ S[k][r] \in Slot
    <3>1. Q[k].mem \subseteq Proc /\ S[k] \in [Proc -> Slot]
      BY QueueFields
    <3> QED BY <2>4, <3>1
  <2> QED BY <2>3, <2>4, <2>5, OnQueueIs
<1> QED BY <1>1, <1>2, <1>3, <1>4 DEF LinksInRings

LEMMA EveryLinkLedTo ==
  ASSUME NEW Q, NEW F, NEW S, Linked(Q, F, S), NEW p \in Proc, NEW s \in Slot, OnQueue(link, p, s)
  PROVE  LedTo(p, s)
PROOF
<1>1. PICK k \in Queue : p \in Q[k].mem /\ S[k][p] = s
  BY OnQueueIs
<1> DEFINE M == Q[k].mem
           A == Q[k].ahead
           w == Walk(k)
<1>2. TailAndHead(M, A, S[k], tail[k], Follow(tail[k]))
  BY <1>1, HeadIs
<1>3. CASE tail[k].next = p
  BY <1>1, <1>2, <1>3, Zenon DEF TailAndHead, LedTo
<1>4. CASE tail[k].next # p
  <2>1. GoesRound(M, A, S[k], w) /\ Members(k) = M
    BY <1>1, RingWalk
  <2>2. PICK n \in 1 .. MAXPROC : w[n].next = p
    BY <2>1, <1>1 DEF Members
  <2>3. n \in 0 .. MAXPROC /\ n - 1 \in 0 .. MAXPROC
    BY Finite
  <2> DEFINE m == w[n - 1].next
  <2>4. /\ m \in M /\ w[n] = link[m][S[k][m]]
        /\ w[n] = [next |-> w[n].next, index |-> S[k][w[n].next]]
    BY <2>1, <2>3, Zenon DEF GoesRound
  <2>5. link[m][S[k][m]].next = p /\ link[m][S[k][m]].index = s
    <3>0. \A v, u : v = [next |-> v.next, index |-> u] => v.index = u
      OBVIOUS
    <3>1. w[n].index = S[k][w[n].next]
      <4> HIDE DEF w
      <4> QED BY <2>4, <3>0, Zenon
    <3> QED BY <2>2, <2>4, <3>1, <1>1
  <2>6. m \in Proc /\ S[k][m] \in Slot
    <3>1. Q[k].mem \subseteq Proc /\ S[k] \in [Proc -> Slot]
      BY QueueFields
    <3> HIDE DEF m
    <3> QED BY <2>4, <3>1
  <2> HIDE DEF m
  <2>7. m # p
    <3> SUFFICES ASSUME m = p PROVE FALSE
      OBVIOUS
    <3>1. A[p] = AheadOfNext(Q[k], p)
      <4>1. link[p][S[k][p]].next = p
        BY <2>5
      <4>2. A[link[p][S[k][p]].next] = AheadOfNext(Q[k], p)
        BY <1>1, Zenon DEF Linked, Ring
      <4> QED BY <4>1, <4>2, Zenon
    <3>2. FP!IsOrder(M, A)
      BY QueueFields
    <3>3. p \notin A[p]
      BY <3>2, <2>6 DEF FP!IsOrder
    <3>4. A[p] \cup {p} = M
      BY <3>1, <3>3 DEF AheadOfNext
    <3> DEFINE r == tail[k].next
    <3>5. r \in M /\ A[r] = M \ {r}
      BY <1>1, Zenon DEF Linked, Ring
    <3> HIDE DEF r, M, A
    <3>6. r # p
      BY <1>4 DEF r
    <3>7. p \in M
      BY <1>1 DEF M
    <3> QED BY <3>2, <3>4, <3>5, <3>6, <3>7 DEF FP!IsOrder
  <2> QED BY <2>5, <2>6, <2>7 DEF LedTo
<1> QED BY <1>3, <1>4

(* What a removal with different indices does: x leaves with its link o for *)
(* the queue still set and its link i clear.                                *)
LEMMA UnmatchedBreaks ==
  ASSUME NEW Q, NEW F, NEW S, Linked(Q, F, S), qcount \in [Proc -> Nat],
         NEW k \in Queue, TakeHead(k), ~ Matched(k)
  PROVE  ~ LinksInRings'
PROOF
<1> SUFFICES ASSUME LinksInRings' PROVE FALSE
  OBVIOUS
<1> DEFINE t == tail[k]
           h == Follow(t)
           x == h.next
           last == t.next
           i == t.index
           o == h.index
<1>1. Q[k].mem # {}
  <2> SUFFICES ASSUME Q[k].mem = {} PROVE FALSE
    OBVIOUS
  <2>1. tail[k] = Null
    BY QueueFields
  <2> QED BY <2>1 DEF Matched, Follow, Null
<1>2. TailAndHead(Q[k].mem, Q[k].ahead, S[k], t, h)
  BY <1>1, HeadIs
<1>3. /\ last \in Q[k].mem /\ x \in Q[k].mem /\ i = S[k][last] /\ o = S[k][x]
      /\ h = link[last][i] /\ i # o
  <2>1. i # o
    BY DEF Matched
  <2> QED BY <1>2, <2>1, Zenon DEF TailAndHead
<1>4. last \in Proc /\ x \in Proc /\ i \in Slot /\ o \in Slot /\ x # last
  <2>1. Q[k].mem \subseteq Proc /\ S[k] \in [Proc -> Slot]
    BY QueueFields
  <2> HIDE DEF last, x, i, o
  <2> QED BY <1>3, <2>1
<1>5. /\ link' = Cleared(SetLink(link, t, Follow(h)), [h EXCEPT !.index = i])
      /\ tail' = tail /\ qcount' = [qcount EXCEPT ![x] = @ - 1]
  BY <1>4, Zenon DEF TakeHead
<1>6. link \in [Proc -> [Slot -> Link]] /\ tail \in [Queue -> Link]
  BY DEF Linked
<1>7. h \in Link
  <2>1. h = link[last][i]
    BY <1>3
  <2> HIDE DEF h, last, i
  <2> QED BY <2>1, <1>4, <1>6
<1>8. Follow(h) \in Link
  <2>1. x # ENULL /\ o # ENULL
    BY <1>4, Finite
  <2>2. Follow(h) = link[h.next][h.index]
    <3> HIDE DEF h
    <3> QED BY <2>1, Zenon DEF Follow, x, o
  <2> HIDE DEF h, x, o
  <2> QED BY <2>2, <1>4, <1>6 DEF x, o
<1> DEFINE L == SetLink(link, t, Follow(h))
           X == [h EXCEPT !.index = i]
<1>9. X.next = x /\ X.index = i /\ t.next = last /\ t.index = i /\ Null \in Link
  BY <1>7 DEF Link, Null
<1> HIDE DEF X, L, h, t
<1>10. /\ L \in [Proc -> [Slot -> Link]]
       /\ \A q \in Proc, r \in Slot : q # last \/ r # i => L[q][r] = link[q][r]
  <2>1. Stored(L, link, last, i, Follow(h))
    BY <1>4, <1>6, <1>8, <1>9, SetLinkIs, Zenon DEF L
  <2> QED BY <2>1, Zenon DEF Stored
<1>11. /\ link'[x][i] = Null
       /\ \A q \in Proc, r \in Slot : q # x \/ r # i => link'[q][r] = L[q][r]
  <2>1. link' = SetLink(L, X, Null)
    BY <1>5, Zenon DEF Cleared, L, X
  <2>2. Stored(SetLink(L, X, Null), L, x, i, Null)
    BY <1>4, <1>9, <1>10, SetLinkIs, Zenon
  <2> QED BY <2>1, <2>2, Zenon DEF Stored
<1> HIDE DEF x, last, i, o
<1>12. /\ ~ OnQueue(link', x, i)
       /\ \A r \in Slot \ {i} : link'[x][r] = link[x][r]
  BY <1>4, <1>10, <1>11 DEF OnQueue, Null
<1>13. LinksInRings
  BY RingsOfLinks
<1>14. CASE ~ OnQueue(link, x, i)
  <2>1. {s \in Slot : OnQueue(link', x, s)} = {s \in Slot : OnQueue(link, x, s)}
    BY <1>12, <1>14 DEF OnQueue
  <2>2. qcount'[x] = Cardinality({s \in Slot : OnQueue(link', x, s)})
    BY <1>4, Zenon DEF LinksInRings, OnQueue
  <2>3. qcount[x] = Cardinality({s \in Slot : OnQueue(link, x, s)})
    BY <1>13, <1>4, Zenon DEF LinksInRings
  <2>4. qcount'[x] = qcount[x] - 1 /\ qcount[x] \in Nat
    BY <1>4, <1>5
  <2>5. qcount'[x] = qcount[x]
    BY <2>1, <2>2, <2>3, Zenon
  <2> QED BY <2>4, <2>5
<1>15. CASE OnQueue(link, x, i)
  <2>1. LedTo(x, i)
    BY <1>4, <1>15, EveryLinkLedTo
  <2>2. CASE \E j \in Queue : tail[j] # Null /\ tail[j].next = x /\ tail[j].index = i
    <3>1. PICK j \in Queue : tail[j] # Null /\ tail[j].next = x /\ tail[j].index = i
      BY <2>2
    <3>2. tail'[j] = tail[j]
      BY <1>5
    <3>3. tail'[j] # Null => OnQueue(link', tail'[j].next, tail'[j].index)
      BY Zenon DEF LinksInRings, OnQueue
    <3> QED BY <3>1, <3>2, <3>3, <1>12
  <2>3. CASE \E m \in Proc \ {x}, r \in Slot : link[m][r].next = x /\ link[m][r].index = i
    <3>1. PICK m \in Proc \ {x}, r \in Slot : link[m][r].next = x /\ link[m][r].index = i
      BY <2>3
    <3>2. m # last \/ r # i
      BY <3>1, <1>3 DEF o
    <3>3. link'[m][r] = link[m][r]
      BY <3>1, <3>2, <1>4, <1>10, <1>11
    <3>4. OnQueue(link', m, r)
      BY <3>1, <3>3, <1>4, Finite DEF OnQueue
    <3>5. OnQueue(link', m, r) => OnQueue(link', link'[m][r].next, link'[m][r].index)
      BY Zenon DEF LinksInRings, OnQueue
    <3> QED BY <3>1, <3>3, <3>4, <3>5, <1>12
  <2> QED BY <2>1, <2>2, <2>3 DEF LedTo
<1> QED BY <1>14, <1>15

(* One removal of a head whose link for the queue has not the index of the  *)
(* tail's leaves the links wrong: they stay right in the runs without one,  *)
(* and in no others.                                                        *)
THEOREM LinksRightIffMatched == Spec => ([]LinkInv <=> MatchedSpec)
PROOF
<1>1. LinkInv => LinksInRings
  <2> SUFFICES ASSUME LinkInv PROVE LinksInRings
    OBVIOUS
  <2>1. PICK S : Linked(queueOf, freeOf, S) /\ qcount \in [Proc -> Nat]
    BY Zenon DEF LinkInv
  <2> QED BY <2>1, RingsOfLinks
<1>2. LinkInv' => LinksInRings'
  BY <1>1, PTL
<1>3. LinkInv /\ LinkInv' /\ [Next]_vars => [MatchedNext]_vars
  <2> SUFFICES ASSUME LinkInv, LinkInv', NEW k \in Queue, TakeHead(k), ~ Matched(k) PROVE FALSE
    BY Zenon DEF MatchedNext
  <2>1. PICK S : Linked(queueOf, freeOf, S) /\ qcount \in [Proc -> Nat]
    BY Zenon DEF LinkInv
  <2>2. ~ LinksInRings'
    BY <2>1, UnmatchedBreaks
  <2> QED BY <2>2, <1>2
<1> QED BY <1>3, LinksAlwaysRight, PTL DEF Spec, MatchedSpec
=============================================================================
