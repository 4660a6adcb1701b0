------------------------------ MODULE AslProofs ------------------------------
(***************************************************************************)
(* The lists of asl.c implement one queue for every semaphore, for any     *)
(* number of semaphores, descriptors and processes: ListInv says where     *)
(* every link leads, and each operation keeps this with the queues that    *)
(* AslSpec says it leaves.                                                 *)
(***************************************************************************)
EXTENDS AslInv, FifoProofs

-----------------------------------------------------------------------------
(* Lists of members M, from head on through next, in the order of key. *)

LEMMA FollowsSame ==
  ASSUME NEW M, NEW key, NEW head, NEW next, Follows(M, key, head, next),
         NEW k2, NEW n2, \A d \in M : k2[d] = key[d] /\ n2[d] = next[d]
  PROVE  Follows(M, k2, head, n2)
PROOF BY DEF Follows

LEMMA LeadsBackSame ==
  ASSUME NEW M, NEW head, NEW next, NEW prev, LeadsBack(M, head, next, prev),
         NEW n2, NEW p2, \A d \in M : n2[d] = next[d] /\ p2[d] = prev[d]
  PROVE  LeadsBack(M, head, n2, p2)
PROOF BY DEF LeadsBack

(* next and prev agree. *)
LEMMA BackAndForth ==
  ASSUME NEW M, NEW key, NEW head, NEW next, NEW prev,
         Follows(M, key, head, next), LeadsBack(M, head, next, prev),
         NEW d \in M, next[d] # ENULL
  PROVE  next[d] \in M /\ key[d] < key[next[d]] /\ prev[next[d]] = d
PROOF
<1>1. next[d] \in M /\ key[d] < key[next[d]] /\ key[head] <= key[d] /\ head \in M
  BY DEF Follows
<1>2. next[d] # head
  BY <1>1 DEF Follows
<1> DEFINE e == next[d]
           f == prev[e]
<1>3. f \in M /\ next[f] = e
  BY <1>1, <1>2 DEF LeadsBack
<1>4. key[f] <= key[d] /\ key[d] <= key[f]
  <2> HIDE DEF f
  <2> QED BY <1>1, <1>3 DEF Follows
<1> QED BY <1>1, <1>3, <1>4 DEF Follows

(* The place of a new member x: after before, in front of place. *)
Fits(M, key, head, next, x, before, place) ==
  /\ x \notin M /\ key[x] \in Int /\ ENULL \notin M \cup {x}
  /\ before = ENULL => place = head
  /\ before # ENULL => before \in M /\ key[before] < key[x] /\ next[before] = place
  /\ place # ENULL => place \in M /\ key[x] < key[place]

(* What becomes of the links next and prev when x is put there ... *)
Inserted(M, head, next, x, before, place, h2, n2) ==
  /\ before = ENULL => h2 = x
  /\ before # ENULL => h2 = head /\ n2[before] = x
  /\ n2[x] = place
  /\ \A d \in M \ {before} : n2[d] = next[d]

InsertedBack(M, prev, x, before, place, p2) ==
  /\ p2[x] = before
  /\ place # ENULL => p2[place] = x
  /\ \A d \in M \ {place} : p2[d] = prev[d]

(* ... and when x, which comes after before, is taken out. *)
Removed(M, head, next, x, before, h2, n2) ==
  /\ x \in M /\ ENULL \notin M
  /\ before = ENULL => x = head /\ h2 = next[x]
  /\ before # ENULL => before \in M /\ next[before] = x /\ h2 = head /\ n2[before] = next[x]
  /\ \A d \in M \ {before, x} : n2[d] = next[d]

RemovedBack(M, next, prev, x, p2) ==
  /\ next[x] # ENULL => p2[next[x]] = prev[x]
  /\ \A d \in M \ {next[x], x} : p2[d] = prev[d]

LEMMA FollowsInsert ==
  ASSUME NEW M, NEW key, NEW head, NEW next, NEW x, NEW before, NEW place, NEW h2, NEW n2,
         Follows(M, key, head, next), Fits(M, key, head, next, x, before, place),
         Inserted(M, head, next, x, before, place, h2, n2)
  PROVE  Follows(M \cup {x}, key, h2, n2)
PROOF
<1> /\ (before = ENULL => h2 = x) /\ (before # ENULL => h2 = head /\ n2[before] = x)
    /\ n2[x] = place /\ \A d \in M \ {before} : n2[d] = next[d]
  BY DEF Inserted
<1>1. \A d \in M : key[d] < key[x] \/ key[x] < key[d]
  BY DEF Follows, Fits
<1>2. \A d \in M : before = ENULL => key[x] < key[d]
  BY DEF Follows, Fits
<1>3. \A d \in M : before # ENULL => key[d] <= key[before] \/ key[x] < key[d]
  BY DEF Follows, Fits
<1>4. \A d \in M : place # ENULL => key[d] < key[x] \/ key[place] <= key[d]
  BY <1>1, <1>2, <1>3 DEF Follows, Fits
<1>5. \A d \in M : place = ENULL => key[d] < key[x]
  BY <1>1, <1>2, <1>3 DEF Follows, Fits
<1>6. \A d, e \in M \cup {x} : key[d] \in Int /\ (key[d] = key[e] => d = e)
  BY <1>1 DEF Follows, Fits
<1>7. h2 \in M \cup {x} /\ \A e \in M \cup {x} : key[h2] <= key[e]
  BY <1>2 DEF Follows, Fits
<1>8. ASSUME NEW d \in M \cup {x}
      PROVE  /\ n2[d] = ENULL => \A e \in M \cup {x} : key[e] <= key[d]
             /\ n2[d] # ENULL => /\ n2[d] \in M \cup {x} /\ key[d] < key[n2[d]]
                                 /\ \A e \in M \cup {x} : key[e] <= key[d] \/ key[n2[d]] <= key[e]
  <2>1. CASE d = x
    BY <1>4, <1>5, <2>1 DEF Fits, Follows
  <2>2. CASE d = before /\ before # ENULL
    BY <1>3, <2>2 DEF Fits, Follows
  <2>3. CASE d \in M /\ d # before
    <3>1. n2[d] = next[d]
      BY <2>3
    <3>2. next[d] = ENULL => key[x] < key[d]
      BY <1>1, <1>2, <2>3 DEF Fits, Follows
    <3>3. next[d] # ENULL => key[x] <= key[d] \/ key[next[d]] <= key[x]
      BY <1>1, <1>2, <1>3, <1>4, <1>5, <2>3 DEF Fits, Follows
    <3> QED BY <2>3, <3>1, <3>2, <3>3, <1>6 DEF Follows
  <2> QED BY <2>1, <2>2, <2>3 DEF Fits
<1> QED BY <1>6, <1>7, <1>8 DEF Follows

LEMMA LeadsBackInsert ==
  ASSUME NEW M, NEW key, NEW head, NEW next, NEW prev,
         NEW x, NEW before, NEW place, NEW h2, NEW n2, NEW p2,
         Follows(M, key, head, next), LeadsBack(M, head, next, prev),
         Fits(M, key, head, next, x, before, place),
         Inserted(M, head, next, x, before, place, h2, n2),
         InsertedBack(M, prev, x, before, place, p2)
  PROVE  LeadsBack(M \cup {x}, h2, n2, p2)
PROOF
<1> /\ (before = ENULL => h2 = x) /\ (before # ENULL => h2 = head /\ n2[before] = x)
    /\ n2[x] = place /\ \A d \in M \ {before} : n2[d] = next[d]
  BY DEF Inserted
<1> /\ p2[x] = before /\ (place # ENULL => p2[place] = x)
    /\ \A d \in M \ {place} : p2[d] = prev[d]
  BY DEF InsertedBack
<1> SUFFICES ASSUME NEW d \in M \cup {x}
             PROVE  /\ d = h2 => p2[d] = ENULL
                    /\ d # h2 => p2[d] \in M \cup {x} /\ n2[p2[d]] = d
  BY DEF LeadsBack
<1>1. CASE d = x
  BY <1>1 DEF Fits, Follows
<1>2. CASE d = place /\ place # ENULL
  BY <1>2 DEF Fits, Follows
<1>3. CASE d \in M /\ d # place
  <2>1. p2[d] = prev[d]
    BY <1>3
  <2>2. CASE d = head
    BY <1>3, <2>1, <2>2 DEF Fits, Follows, LeadsBack
  <2>3. CASE d # head
    <3>1. prev[d] \in M /\ next[prev[d]] = d
      BY <1>3, <2>3 DEF LeadsBack
    <3>2. prev[d] # before
      BY <3>1, <1>3 DEF Fits
    <3> QED BY <1>3, <2>1, <2>3, <3>1, <3>2 DEF Fits
  <2> QED BY <2>2, <2>3
<1> QED BY <1>1, <1>2, <1>3 DEF Fits

LEMMA FollowsRemove ==
  ASSUME NEW M, NEW key, NEW head, NEW next, NEW x, NEW before, NEW h2, NEW n2,
         Follows(M, key, head, next), Removed(M, head, next, x, before, h2, n2)
  PROVE  Follows(M \ {x}, key, h2, n2)
PROOF
<1> /\ x \in M /\ ENULL \notin M /\ (before = ENULL => x = head /\ h2 = next[x])
    /\ before # ENULL => before \in M /\ next[before] = x /\ h2 = head /\ n2[before] = next[x]
    /\ \A d \in M \ {before, x} : n2[d] = next[d]
  BY DEF Removed
<1>0. before # ENULL => before # x /\ key[before] < key[x]
  BY DEF Follows
<1>1. \A d \in M \ {x} : before = ENULL => key[x] < key[d]
  BY DEF Follows
<1>2. \A d \in M \ {x} : before # ENULL => key[d] <= key[before] \/ key[x] < key[d]
  BY DEF Follows
<1>3. \A d \in M \ {x} : key[x] < key[d] =>
          next[x] # ENULL /\ next[x] \in M \ {x} /\ key[x] < key[next[x]] /\ key[next[x]] <= key[d]
  BY DEF Follows
<1>4. \A d \in M \ {x} : d # before => next[d] # x
  BY <1>0, <1>1, <1>2 DEF Follows
<1>5. h2 \in (M \ {x}) \cup {ENULL}
  BY <1>0, <1>3 DEF Follows
<1>6. M \ {x} # {} => h2 \in M \ {x} /\ \A e \in M \ {x} : key[h2] <= key[e]
  BY <1>0, <1>1, <1>3 DEF Follows
<1>7. M \ {x} = {} => h2 = ENULL
  BY <1>5
<1>8. ASSUME NEW d \in M \ {x}
      PROVE  /\ n2[d] = ENULL => \A e \in M \ {x} : key[e] <= key[d]
             /\ n2[d] # ENULL => /\ n2[d] \in M \ {x} /\ key[d] < key[n2[d]]
                                 /\ \A e \in M \ {x} : key[e] <= key[d] \/ key[n2[d]] <= key[e]
  <2>1. CASE d = before
    BY <1>0, <1>2, <1>3, <2>1 DEF Follows
  <2>2. CASE d # before
    BY <1>4, <2>2 DEF Follows
  <2> QED BY <2>1, <2>2
<1> QED BY <1>6, <1>7, <1>8 DEF Follows

LEMMA LeadsBackRemove ==
  ASSUME NEW M, NEW key, NEW head, NEW next, NEW prev, NEW x, NEW before, NEW h2, NEW n2, NEW p2,
         Follows(M, key, head, next), LeadsBack(M, head, next, prev), before = prev[x],
         Removed(M, head, next, x, before, h2, n2), RemovedBack(M, next, prev, x, p2)
  PROVE  LeadsBack(M \ {x}, h2, n2, p2)
PROOF
<1> /\ x \in M /\ ENULL \notin M /\ (before = ENULL => x = head /\ h2 = next[x])
    /\ before # ENULL => before \in M /\ next[before] = x /\ h2 = head /\ n2[before] = next[x]
    /\ \A d \in M \ {before, x} : n2[d] = next[d]
  BY DEF Removed
<1> /\ next[x] # ENULL => p2[next[x]] = before
    /\ \A d \in M \ {next[x], x} : p2[d] = prev[d]
  BY DEF RemovedBack
<1>0. /\ before # ENULL => before \in M /\ next[before] = x /\ before # x /\ key[before] < key[x] /\ x # head
      /\ before = ENULL => x = head
  BY DEF Follows, LeadsBack
<1>1. next[x] # ENULL => next[x] \in M /\ key[x] < key[next[x]]
  BY DEF Follows
<1> SUFFICES ASSUME NEW d \in M \ {x}
             PROVE  /\ d = h2 => p2[d] = ENULL
                    /\ d # h2 => p2[d] \in M \ {x} /\ n2[p2[d]] = d
  BY DEF LeadsBack
<1>2. CASE d = next[x]
  <2>1. d # head
    BY <1>1, <1>2 DEF Follows
  <2> QED BY <1>0, <1>1, <1>2, <2>1 
<1>3. CASE d # next[x]
  <2>1. p2[d] = prev[d]
    BY <1>3
  <2>2. CASE d = head
    BY <1>0, <1>3, <2>1, <2>2 DEF LeadsBack
  <2>3. CASE d # head
    <3>1. prev[d] \in M /\ next[prev[d]] = d
      BY <2>3 DEF LeadsBack
    <3>2. prev[d] # before /\ prev[d] # x
      BY <3>1, <1>0, <1>3
    <3> QED BY <1>0, <1>3, <2>1, <2>3, <3>1, <3>2
  <2> QED BY <2>2, <2>3
<1> QED BY <1>2, <1>3

-----------------------------------------------------------------------------
LEMMA Sizes ==
  /\ NumDesc \in Nat \ {0, 1} /\ SEMMAX \in Nat
  /\ ENULL \notin Desc /\ ENULL \notin Addr /\ ENULL \notin Proc /\ Addr \subseteq Int
  /\ 0 \in Desc /\ NumDesc - 1 \in Desc
  /\ IsFiniteSet(Desc) /\ Cardinality(Desc) = NumDesc /\ IsFiniteSet(Proc) /\ IsFiniteSet(Addr)
PROOF
<1>1. NumDesc \in Nat \ {0, 1} /\ SEMMAX \in Nat
  BY SizeAssumption
<1>2. 0 \in Int /\ NumDesc - 1 \in Int /\ ~ (0 > NumDesc - 1) /\ ((NumDesc - 1) - 0) + 1 = NumDesc
  BY <1>1
<1>3. IsFiniteSet(0 .. NumDesc - 1) /\ Cardinality(0 .. NumDesc - 1) = NumDesc
  BY <1>2, FS_Interval
<1>4. 0 \in Desc /\ NumDesc - 1 \in Desc
  BY <1>1 DEF Desc
<1>5. ENULL \notin Desc /\ ENULL \notin Addr /\ ENULL \notin Proc /\ Addr \subseteq Int /\ IsFiniteSet(Addr)
  BY AddrAssumption
<1> QED BY <1>1, <1>3, <1>4, <1>5, ProcAssumption DEF Desc

LEMMA TableFields ==
  ASSUME NEW S \in Table
  PROVE  /\ S.next \in [Desc -> Desc \cup {ENULL}] /\ S.prev \in [Desc -> Desc \cup {ENULL}]
         /\ S.addr \in [Desc -> Addr \cup {ENULL}] /\ S.link \in [Desc -> Fifo]
         /\ S.head \in Desc \cup {ENULL} /\ S.free \in Desc \cup {ENULL}
         /\ S = [next |-> S.next, prev |-> S.prev, addr |-> S.addr, link |-> S.link,
                 head |-> S.head, free |-> S.free]
PROOF BY DEF Table

(* What a walk is: the recursive definition has the values it says. *)
LEMMA WalkSteps ==
  ASSUME NEW S \in Table, NEW d \in Desc \cup {ENULL}
  PROVE  /\ Walk(S, d)[0] = d
         /\ \A n \in 1 .. NumDesc :
              /\ Walk(S, d)[n - 1] = ENULL => Walk(S, d)[n] = ENULL
              /\ Walk(S, d)[n - 1] # ENULL => Walk(S, d)[n] = S.next[Walk(S, d)[n - 1]]
PROOF
<1> DEFINE X == Desc \cup {ENULL}
           go(e) == IF e = ENULL THEN ENULL ELSE S.next[e]
           step == [e \in X |-> go(e)]
<1>1. step \in [X -> X]
  <2>1. \A e \in X : go(e) \in X
    BY TableFields
  <2> QED BY <2>1
<1>2. d \in X /\ NumDesc \in Nat
  BY SizeAssumption
<1>3. PICK g \in [0 .. NumDesc -> X] : g[0] = d /\ \A n \in 1 .. NumDesc : g[n] = step[g[n - 1]]
  <2> HIDE DEF step, X
  <2>1. IsStep(NumDesc, X, d, step)
    BY <1>1, <1>2 DEF IsStep
  <2> QED BY <2>1, Iterates
<1>4. g = [n \in 0 .. NumDesc |-> IF n = 0 THEN d ELSE go(g[n - 1])]
  <2>0. \A e \in X : step[e] = go(e)
    OBVIOUS
  <2>1. \A n \in 1 .. NumDesc : g[n - 1] \in X /\ g[n] = go(g[n - 1])
    <3> HIDE DEF step, go, X
    <3> QED BY <1>2, <1>3, <2>0
  <2> HIDE DEF go, X
  <2>2. \A n \in 0 .. NumDesc : g[n] = IF n = 0 THEN d ELSE go(g[n - 1])
    BY <1>2, <1>3, <2>1
  <2> QED BY <2>2
<1>5. Walk(S, d) = CHOOSE f : f = [n \in 0 .. NumDesc |-> IF n = 0 THEN d ELSE go(f[n - 1])]
  BY DEF Walk
<1> HIDE DEF go, step
<1> DEFINE f == Walk(S, d)
<1>6. f = [n \in 0 .. NumDesc |-> IF n = 0 THEN d ELSE go(f[n - 1])]
  BY <1>4, <1>5, Zenon
<1> HIDE DEF f
<1>8. f[0] = d /\ \A n \in 1 .. NumDesc : f[n] = go(f[n - 1])
  BY <1>2, <1>6
<1> QED BY <1>8 DEF f, go

(* A walk from the head of a list comes to its members in their order, and   *)
(* to its end.                                                               *)
Below(M, key, d) == IF d = ENULL THEN M ELSE {e \in M : key[e] < key[d]}
Passed(w, n) == {w[m] : m \in 0 .. n - 1}

IsList(S, M, key, d) ==
  S \in Table /\ M \in SUBSET Desc /\ Follows(M, key, d, S.next)

MeetsAll(w, S, M, key, d) ==
  /\ \A n \in 0 .. NumDesc :
       w[n] \in M \cup {ENULL} /\ Passed(w, n) \ {ENULL} = Below(M, key, w[n])
  /\ w[0] = d /\ w[NumDesc] = ENULL
  /\ \A n \in 1 .. NumDesc : /\ w[n - 1] = ENULL => w[n] = ENULL
                             /\ w[n - 1] # ENULL => w[n] = S.next[w[n - 1]]

LEMMA WalkMeets ==
  ASSUME NEW S, NEW M, NEW key, NEW d, IsList(S, M, key, d)
  PROVE  MeetsAll(Walk(S, d), S, M, key, d) /\ List(S, d) = M
PROOF
<1> S \in Table /\ M \in SUBSET Desc /\ Follows(M, key, d, S.next)
  BY DEF IsList
<1> DEFINE w == Walk(S, d)
           nx == S.next
           P(n) == /\ w[n] \in M \cup {ENULL}
                   /\ Passed(w, n) \ {ENULL} = Below(M, key, w[n])
                   /\ w[n] # ENULL => /\ IsFiniteSet(Passed(w, n)) /\ Cardinality(Passed(w, n)) = n
                                      /\ ENULL \notin Passed(w, n)
           I == {n \in 0 .. NumDesc : P(n)}
<1>0. /\ d \in M \cup {ENULL} /\ ENULL \notin M
      /\ NumDesc \in Nat \ {0, 1} /\ IsFiniteSet(Desc) /\ Cardinality(Desc) = NumDesc
  <2>1. d \in M \cup {ENULL}
    BY DEF Follows
  <2> QED BY <2>1, Sizes
<1>1. /\ w[0] = d
      /\ \A n \in 1 .. NumDesc :
           /\ w[n - 1] = ENULL => w[n] = ENULL
           /\ w[n - 1] # ENULL => w[n] = nx[w[n - 1]]
  BY <1>0, WalkSteps
<1> HIDE DEF w, nx
<1>2. P(0)
  <2>1. Passed(w, 0) = {}
    <3>1. 0 .. 0 - 1 = {}
      OBVIOUS
    <3> QED BY <3>1, Zenon DEF Passed
  <2>2. {} = Below(M, key, d)
    BY <1>0 DEF Below, Follows, nx
  <2>3. IsFiniteSet({}) /\ Cardinality({}) = 0
    BY FS_EmptySet
  <2> QED BY <2>1, <2>2, <2>3, <1>0, <1>1
<1>3. ASSUME NEW n \in 1 .. NumDesc, P(n - 1) PROVE P(n)
  <2>1. Passed(w, n) = Passed(w, n - 1) \cup {w[n - 1]}
    <3>1. 0 .. n - 1 = (0 .. (n - 1) - 1) \cup {n - 1}
      OBVIOUS
    <3> QED BY <3>1, Zenon DEF Passed
  <2>2. CASE w[n - 1] = ENULL
    <3>1. w[n] = ENULL
      BY <1>1, <2>2
    <3> QED BY <3>1, <2>1, <2>2, <1>3 DEF Below
  <2>3. CASE w[n - 1] # ENULL
    <3> DEFINE e == w[n - 1]
               E == Passed(w, n - 1)
    <3>1. e \in M /\ w[n] = nx[e] /\ E = {x \in M : key[x] < key[e]}
      BY <1>1, <1>3, <2>3 DEF Below
    <3>2. IsFiniteSet(E) /\ Cardinality(E) = n - 1 /\ Passed(w, n) = E \cup {e} /\ ENULL \notin E
      BY <1>3, <2>1, <2>3
    <3> HIDE DEF e, E
    <3>3. e \notin E
      BY <3>1 DEF Follows
    <3>4. IsFiniteSet(E \cup {e}) /\ Cardinality(E \cup {e}) = (n - 1) + 1
      BY <3>2, <3>3, FS_AddElement
    <3>5. nx[e] \in M \cup {ENULL} /\ E \cup {e} = Below(M, key, nx[e])
      <4>1. CASE nx[e] = ENULL
        BY <3>1, <4>1 DEF Follows, Below, nx
      <4>2. CASE nx[e] # ENULL
        <5>1. \A x \in M : key[x] < key[nx[e]] <=> key[x] < key[e] \/ x = e
          BY <3>1, <4>2 DEF Follows, nx
        <5>2. nx[e] \in M
          BY <3>1, <4>2 DEF Follows, nx
        <5> QED BY <3>1, <4>2, <5>1, <5>2 DEF Below
      <4> QED BY <4>1, <4>2
    <3> QED BY <3>1, <3>2, <3>4, <3>5, <1>0
  <2> QED BY <2>2, <2>3
<1>4. \A n \in 0 .. NumDesc : n \in I
  <2>1. 0 \in I
    BY <1>0, <1>2
  <2>2. \A n \in 1 .. NumDesc : n - 1 \in I => n \in I
    BY <1>3
  <2> HIDE DEF I
  <2> QED BY <2>1, <2>2, <1>0, UpTo
<1>5. \A n \in 0 .. NumDesc : P(n)
  BY <1>4
<1>6. w[NumDesc] = ENULL
  <2> SUFFICES ASSUME w[NumDesc] # ENULL PROVE FALSE
    OBVIOUS
  <2> DEFINE e == w[NumDesc]
             E == Passed(w, NumDesc)
  <2>1. e \in M /\ E = {x \in M : key[x] < key[e]} /\ IsFiniteSet(E) /\ Cardinality(E) = NumDesc
    BY <1>0, <1>5 DEF Below
  <2> HIDE DEF e, E
  <2>2. e \notin E /\ E \subseteq Desc /\ e \in Desc
    BY <2>1 DEF Follows
  <2>3. Cardinality(E) = Cardinality(Desc) => E = Desc
    BY <1>0, <2>2, FS_Subset
  <2> QED BY <1>0, <2>1, <2>2, <2>3
<1>7. List(S, d) = M
  <2>1. Passed(w, NumDesc) \ {ENULL} = M
    BY <1>0, <1>5, <1>6 DEF Below
  <2> QED BY <2>1 DEF List, Passed, w
<1>8. \A n \in 0 .. NumDesc : w[n] \in M \cup {ENULL} /\ Passed(w, n) \ {ENULL} = Below(M, key, w[n])
  BY <1>5
<1> HIDE DEF P, I
<1>9. MeetsAll(w, S, M, key, d)
  BY <1>1, <1>6, <1>8, Zenon DEF MeetsAll, nx
<1> QED BY <1>7, <1>9 DEF w

-----------------------------------------------------------------------------
(* The operations on the lists. *)

LEMMA LookupFinds ==
  ASSUME NEW S \in Table, NEW M \in SUBSET Desc, Follows(M, S.addr, S.head, S.next), NEW a
  PROVE  /\ Lookup(S, a) = ENULL => \A d \in M : S.addr[d] # a
         /\ Lookup(S, a) # ENULL => Lookup(S, a) \in M /\ S.addr[Lookup(S, a)] = a
         /\ \A d \in M : S.addr[d] = a => Lookup(S, a) = d
PROOF
<1> DEFINE found == {d \in List(S, S.head) : S.addr[d] = a}
           l == Lookup(S, a)
<1>1. List(S, S.head) = M
  BY WalkMeets DEF IsList
<1>2. l = IF found = {} THEN ENULL ELSE CHOOSE d \in found : TRUE
  BY DEF Lookup
<1>3. found = {d \in M : S.addr[d] = a} /\ ENULL \notin M
  BY <1>1, Sizes
<1> HIDE DEF found, l
<1>4. found # {} => l \in found
  BY <1>2
<1>5. found = {} => l = ENULL
  BY <1>2
<1>6. \A d, e \in M : S.addr[d] = S.addr[e] => d = e
  BY DEF Follows
<1> QED BY <1>3, <1>4, <1>5, <1>6 DEF l

(* x is linked in between before and place. *)
PutAt(S, x, before, place) ==
  LET T == [S EXCEPT !.next[x] = place, !.prev[x] = before]
      U == IF before = ENULL THEN [T EXCEPT !.head = x] ELSE [T EXCEPT !.next[before] = x]
  IN  IF place = ENULL THEN U ELSE [U EXCEPT !.prev[place] = x]

LEMMA PlaceFound ==
  ASSUME NEW S \in Table, NEW M \in SUBSET Desc, Follows(M, S.addr, S.head, S.next),
         NEW x \in Desc \ M, S.addr[x] \in Addr, \A d \in M : S.addr[d] # S.addr[x]
  PROVE  \E before, place : /\ Fits(M, S.addr, S.head, S.next, x, before, place)
                            /\ insertActive(S, x) = PutAt(S, x, before, place)
PROOF
<1> DEFINE w == Walk(S, S.head)
           K == {m \in 0 .. NumDesc : w[m] = ENULL \/ S.addr[w[m]] >= S.addr[x]}
           n == Min(K)
           before == IF n = 0 THEN ENULL ELSE w[n - 1]
           place == w[n]
<1>1. /\ \A m \in 0 .. NumDesc : w[m] \in M \cup {ENULL}
      /\ w[0] = S.head /\ w[NumDesc] = ENULL
      /\ \A m \in 1 .. NumDesc :
           /\ w[m - 1] = ENULL => w[m] = ENULL
           /\ w[m - 1] # ENULL => w[m] = S.next[w[m - 1]]
  <2>1. IsList(S, M, S.addr, S.head)
    BY DEF IsList
  <2>2. MeetsAll(w, S, M, S.addr, S.head)
    BY <2>1, WalkMeets
  <2> HIDE DEF w
  <2> QED BY <2>2 DEF MeetsAll
<1>2. /\ NumDesc \in Nat \ {0, 1} /\ ENULL \notin Desc /\ Addr \subseteq Int
  BY Sizes
<1>3. n \in K /\ \A m \in K : n <= m
  <2>1. K \in SUBSET Nat
    OBVIOUS
  <2>2. NumDesc \in K
    BY <1>1, <1>2
  <2> HIDE DEF K
  <2>3. \E m \in K : \A i \in K : m <= i
    BY <2>1, <2>2, LeastExists
  <2> QED BY <2>3, Zenon DEF Min
<1>4. insertActive(S, x) = PutAt(S, x, before, place)
  BY DEF insertActive, PutAt
<1> HIDE DEF n, w
<1>5. place # ENULL => place \in M /\ S.addr[x] < S.addr[place]
  <2> SUFFICES ASSUME place # ENULL PROVE place \in M /\ S.addr[x] < S.addr[place]
    OBVIOUS
  <2>1. n \in 0 .. NumDesc /\ place \in M /\ S.addr[place] >= S.addr[x]
    BY <1>1, <1>3
  <2>2. S.addr[place] \in Int /\ S.addr[x] \in Int /\ S.addr[place] # S.addr[x]
    BY <1>2, <2>1 DEF Follows
  <2> HIDE DEF place
  <2> QED BY <2>1, <2>2
<1>6. CASE n = 0
  <2>1. before = ENULL /\ place = S.head
    BY <1>1, <1>6
  <2> HIDE DEF before, place
  <2>2. Fits(M, S.addr, S.head, S.next, x, before, place)
    BY <1>2, <1>5, <2>1 DEF Fits
  <2> QED BY <1>4, <2>2
<1>7. CASE n # 0
  <2>1. n \in 1 .. NumDesc /\ n - 1 \in 0 .. NumDesc /\ n - 1 < n
    BY <1>2, <1>3, <1>7
  <2>2. n - 1 \notin K
    BY <1>3, <2>1
  <2>3. before = w[n - 1] /\ before # ENULL /\ ~ (S.addr[before] >= S.addr[x]) /\ before \in M
    BY <1>1, <1>7, <2>1, <2>2
  <2>4. S.next[before] = place
    BY <1>1, <2>1, <2>3
  <2> HIDE DEF before, place
  <2>5. S.addr[before] < S.addr[x]
    BY <1>2, <2>3 DEF Follows
  <2>6. Fits(M, S.addr, S.head, S.next, x, before, place)
    BY <1>2, <1>5, <2>3, <2>4, <2>5 DEF Fits
  <2> QED BY <1>4, <2>6
<1> QED BY <1>6, <1>7

Placed(S, T, x, before, place) ==
  /\ T \in Table
  /\ T.addr = S.addr /\ T.link = S.link /\ T.free = S.free
  /\ (before = ENULL => T.head = x) /\ (before # ENULL => T.head = S.head)
  /\ T.next[x] = place /\ (before # ENULL => T.next[before] = x)
  /\ \A d \in Desc \ {x, before} : T.next[d] = S.next[d]
  /\ T.prev[x] = before /\ (place # ENULL => T.prev[place] = x)
  /\ \A d \in Desc \ {x, place} : T.prev[d] = S.prev[d]

CanPut(x, before, place) ==
  /\ x \in Desc
  /\ before \in Desc \cup {ENULL} /\ before # x
  /\ place \in Desc \cup {ENULL} /\ place # x

LEMMA PutAtFields ==
  ASSUME NEW S \in Table, NEW x, NEW before, NEW place, CanPut(x, before, place)
  PROVE  Placed(S, PutAt(S, x, before, place), x, before, place)
PROOF
<1> x \in Desc /\ before \in Desc \cup {ENULL} /\ before # x /\ place \in Desc \cup {ENULL} /\ place # x
  BY DEF CanPut
<1> DEFINE T == PutAt(S, x, before, place)
           nx == IF before = ENULL THEN [S.next EXCEPT ![x] = place]
                 ELSE [S.next EXCEPT ![x] = place, ![before] = x]
           pv == IF place = ENULL THEN [S.prev EXCEPT ![x] = before]
                 ELSE [S.prev EXCEPT ![x] = before, ![place] = x]
<1>1. /\ S.next \in [Desc -> Desc \cup {ENULL}] /\ S.prev \in [Desc -> Desc \cup {ENULL}]
      /\ S.addr \in [Desc -> Addr \cup {ENULL}] /\ S.link \in [Desc -> Fifo]
      /\ S.head \in Desc \cup {ENULL} /\ S.free \in Desc \cup {ENULL}
      /\ S = [next |-> S.next, prev |-> S.prev, addr |-> S.addr, link |-> S.link,
              head |-> S.head, free |-> S.free]
  BY TableFields
<1>2. T = [next |-> nx, prev |-> pv, addr |-> S.addr, link |-> S.link,
           head |-> IF before = ENULL THEN x ELSE S.head, free |-> S.free]
  BY <1>1 DEF PutAt
<1>3. nx \in [Desc -> Desc \cup {ENULL}] /\ pv \in [Desc -> Desc \cup {ENULL}]
  BY <1>1
<1>4. /\ nx[x] = place /\ (before # ENULL => nx[before] = x)
      /\ \A d \in Desc \ {x, before} : nx[d] = S.next[d]
      /\ pv[x] = before /\ (place # ENULL => pv[place] = x)
      /\ \A d \in Desc \ {x, place} : pv[d] = S.prev[d]
  BY <1>1
<1> HIDE DEF nx, pv, T
<1>5. T \in Table
  BY <1>1, <1>2, <1>3 DEF Table
<1>6. /\ T.addr = S.addr /\ T.link = S.link /\ T.free = S.free
      /\ (before = ENULL => T.head = x) /\ (before # ENULL => T.head = S.head)
      /\ T.next = nx /\ T.prev = pv
  BY <1>2
<1> QED BY <1>4, <1>5, <1>6, Zenon DEF T, Placed

(* An address that is not in the list is put in its place. *)
LEMMA InsertActiveKeeps ==
  ASSUME NEW S \in Table, NEW M \in SUBSET Desc,
         Follows(M, S.addr, S.head, S.next), LeadsBack(M, S.head, S.next, S.prev),
         NEW x \in Desc \ M, S.addr[x] \in Addr, \A d \in M : S.addr[d] # S.addr[x]
  PROVE  LET T == insertActive(S, x)
         IN  /\ T \in Table
             /\ T.addr = S.addr /\ T.link = S.link /\ T.free = S.free
             /\ \A d \in Desc \ (M \cup {x}) : T.next[d] = S.next[d]
             /\ Follows(M \cup {x}, T.addr, T.head, T.next)
             /\ LeadsBack(M \cup {x}, T.head, T.next, T.prev)
PROOF
<1> DEFINE T == insertActive(S, x)
<1>1. PICK before, place : /\ Fits(M, S.addr, S.head, S.next, x, before, place)
                           /\ T = PutAt(S, x, before, place)
  BY PlaceFound
<1>2. before \in M \cup {ENULL} /\ place \in M \cup {ENULL} /\ before # x /\ place # x
  BY <1>1, Sizes DEF Fits
<1>3. /\ T \in Table
      /\ T.addr = S.addr /\ T.link = S.link /\ T.free = S.free
      /\ (before = ENULL => T.head = x) /\ (before # ENULL => T.head = S.head)
      /\ T.next[x] = place /\ (before # ENULL => T.next[before] = x)
      /\ \A d \in Desc \ {x, before} : T.next[d] = S.next[d]
      /\ T.prev[x] = before /\ (place # ENULL => T.prev[place] = x)
      /\ \A d \in Desc \ {x, place} : T.prev[d] = S.prev[d]
  <2>1. CanPut(x, before, place)
    BY <1>2 DEF CanPut
  <2>2. Placed(S, T, x, before, place)
    BY <1>1, <2>1, PutAtFields
  <2> HIDE DEF T
  <2> QED BY <2>2, Zenon DEF Placed
<1> HIDE DEF T
<1>4. Inserted(M, S.head, S.next, x, before, place, T.head, T.next)
  BY <1>3 DEF Inserted
<1>5. InsertedBack(M, S.prev, x, before, place, T.prev)
  BY <1>3 DEF InsertedBack
<1>6. Follows(M \cup {x}, S.addr, T.head, T.next)
  BY <1>1, <1>4, FollowsInsert
<1>7. LeadsBack(M \cup {x}, T.head, T.next, T.prev)
  BY <1>1, <1>4, <1>5, LeadsBackInsert
<1>8. \A d \in Desc \ (M \cup {x}) : T.next[d] = S.next[d]
  BY <1>2, <1>3, Sizes
<1> QED BY <1>3, <1>6, <1>7, <1>8 DEF T

(* x is taken out of the active list. *)
Detached(S, T, x) ==
  /\ T \in Table
  /\ T.addr = S.addr /\ T.link = S.link /\ T.free = S.free
  /\ S.prev[x] = ENULL => T.head = S.next[x]
  /\ S.prev[x] # ENULL => T.head = S.head /\ T.next[S.prev[x]] = S.next[x]
  /\ \A d \in Desc \ {S.prev[x]} : T.next[d] = S.next[d]
  /\ S.next[x] # ENULL => T.prev[S.next[x]] = S.prev[x]
  /\ \A d \in Desc \ {S.next[x]} : T.prev[d] = S.prev[d]

LEMMA DetachFields ==
  ASSUME NEW S \in Table, NEW x \in Desc
  PROVE  /\ detach(S, x) \in Table
         /\ (x = S.head <=> S.prev[x] = ENULL) => Detached(S, detach(S, x), x)
PROOF
<1> DEFINE T == detach(S, x)
           b == IF x = S.head THEN ENULL ELSE S.prev[x]
           hd == IF x = S.head THEN S.next[x] ELSE S.head
           nx == IF x = S.head THEN S.next ELSE [S.next EXCEPT ![S.prev[x]] = S.next[x]]
           pv == IF S.next[x] = ENULL THEN S.prev ELSE [S.prev EXCEPT ![S.next[x]] = b]
<1>1. /\ S.next \in [Desc -> Desc \cup {ENULL}] /\ S.prev \in [Desc -> Desc \cup {ENULL}]
      /\ S.addr \in [Desc -> Addr \cup {ENULL}] /\ S.link \in [Desc -> Fifo]
      /\ S.head \in Desc \cup {ENULL} /\ S.free \in Desc \cup {ENULL}
      /\ S = [next |-> S.next, prev |-> S.prev, addr |-> S.addr, link |-> S.link,
              head |-> S.head, free |-> S.free]
  BY TableFields
<1>2. T = [next |-> nx, prev |-> pv, addr |-> S.addr, link |-> S.link, head |-> hd, free |-> S.free]
  BY <1>1 DEF detach
<1>3. nx \in [Desc -> Desc \cup {ENULL}] /\ pv \in [Desc -> Desc \cup {ENULL}] /\ hd \in Desc \cup {ENULL}
  BY <1>1
<1>4. ASSUME x = S.head <=> S.prev[x] = ENULL
      PROVE  /\ S.prev[x] = ENULL => hd = S.next[x]
             /\ S.prev[x] # ENULL => hd = S.head /\ nx[S.prev[x]] = S.next[x]
             /\ \A d \in Desc \ {S.prev[x]} : nx[d] = S.next[d]
             /\ S.next[x] # ENULL => pv[S.next[x]] = S.prev[x]
             /\ \A d \in Desc \ {S.next[x]} : pv[d] = S.prev[d]
  BY <1>1, <1>4
<1> HIDE DEF nx, pv, T, hd
<1>5. T \in Table
  BY <1>1, <1>2, <1>3 DEF Table
<1>6. /\ T.addr = S.addr /\ T.link = S.link /\ T.free = S.free
      /\ T.head = hd /\ T.next = nx /\ T.prev = pv
  BY <1>2
<1>7. ASSUME x = S.head <=> S.prev[x] = ENULL PROVE Detached(S, T, x)
  BY <1>4, <1>5, <1>6, <1>7, Zenon DEF Detached
<1> QED BY <1>5, <1>7 DEF T

(* The fields that resetSemaphore changes. *)
LEMMA ResetRecord ==
  ASSUME NEW S \in Table, NEW x
  PROVE  Reset(S, x) = [next |-> [S.next EXCEPT ![x] = ENULL], prev |-> [S.prev EXCEPT ![x] = ENULL],
                        addr |-> [S.addr EXCEPT ![x] = ENULL], link |-> [S.link EXCEPT ![x] = EmptyFifo],
                        head |-> S.head, free |-> S.free]
PROOF
<1> DEFINE n == S.next
           p == S.prev
           a == S.addr
           l == S.link
           h == S.head
           f == S.free
<1>0. S = [next |-> n, prev |-> p, addr |-> a, link |-> l, head |-> h, free |-> f]
  BY TableFields
<1> HIDE DEF n, p, a, l, h, f
<1> DEFINE n2 == [n EXCEPT ![x] = ENULL]
           p2 == [p EXCEPT ![x] = ENULL]
           a2 == [a EXCEPT ![x] = ENULL]
           l2 == [l EXCEPT ![x] = EmptyFifo]
           R1 == [S EXCEPT !.next[x] = ENULL]
           R2 == [R1 EXCEPT !.prev[x] = ENULL]
           R3 == [R2 EXCEPT !.addr[x] = ENULL]
           R4 == [R3 EXCEPT !.link[x] = EmptyFifo]
<1>1. Reset(S, x) = R4
  BY DEF Reset
<1>2. R1 = [next |-> n2, prev |-> p, addr |-> a, link |-> l, head |-> h, free |-> f]
  BY <1>0
<1> HIDE DEF R1, n2
<1>3. R2 = [next |-> n2, prev |-> p2, addr |-> a, link |-> l, head |-> h, free |-> f]
  BY <1>2
<1> HIDE DEF R2, p2
<1>4. R3 = [next |-> n2, prev |-> p2, addr |-> a2, link |-> l, head |-> h, free |-> f]
  BY <1>3
<1> HIDE DEF R3, a2
<1>5. R4 = [next |-> n2, prev |-> p2, addr |-> a2, link |-> l2, head |-> h, free |-> f]
  BY <1>4
<1> HIDE DEF R4, l2
<1> QED BY <1>1, <1>5 DEF n, p, a, l, h, f, n2, p2, a2, l2

(* x is put on the free list. *)
Returned(S, T, x) ==
  /\ T \in Table
  /\ T.head = S.head /\ T.free = x
  /\ T.next[x] = S.free /\ T.link[x] = EmptyFifo
  /\ \A d \in Desc \ {x} : /\ T.next[d] = S.next[d] /\ T.prev[d] = S.prev[d]
                           /\ T.addr[d] = S.addr[d] /\ T.link[d] = S.link[d]

LEMMA ReturnFields ==
  ASSUME NEW S \in Table, NEW x \in Desc
  PROVE  Returned(S, returnToFreeList(S, x), x)
PROOF
<1> DEFINE T == returnToFreeList(S, x)
           nx == [[S.next EXCEPT ![x] = ENULL] EXCEPT ![x] = S.free]
           pv == [S.prev EXCEPT ![x] = ENULL]
           ad == [S.addr EXCEPT ![x] = ENULL]
           lk == [S.link EXCEPT ![x] = EmptyFifo]
<1>1. /\ S.next \in [Desc -> Desc \cup {ENULL}] /\ S.prev \in [Desc -> Desc \cup {ENULL}]
      /\ S.addr \in [Desc -> Addr \cup {ENULL}] /\ S.link \in [Desc -> Fifo]
      /\ S.head \in Desc \cup {ENULL} /\ S.free \in Desc \cup {ENULL}
      /\ S = [next |-> S.next, prev |-> S.prev, addr |-> S.addr, link |-> S.link,
              head |-> S.head, free |-> S.free]
  BY TableFields
<1>2. T = [next |-> nx, prev |-> pv, addr |-> ad, link |-> lk, head |-> S.head, free |-> x]
  <2> DEFINE n1 == [S.next EXCEPT ![x] = ENULL]
             U == [Reset(S, x) EXCEPT !.next[x] = S.free]
  <2>1. Reset(S, x) = [next |-> n1, prev |-> pv, addr |-> ad, link |-> lk,
                       head |-> S.head, free |-> S.free]
    BY ResetRecord
  <2>2. T = [U EXCEPT !.free = x]
    BY DEF returnToFreeList
  <2> HIDE DEF pv, ad, lk, n1
  <2>3. U = [next |-> [n1 EXCEPT ![x] = S.free], prev |-> pv, addr |-> ad, link |-> lk,
             head |-> S.head, free |-> S.free]
    BY <2>1
  <2>4. nx = [n1 EXCEPT ![x] = S.free]
    BY DEF n1
  <2> HIDE DEF U, nx
  <2> QED BY <2>2, <2>3, <2>4
<1>3. /\ nx \in [Desc -> Desc \cup {ENULL}] /\ pv \in [Desc -> Desc \cup {ENULL}]
      /\ ad \in [Desc -> Addr \cup {ENULL}] /\ lk \in [Desc -> Fifo]
  BY <1>1, EmptyFifoOrdered
<1>4. /\ nx[x] = S.free /\ lk[x] = EmptyFifo
      /\ \A d \in Desc \ {x} : /\ nx[d] = S.next[d] /\ pv[d] = S.prev[d]
                               /\ ad[d] = S.addr[d] /\ lk[d] = S.link[d]
  BY <1>1
<1> HIDE DEF nx, pv, ad, lk, T
<1>5. T \in Table
  BY <1>1, <1>2, <1>3 DEF Table
<1>6. /\ T.head = S.head /\ T.free = x
      /\ T.next = nx /\ T.prev = pv /\ T.addr = ad /\ T.link = lk
  BY <1>2
<1>7. Returned(S, T, x)
  BY <1>4, <1>5, <1>6, Zenon DEF Returned
<1> QED BY <1>7 DEF T

(* The first free descriptor x is cleared, and gets the address a. *)
Allocated(S, T, x, a) ==
  /\ T \in Table
  /\ T.head = S.head /\ T.free = S.next[x]
  /\ T.addr[x] = a /\ T.link[x] = EmptyFifo
  /\ \A d \in Desc \ {x} : /\ T.next[d] = S.next[d] /\ T.prev[d] = S.prev[d]
                           /\ T.addr[d] = S.addr[d] /\ T.link[d] = S.link[d]

LEMMA AllocateFields ==
  ASSUME NEW S \in Table, S.free # ENULL, NEW a \in Addr
  PROVE  Allocated(S, [allocate(S) EXCEPT !.addr[S.free] = a], S.free, a)
PROOF
<1> DEFINE x == S.free
           T == [allocate(S) EXCEPT !.addr[x] = a]
           nx == [S.next EXCEPT ![x] = ENULL]
           pv == [S.prev EXCEPT ![x] = ENULL]
           ad == [[S.addr EXCEPT ![x] = ENULL] EXCEPT ![x] = a]
           lk == [S.link EXCEPT ![x] = EmptyFifo]
<1>1. /\ S.next \in [Desc -> Desc \cup {ENULL}] /\ S.prev \in [Desc -> Desc \cup {ENULL}]
      /\ S.addr \in [Desc -> Addr \cup {ENULL}] /\ S.link \in [Desc -> Fifo]
      /\ S.head \in Desc \cup {ENULL} /\ S.free \in Desc \cup {ENULL}
      /\ S = [next |-> S.next, prev |-> S.prev, addr |-> S.addr, link |-> S.link,
              head |-> S.head, free |-> S.free]
  BY TableFields
<1>x. x \in Desc
  BY <1>1
<1>2. T = [next |-> nx, prev |-> pv, addr |-> ad, link |-> lk, head |-> S.head, free |-> S.next[x]]
  <2> DEFINE R == [S EXCEPT !.free = S.next[@]]
  <2>1. R = [next |-> S.next, prev |-> S.prev, addr |-> S.addr, link |-> S.link,
             head |-> S.head, free |-> S.next[x]]
    BY <1>1
  <2>2. T = [Reset(R, x) EXCEPT !.addr[x] = a]
    BY DEF allocate
  <2> HIDE DEF R
  <2>3. Reset(R, x) = [next |-> nx, prev |-> pv, addr |-> [S.addr EXCEPT ![x] = ENULL], link |-> lk,
                       head |-> S.head, free |-> S.next[x]]
    <3>1. R \in Table
      BY <1>1, <1>x, <2>1 DEF Table
    <3>2. Reset(R, x) = [next |-> [R.next EXCEPT ![x] = ENULL], prev |-> [R.prev EXCEPT ![x] = ENULL],
                         addr |-> [R.addr EXCEPT ![x] = ENULL], link |-> [R.link EXCEPT ![x] = EmptyFifo],
                         head |-> R.head, free |-> R.free]
      BY <3>1, ResetRecord
    <3>3. /\ R.next = S.next /\ R.prev = S.prev /\ R.addr = S.addr /\ R.link = S.link
          /\ R.head = S.head /\ R.free = S.next[x]
      BY <2>1
    <3> QED BY <3>2, <3>3
  <2> HIDE DEF nx, pv, lk
  <2> QED BY <2>2, <2>3
<1>3. /\ nx \in [Desc -> Desc \cup {ENULL}] /\ pv \in [Desc -> Desc \cup {ENULL}]
      /\ ad \in [Desc -> Addr \cup {ENULL}] /\ lk \in [Desc -> Fifo] /\ S.next[x] \in Desc \cup {ENULL}
  BY <1>1, <1>x, EmptyFifoOrdered
<1>4. /\ ad[x] = a /\ lk[x] = EmptyFifo
      /\ \A d \in Desc \ {x} : /\ nx[d] = S.next[d] /\ pv[d] = S.prev[d]
                               /\ ad[d] = S.addr[d] /\ lk[d] = S.link[d]
  BY <1>1, <1>x
<1> HIDE DEF nx, pv, ad, lk, T
<1>5. T \in Table
  BY <1>1, <1>2, <1>3 DEF Table
<1>6. /\ T.head = S.head /\ T.free = S.next[x]
      /\ T.next = nx /\ T.prev = pv /\ T.addr = ad /\ T.link = lk
  BY <1>2
<1>7. Allocated(S, T, x, a)
  BY <1>4, <1>5, <1>6, Zenon DEF Allocated
<1> QED BY <1>7 DEF T

-----------------------------------------------------------------------------
(* What the two lists become. *)

(* A descriptor leaves the active list and becomes the first free one. *)
Leaves(S, T, M, x) ==
  /\ \E h \in [Desc -> Int] : Listed(T, M \ {x}, h)
  /\ T.link[x] = EmptyFifo
  /\ \A d \in Desc \ {x} : T.addr[d] = S.addr[d] /\ T.link[d] = S.link[d]

LEMMA LeaveLists ==
  ASSUME NEW S, NEW M, NEW g \in [Desc -> Int], Listed(S, M, g), NEW x \in M
  PROVE  Leaves(S, returnToFreeList(detach(S, x), x), M, x)
PROOF
<1> DEFINE T == detach(S, x)
           U == returnToFreeList(T, x)
<1>1. /\ S \in Table /\ M \in SUBSET Desc
      /\ \A d \in M : S.addr[d] \in Addr
      /\ Follows(M, S.addr, S.head, S.next)
      /\ LeadsBack(M, S.head, S.next, S.prev)
      /\ Follows(Desc \ M, g, S.free, S.next)
  BY DEF Listed
<1>2. x \in Desc /\ ENULL \notin Desc
  BY <1>1, Sizes
<1>3. /\ x = S.head <=> S.prev[x] = ENULL
      /\ x # S.head => S.prev[x] \in M /\ S.next[S.prev[x]] = x
  BY <1>1, <1>2 DEF LeadsBack
<1>4. Detached(S, T, x)
  BY <1>1, <1>2, <1>3, DetachFields
<1>5. Returned(T, U, x)
  BY <1>2, <1>4, ReturnFields DEF Detached
<1> HIDE DEF T, U
<1>6. S.prev[x] # x
  <2>1. S.next[x] # x
    BY <1>1, <1>2 DEF Follows
  <2> QED BY <1>2, <1>3, <2>1
<1>7. Removed(M, S.head, S.next, x, S.prev[x], U.head, U.next)
  BY <1>1, <1>2, <1>3, <1>4, <1>5, <1>6 DEF Removed, Detached, Returned
<1>8. RemovedBack(M, S.next, S.prev, x, U.prev)
  BY <1>1, <1>2, <1>4, <1>5 DEF RemovedBack, Detached, Returned, Follows
<1>9. Follows(M \ {x}, S.addr, U.head, U.next) /\ LeadsBack(M \ {x}, U.head, U.next, U.prev)
  BY <1>1, <1>7, <1>8, FollowsRemove, LeadsBackRemove
<1>10. \A d \in Desc \ {x} : U.addr[d] = S.addr[d] /\ U.link[d] = S.link[d]
  BY <1>4, <1>5 DEF Detached, Returned
<1>11. Follows(M \ {x}, U.addr, U.head, U.next)
  BY <1>1, <1>9, <1>10, FollowsSame
<1> DEFINE F == Desc \ M
           low == IF S.free = ENULL THEN 0 ELSE g[S.free] - 1
           h == [g EXCEPT ![x] = low]
<1>12. /\ h \in [Desc -> Int] /\ h[x] = low /\ \A d \in F : h[d] = g[d]
  <2>1. S.free \in Desc \cup {ENULL}
    BY <1>1, TableFields
  <2> QED BY <1>1, <1>2, <2>1
<1>13. \A d \in F : U.next[d] = S.next[d]
  BY <1>1, <1>3, <1>4, <1>5, <1>2 DEF Detached, Returned
<1> HIDE DEF h
<1>14. Follows(F, h, S.free, S.next)
  BY <1>1, <1>12, FollowsSame
<1>15. U.free = x /\ U.next[x] = S.free
  BY <1>4, <1>5 DEF Detached, Returned
<1>16. Fits(F, h, S.free, S.next, x, ENULL, S.free)
  <2>1. S.free # ENULL => S.free \in F
    BY <1>1 DEF Follows
  <2>2. h[x] \in Int /\ (S.free # ENULL => h[x] < h[S.free])
    BY <1>1, <1>2, <1>12, <2>1
  <2> QED BY <1>1, <1>2, <2>1, <2>2 DEF Fits
<1>17. Inserted(F, S.free, S.next, x, ENULL, S.free, U.free, U.next)
  BY <1>13, <1>15 DEF Inserted
<1>18. Follows(F \cup {x}, h, U.free, U.next)
  BY <1>14, <1>16, <1>17, FollowsInsert
<1>19. F \cup {x} = Desc \ (M \ {x})
  BY <1>1, <1>2
<1>20. Listed(U, M \ {x}, h)
  BY <1>1, <1>5, <1>9, <1>10, <1>11, <1>18, <1>19 DEF Listed, Returned
<1> QED BY <1>5, <1>10, <1>12, <1>20 DEF Leaves, Returned, U, T

LEMMA SetLink ==
  ASSUME NEW S \in Table, NEW d \in Desc, NEW f \in Fifo
  PROVE  LET T == [S EXCEPT !.link[d] = f]
         IN  /\ T \in Table
             /\ T.next = S.next /\ T.prev = S.prev /\ T.addr = S.addr
             /\ T.head = S.head /\ T.free = S.free
             /\ T.link[d] = f /\ \A e \in Desc \ {d} : T.link[e] = S.link[e]
PROOF
<1> DEFINE T == [S EXCEPT !.link[d] = f]
           lk == [S.link EXCEPT ![d] = f]
<1>1. /\ S.next \in [Desc -> Desc \cup {ENULL}] /\ S.prev \in [Desc -> Desc \cup {ENULL}]
      /\ S.addr \in [Desc -> Addr \cup {ENULL}] /\ S.link \in [Desc -> Fifo]
      /\ S.head \in Desc \cup {ENULL} /\ S.free \in Desc \cup {ENULL}
      /\ S = [next |-> S.next, prev |-> S.prev, addr |-> S.addr, link |-> S.link,
              head |-> S.head, free |-> S.free]
  BY TableFields
<1>2. T = [next |-> S.next, prev |-> S.prev, addr |-> S.addr, link |-> lk,
           head |-> S.head, free |-> S.free]
  BY <1>1
<1>3. lk \in [Desc -> Fifo] /\ lk[d] = f /\ \A e \in Desc \ {d} : lk[e] = S.link[e]
  BY <1>1
<1> HIDE DEF T, lk
<1>4. T \in Table
  BY <1>1, <1>2, <1>3 DEF Table
<1> QED BY <1>2, <1>3, <1>4 DEF T

(* The links do not depend on the queues. *)
LEMMA ListedSame ==
  ASSUME NEW S, NEW M, NEW g, Listed(S, M, g), NEW T \in Table,
         T.next = S.next, T.prev = S.prev, T.addr = S.addr, T.head = S.head, T.free = S.free
  PROVE  Listed(T, M, g)
PROOF BY DEF Listed

LEMMA FreeEmpty ==
  ASSUME NEW S, NEW M, NEW g, Listed(S, M, g)
  PROVE  /\ S.free = ENULL <=> M = Desc
         /\ S.free # ENULL => S.free \in Desc \ M
PROOF
<1>1. M \in SUBSET Desc /\ Follows(Desc \ M, g, S.free, S.next)
  BY DEF Listed
<1>2. ENULL \notin Desc
  BY Sizes
<1> QED BY <1>1, <1>2 DEF Follows

(* The first free descriptor x goes to its place in the active list. *)
Enters(S, T, M, g, x, a, f) ==
  /\ Listed(T, M \cup {x}, g)
  /\ T.addr[x] = a /\ T.link[x] = f
  /\ \A d \in Desc \ {x} : T.addr[d] = S.addr[d] /\ T.link[d] = S.link[d]

LEMMA EnterLists ==
  ASSUME NEW S, NEW M, NEW g \in [Desc -> Int], Listed(S, M, g), S.free # ENULL,
         NEW a \in Addr, \A d \in M : S.addr[d] # a, NEW p \in Proc
  PROVE  Enters(S, insertActive([[allocate(S) EXCEPT !.addr[S.free] = a] EXCEPT
                                   !.link[S.free] = Insert(@, p)], S.free),
                M, g, S.free, a, Insert(EmptyFifo, p))
PROOF
<1> DEFINE x == S.free
           f == Insert(EmptyFifo, p)
           T == [allocate(S) EXCEPT !.addr[x] = a]
           U == [T EXCEPT !.link[x] = Insert(@, p)]
           V == insertActive(U, x)
<1>1. /\ S \in Table /\ M \in SUBSET Desc
      /\ \A d \in M : S.addr[d] \in Addr
      /\ Follows(M, S.addr, S.head, S.next)
      /\ LeadsBack(M, S.head, S.next, S.prev)
      /\ Follows(Desc \ M, g, x, S.next)
  BY DEF Listed
<1>2. x \in Desc \ M /\ ENULL \notin Desc
  BY FreeEmpty, Sizes
<1>3. Allocated(S, T, x, a)
  BY <1>1, AllocateFields
<1>4. f \in Fifo
  BY EmptyFifoOrdered, InsertOrdered, ProcAssumption
<1> HIDE DEF T
<1>5. /\ T \in Table /\ T.head = S.head /\ T.free = S.next[x]
      /\ T.addr[x] = a /\ T.link[x] = EmptyFifo
      /\ \A d \in Desc \ {x} : /\ T.next[d] = S.next[d] /\ T.prev[d] = S.prev[d]
                               /\ T.addr[d] = S.addr[d] /\ T.link[d] = S.link[d]
  BY <1>3, Zenon DEF Allocated
<1>6. U = [T EXCEPT !.link[x] = f]
  <2>1. U = [T EXCEPT !.link[x] = Insert(T.link[x], p)]
    OBVIOUS
  <2> QED BY <2>1, <1>5
<1> HIDE DEF f, U
<1>7. /\ U \in Table /\ U.next = T.next /\ U.prev = T.prev /\ U.addr = T.addr
      /\ U.head = T.head /\ U.free = T.free
      /\ U.link[x] = f /\ \A e \in Desc \ {x} : U.link[e] = T.link[e]
  BY <1>2, <1>4, <1>5, <1>6, SetLink
<1>8. \A d \in M : U.addr[d] = S.addr[d] /\ U.next[d] = S.next[d] /\ U.prev[d] = S.prev[d]
  BY <1>1, <1>2, <1>5, <1>7
<1>9. Follows(M, U.addr, U.head, U.next) /\ LeadsBack(M, U.head, U.next, U.prev)
  BY <1>1, <1>5, <1>7, <1>8, FollowsSame, LeadsBackSame
<1>10. U.addr[x] \in Addr /\ \A d \in M : U.addr[d] # U.addr[x]
  BY <1>5, <1>7, <1>8
<1>11. /\ V \in Table
       /\ V.addr = U.addr /\ V.link = U.link /\ V.free = U.free
       /\ \A d \in Desc \ (M \cup {x}) : V.next[d] = U.next[d]
       /\ Follows(M \cup {x}, V.addr, V.head, V.next)
       /\ LeadsBack(M \cup {x}, V.head, V.next, V.prev)
  BY <1>1, <1>2, <1>7, <1>9, <1>10, InsertActiveKeeps
<1> HIDE DEF V
<1> DEFINE F == Desc \ M
           G == Desc \ (M \cup {x})
<1>12. Removed(F, x, S.next, x, ENULL, V.free, V.next)
  BY <1>2, <1>5, <1>7, <1>11 DEF Removed
<1>13. Follows(F \ {x}, g, V.free, V.next)
  BY <1>1, <1>12, FollowsRemove
<1>14. F \ {x} = G
  OBVIOUS
<1>15. \A d \in M \cup {x} : V.addr[d] \in Addr
  BY <1>1, <1>8, <1>10, <1>11
<1>16. Listed(V, M \cup {x}, g)
  BY <1>1, <1>2, <1>11, <1>13, <1>14, <1>15 DEF Listed
<1>17. V.addr[x] = a /\ V.link[x] = f
       /\ \A d \in Desc \ {x} : V.addr[d] = S.addr[d] /\ V.link[d] = S.link[d]
  BY <1>5, <1>7, <1>11
<1> QED BY <1>16, <1>17 DEF Enters, V, U, T, f

-----------------------------------------------------------------------------
(* A process leaves the queue of a descriptor. *)

GoodLists(S) ==
  /\ \E g \in [Desc -> Int] : Listed(S, Active(S), g)
  /\ \A d \in Desc : Ordered(S.link[d])

LEMMA GoodFields ==
  ASSUME NEW S, GoodLists(S)
  PROVE  /\ S \in Table
         /\ Active(S) \in SUBSET Desc
         /\ \A d \in Active(S) : S.addr[d] \in Addr
         /\ \A d, e \in Active(S) : S.addr[d] = S.addr[e] => d = e
         /\ Follows(Active(S), S.addr, S.head, S.next)
         /\ \A d \in Desc : /\ S.link[d] \in Fifo /\ Ordered(S.link[d])
                            /\ d \in Active(S) <=> S.link[d].mem # {}
PROOF
<1>1. PICK g \in [Desc -> Int] : Listed(S, Active(S), g)
  BY DEF GoodLists
<1>2. S \in Table /\ Follows(Active(S), S.addr, S.head, S.next) /\ \A d \in Active(S) : S.addr[d] \in Addr
  BY <1>1 DEF Listed
<1>3. \A d \in Desc : Ordered(S.link[d])
  BY DEF GoodLists
<1>4. \A d \in Desc : S.link[d] \in Fifo
  BY <1>2, TableFields
<1>5. Active(S) \in SUBSET Desc /\ \A d \in Desc : d \in Active(S) <=> S.link[d].mem # {}
  BY DEF Active
<1> HIDE DEF Active
<1>6. \A d, e \in Active(S) : S.addr[d] = S.addr[e] => d = e
  BY <1>2 DEF Follows
<1> QED BY <1>2, <1>3, <1>4, <1>5, <1>6

LEMMA NobodyIsEmpty ==
  ASSUME NEW f \in Fifo, Ordered(f), f.mem = {}
  PROVE  f = EmptyFifo
PROOF
<1>1. f = [mem |-> f.mem, ahead |-> f.ahead] /\ f.ahead \in [Proc -> SUBSET Proc]
  BY DEF Fifo
<1>2. \A p \in Proc : f.ahead[p] = {}
  BY DEF Ordered
<1>3. f.ahead = [p \in Proc |-> {}]
  BY <1>1, <1>2
<1> QED BY <1>1, <1>3 DEF EmptyFifo

(* What a removal of p from the queue of d does, release included. *)
Taken(S, T, d, p) ==
  /\ GoodLists(T)
  /\ T.link[d] = Remove(S.link[d], {p})
  /\ \A e \in Desc \ {d} : T.link[e] = S.link[e]
  /\ \A e \in Active(T) : T.addr[e] = S.addr[e]

LEMMA TakeOut ==
  ASSUME NEW S, GoodLists(S), NEW d \in Active(S), NEW p \in S.link[d].mem
  PROVE  Taken(S, Release([S EXCEPT !.link[d] = Remove(@, {p})], d), d, p)
PROOF
<1> DEFINE f == Remove(S.link[d], {p})
           T == [S EXCEPT !.link[d] = Remove(@, {p})]
           U == Release(T, d)
           M == Active(S)
<1>1. /\ S \in Table /\ M \in SUBSET Desc
      /\ \A e \in Desc : /\ S.link[e] \in Fifo /\ Ordered(S.link[e])
                         /\ e \in M <=> S.link[e].mem # {}
  BY GoodFields
<1>2. PICK g \in [Desc -> Int] : Listed(S, M, g)
  BY DEF GoodLists
<1>3. d \in Desc
  BY <1>1
<1>4. f \in Fifo /\ Ordered(f) /\ f.mem = S.link[d].mem \ {p}
  BY <1>1, <1>3, RemoveOrdered
<1>5. T = [S EXCEPT !.link[d] = f]
  OBVIOUS
<1> HIDE DEF f, T
<1>6. /\ T \in Table
      /\ T.next = S.next /\ T.prev = S.prev /\ T.addr = S.addr
      /\ T.head = S.head /\ T.free = S.free
      /\ T.link[d] = f /\ \A e \in Desc \ {d} : T.link[e] = S.link[e]
  BY <1>1, <1>3, <1>4, <1>5, SetLink
<1>7. Listed(T, M, g)
  BY <1>2, <1>6, ListedSame
<1>8. ASSUME f.mem = {} PROVE Taken(S, U, d, p)
  <2>1. U = returnToFreeList(detach(T, d), d)
    BY <1>6, <1>8 DEF Release
  <2>2. Leaves(T, U, M, d)
    BY <1>7, <2>1, LeaveLists
  <2> HIDE DEF U, M
  <2>3. /\ \E h \in [Desc -> Int] : Listed(U, M \ {d}, h)
        /\ U.link[d] = EmptyFifo
        /\ \A e \in Desc \ {d} : U.addr[e] = S.addr[e] /\ U.link[e] = S.link[e]
    BY <2>2, <1>6 DEF Leaves
  <2>4. U.link[d] = f
    BY <1>4, <1>8, <2>3, NobodyIsEmpty
  <2>5. Active(U) = M \ {d}
    BY <1>1, <1>8, <2>3, <2>4 DEF Active
  <2>6. \A e \in Desc : Ordered(U.link[e])
    BY <1>1, <1>4, <2>3, <2>4
  <2>7. GoodLists(U)
    BY <2>3, <2>5, <2>6 DEF GoodLists
  <2>8. \A e \in Active(U) : U.addr[e] = S.addr[e]
    BY <1>1, <2>3, <2>5
  <2> QED BY <2>3, <2>4, <2>7, <2>8, Zenon DEF Taken, f
<1>9. ASSUME f.mem # {} PROVE Taken(S, U, d, p)
  <2>1. U = T
    BY <1>6, <1>9 DEF Release
  <2>2. \A e \in Desc : T.link[e].mem # {} <=> S.link[e].mem # {}
    BY <1>1, <1>3, <1>6, <1>9
  <2>3. Active(T) = M
    BY <2>2 DEF Active
  <2> HIDE DEF U, M
  <2>4. \A e \in Desc : Ordered(T.link[e])
    BY <1>1, <1>4, <1>6
  <2>5. GoodLists(T)
    BY <1>7, <2>3, <2>4 DEF GoodLists
  <2>6. \A e \in Active(T) : T.addr[e] = S.addr[e]
    BY <1>6
  <2>7. Taken(S, T, d, p)
    BY <1>6, <2>5, <2>6, Zenon DEF Taken, f
  <2> QED BY <2>1, <2>7
<1> QED BY <1>8, <1>9 DEF U, T

-----------------------------------------------------------------------------
(* The vectors. *)

LEMMA ReplaceFirst ==
  ASSUME NEW v \in Vector, NEW a, NEW b \in Addr \cup {ENULL}
  PROVE  /\ Replace(v, a, b) \in Vector
         /\ (\E s \in 1 .. SEMMAX : v[s] = a) =>
              \E s \in 1 .. SEMMAX : v[s] = a /\ Replace(v, a, b) = [v EXCEPT ![s] = b]
PROOF
<1> DEFINE places == {s \in DOMAIN v : v[s] = a}
           n == Min(places)
<1>1. DOMAIN v = 1 .. SEMMAX /\ v \in [1 .. SEMMAX -> Addr \cup {ENULL}]
  BY DEF Vector
<1>2. Replace(v, a, b) = IF places = {} THEN v ELSE [v EXCEPT ![n] = b]
  BY DEF Replace
<1>3. places # {} => n \in places
  <2> SUFFICES ASSUME places # {} PROVE n \in places
    OBVIOUS
  <2>1. places \in SUBSET Nat
    BY <1>1
  <2> HIDE DEF places
  <2>2. \E m \in places : \A i \in places : m <= i
    BY <2>1, LeastExists
  <2> QED BY <2>2, Zenon DEF Min
<1> HIDE DEF n
<1> QED BY <1>1, <1>2, <1>3 DEF Vector

LEMMA TakenActive ==
  ASSUME NEW S, GoodLists(S), NEW T, NEW d \in Active(S), NEW p \in S.link[d].mem, Taken(S, T, d, p)
  PROVE  /\ Active(T) \subseteq Active(S)
         /\ \A e \in Active(S) \ {d} : e \in Active(T) /\ T.addr[e] = S.addr[e] /\ T.link[e] = S.link[e]
         /\ \A e \in Active(T) : T.addr[e] = S.addr[e]
         /\ d \notin Active(T) => S.link[d].mem = {p}
         /\ T.link[d].mem = S.link[d].mem \ {p}
PROOF
<1>1. /\ Active(S) \in SUBSET Desc
      /\ \A e \in Desc : /\ S.link[e] \in Fifo /\ Ordered(S.link[e])
                         /\ e \in Active(S) <=> S.link[e].mem # {}
  BY GoodFields
<1>2. /\ GoodLists(T)
      /\ T.link[d] = Remove(S.link[d], {p})
      /\ \A e \in Desc \ {d} : T.link[e] = S.link[e]
      /\ \A e \in Active(T) : T.addr[e] = S.addr[e]
  BY DEF Taken
<1>3. /\ Active(T) \in SUBSET Desc
      /\ \A e \in Desc : e \in Active(T) <=> T.link[e].mem # {}
  BY <1>2, GoodFields
<1>4. T.link[d].mem = S.link[d].mem \ {p}
  BY <1>1, <1>2, RemoveOrdered
<1> HIDE DEF Active
<1> QED BY <1>1, <1>2, <1>3, <1>4

(* The process that leaves has the semaphore in its vector no more. *)
LEMMA WaitsTaken ==
  ASSUME NEW S, GoodLists(S), NEW T, NEW d \in Active(S), NEW p \in S.link[d].mem, Taken(S, T, d, p),
         NEW v, Waits(S, Active(S), p, v)
  PROVE  Waits(T, Active(T), p, Replace(v, S.addr[d], ENULL))
PROOF
<1> DEFINE u == Replace(v, S.addr[d], ENULL)
           b == S.addr[d]
<1>1. /\ v \in Vector
      /\ \A a \in Addr : (\E s \in 1 .. SEMMAX : v[s] = a) <=>
                         (\E e \in Active(S) : S.addr[e] = a /\ p \in S.link[e].mem)
      /\ \A s, t \in 1 .. SEMMAX : v[s] = v[t] /\ v[s] # ENULL => s = t
  BY DEF Waits
<1>2. b \in Addr /\ \A e \in Active(S) : S.addr[e] = b => e = d
  BY GoodFields
<1>3. PICK s0 \in 1 .. SEMMAX : v[s0] = b /\ u = [v EXCEPT ![s0] = ENULL]
  BY <1>1, <1>2, ReplaceFirst
<1>4. u \in Vector
  BY <1>1, ReplaceFirst
<1>5. u[s0] = ENULL /\ \A s \in 1 .. SEMMAX \ {s0} : u[s] = v[s]
  BY <1>1, <1>3 DEF Vector
<1>6. ENULL \notin Addr
  BY Sizes
<1> HIDE DEF u, b
<1>7. \A a \in Addr : (\E s \in 1 .. SEMMAX : u[s] = a) <=> a # b /\ (\E s \in 1 .. SEMMAX : v[s] = a)
  BY <1>1, <1>2, <1>3, <1>5, <1>6
<1>8. \A a \in Addr : (\E e \in Active(T) : T.addr[e] = a /\ p \in T.link[e].mem) <=>
                      a # b /\ (\E e \in Active(S) : S.addr[e] = a /\ p \in S.link[e].mem)
  <2>1. /\ Active(T) \subseteq Active(S)
        /\ \A e \in Active(S) \ {d} : e \in Active(T) /\ T.addr[e] = S.addr[e] /\ T.link[e] = S.link[e]
        /\ \A e \in Active(T) : T.addr[e] = S.addr[e]
        /\ p \notin T.link[d].mem
    BY TakenActive
  <2> QED BY <1>2, <2>1 DEF b
<1>9. \A s, t \in 1 .. SEMMAX : u[s] = u[t] /\ u[s] # ENULL => s = t
  BY <1>1, <1>5
<1> QED BY <1>1, <1>4, <1>7, <1>8, <1>9 DEF Waits, u, b

(* The others wait for what they waited for. *)
LEMMA OthersWait ==
  ASSUME NEW S, GoodLists(S), NEW T, NEW d \in Active(S), NEW p \in S.link[d].mem, Taken(S, T, d, p),
         NEW q, q # p, NEW v, Waits(S, Active(S), q, v)
  PROVE  Waits(T, Active(T), q, v)
PROOF
<1>1. /\ Active(T) \subseteq Active(S)
      /\ \A e \in Active(S) \ {d} : e \in Active(T) /\ T.addr[e] = S.addr[e] /\ T.link[e] = S.link[e]
      /\ \A e \in Active(T) : T.addr[e] = S.addr[e]
      /\ d \notin Active(T) => S.link[d].mem = {p}
      /\ T.link[d].mem = S.link[d].mem \ {p}
  BY TakenActive
<1>2. \A a : (\E e \in Active(T) : T.addr[e] = a /\ q \in T.link[e].mem) <=>
             (\E e \in Active(S) : S.addr[e] = a /\ q \in S.link[e].mem)
  BY <1>1
<1> QED BY <1>2 DEF Waits

-----------------------------------------------------------------------------
(* A process comes to the queue of a descriptor, which may be a new one. *)

Added(S, T, d, a, p) ==
  /\ GoodLists(T) /\ Active(T) = Active(S) \cup {d}
  /\ T.addr[d] = a /\ T.link[d] = Insert(S.link[d], p)
  /\ \A e \in Desc \ {d} : T.addr[e] = S.addr[e] /\ T.link[e] = S.link[e]

(* The descriptor d of the semaphore a, if there is one, or the one to take. *)
DescriptorOf(S, d, a, p) ==
  /\ a \in Addr /\ p \in Proc /\ d \in Desc /\ p \notin S.link[d].mem
  /\ d \in Active(S) => S.addr[d] = a
  /\ \A e \in Active(S) : S.addr[e] = a => e = d

LEMMA AddToQueue ==
  ASSUME NEW S, GoodLists(S), NEW a, NEW p, NEW d \in Active(S), DescriptorOf(S, d, a, p)
  PROVE  Added(S, [S EXCEPT !.link[d] = Insert(@, p)], d, a, p)
PROOF
<1> DEFINE f == Insert(S.link[d], p)
           T == [S EXCEPT !.link[d] = Insert(@, p)]
           M == Active(S)
<1>1. /\ S \in Table /\ M \in SUBSET Desc
      /\ \A e \in Desc : /\ S.link[e] \in Fifo /\ Ordered(S.link[e])
                         /\ e \in M <=> S.link[e].mem # {}
  BY GoodFields
<1>2. PICK g \in [Desc -> Int] : Listed(S, M, g)
  BY DEF GoodLists
<1>3. d \in Desc /\ p \in Proc /\ p \notin S.link[d].mem /\ S.addr[d] = a
  BY <1>1 DEF DescriptorOf
<1>4. f \in Fifo /\ Ordered(f) /\ f.mem = S.link[d].mem \cup {p}
  BY <1>1, <1>3, InsertOrdered, ProcAssumption
<1>5. T = [S EXCEPT !.link[d] = f]
  OBVIOUS
<1> HIDE DEF f, T
<1>6. /\ T \in Table
      /\ T.next = S.next /\ T.prev = S.prev /\ T.addr = S.addr
      /\ T.head = S.head /\ T.free = S.free
      /\ T.link[d] = f /\ \A e \in Desc \ {d} : T.link[e] = S.link[e]
  BY <1>1, <1>3, <1>4, <1>5, SetLink
<1>7. Listed(T, M, g)
  BY <1>2, <1>6, ListedSame
<1>8. \A e \in Desc : T.link[e].mem # {} <=> S.link[e].mem # {}
  BY <1>1, <1>3, <1>4, <1>6
<1>9. Active(T) = M
  BY <1>8 DEF Active
<1>10. \A e \in Desc : Ordered(T.link[e])
  BY <1>1, <1>4, <1>6
<1>11. GoodLists(T)
  BY <1>7, <1>9, <1>10 DEF GoodLists
<1>12. Active(T) = M \cup {d}
  BY <1>9
<1> HIDE DEF M
<1>13. Added(S, T, d, a, p)
  BY <1>3, <1>6, <1>11, <1>12 DEF Added, f, M
<1> QED BY <1>13 DEF T

LEMMA AddDescriptor ==
  ASSUME NEW S, GoodLists(S), NEW a, NEW p, S.free # ENULL, DescriptorOf(S, S.free, a, p)
  PROVE  Added(S, insertActive([[allocate(S) EXCEPT !.addr[S.free] = a] EXCEPT
                                  !.link[S.free] = Insert(@, p)], S.free), S.free, a, p)
PROOF
<1> DEFINE d == S.free
           f == Insert(EmptyFifo, p)
           T == insertActive([[allocate(S) EXCEPT !.addr[d] = a] EXCEPT !.link[d] = Insert(@, p)], d)
           M == Active(S)
<1>1. /\ S \in Table /\ M \in SUBSET Desc
      /\ \A e \in Desc : /\ S.link[e] \in Fifo /\ Ordered(S.link[e])
                         /\ e \in M <=> S.link[e].mem # {}
  BY GoodFields
<1>2. PICK g \in [Desc -> Int] : Listed(S, M, g)
  BY DEF GoodLists
<1>3. a \in Addr /\ p \in Proc /\ \A e \in M : S.addr[e] = a => e = d
  BY DEF DescriptorOf
<1>4. d \in Desc \ M
  BY <1>2, FreeEmpty
<1>5. \A e \in M : S.addr[e] # a
  BY <1>3, <1>4
<1>6. Enters(S, T, M, g, d, a, f)
  BY <1>2, <1>3, <1>5, EnterLists
<1>7. S.link[d] = EmptyFifo
  BY <1>1, <1>4, NobodyIsEmpty
<1>8. Ordered(f) /\ f.mem = {p}
  BY <1>3, EmptyFifoOrdered, InsertOrdered, ProcAssumption
<1> HIDE DEF T, f, d
<1>9. /\ Listed(T, M \cup {d}, g)
      /\ T.addr[d] = a /\ T.link[d] = f
      /\ \A e \in Desc \ {d} : T.addr[e] = S.addr[e] /\ T.link[e] = S.link[e]
  BY <1>6 DEF Enters
<1>10. \A e \in Desc : T.link[e].mem # {} <=> e \in M \cup {d}
  BY <1>1, <1>4, <1>8, <1>9
<1>11. Active(T) = M \cup {d}
  BY <1>1, <1>4, <1>10 DEF Active
<1>12. \A e \in Desc : Ordered(T.link[e])
  BY <1>1, <1>8, <1>9
<1> HIDE DEF M
<1>13. GoodLists(T)
  BY <1>9, <1>11, <1>12 DEF GoodLists
<1>14. Added(S, T, d, a, p)
  BY <1>7, <1>9, <1>11, <1>13 DEF Added, f, M
<1> QED BY <1>14 DEF T, d

LEMMA WaitsAdded ==
  ASSUME NEW S, GoodLists(S), NEW T, NEW d, NEW a, NEW p, DescriptorOf(S, d, a, p), Added(S, T, d, a, p),
         NEW v, Waits(S, Active(S), p, v), \E s \in 1 .. SEMMAX : v[s] = ENULL
  PROVE  Waits(T, Active(T), p, Replace(v, ENULL, a))
PROOF
<1> DEFINE u == Replace(v, ENULL, a)
<1>1. /\ v \in Vector
      /\ \A b \in Addr : (\E s \in 1 .. SEMMAX : v[s] = b) <=>
                         (\E e \in Active(S) : S.addr[e] = b /\ p \in S.link[e].mem)
      /\ \A s, t \in 1 .. SEMMAX : v[s] = v[t] /\ v[s] # ENULL => s = t
  BY DEF Waits
<1>2. /\ a \in Addr /\ p \in Proc /\ d \in Desc /\ p \notin S.link[d].mem
      /\ \A e \in Active(S) : S.addr[e] = a => e = d
  BY DEF DescriptorOf
<1>3. PICK s0 \in 1 .. SEMMAX : v[s0] = ENULL /\ u = [v EXCEPT ![s0] = a]
  BY <1>1, <1>2, ReplaceFirst
<1>4. u \in Vector
  BY <1>1, <1>2, ReplaceFirst
<1>5. u[s0] = a /\ \A s \in 1 .. SEMMAX \ {s0} : u[s] = v[s]
  BY <1>1, <1>3 DEF Vector
<1>6. ENULL \notin Addr
  BY Sizes
<1>7. \A s \in 1 .. SEMMAX : v[s] # a
  BY <1>1, <1>2
<1> HIDE DEF u
<1>8. \A b \in Addr : (\E s \in 1 .. SEMMAX : u[s] = b) <=> b = a \/ (\E s \in 1 .. SEMMAX : v[s] = b)
  BY <1>1, <1>2, <1>3, <1>5, <1>6
<1>9. \A b \in Addr : (\E e \in Active(T) : T.addr[e] = b /\ p \in T.link[e].mem) <=>
                      b = a \/ (\E e \in Active(S) : S.addr[e] = b /\ p \in S.link[e].mem)
  <2>1. /\ Active(T) = Active(S) \cup {d}
        /\ T.addr[d] = a
        /\ \A e \in Desc \ {d} : T.addr[e] = S.addr[e] /\ T.link[e] = S.link[e]
    BY DEF Added
  <2>2. p \in T.link[d].mem
    BY DEF Added, Insert
  <2>3. Active(S) \in SUBSET Desc
    BY GoodFields
  <2>4. \A e \in Active(S) : p \in S.link[e].mem => e # d
    BY <1>2
  <2> HIDE DEF Active
  <2> QED BY <2>1, <2>2, <2>3, <2>4
<1>10. \A s, t \in 1 .. SEMMAX : u[s] = u[t] /\ u[s] # ENULL => s = t
  BY <1>1, <1>5, <1>7
<1> QED BY <1>1, <1>4, <1>8, <1>9, <1>10 DEF Waits, u

LEMMA OthersWaitOn ==
  ASSUME NEW S, GoodLists(S), NEW T, NEW d, NEW a, NEW p, DescriptorOf(S, d, a, p), Added(S, T, d, a, p),
         NEW q, q # p, NEW v, Waits(S, Active(S), q, v)
  PROVE  Waits(T, Active(T), q, v)
PROOF
<1>1. /\ Active(T) = Active(S) \cup {d}
      /\ T.addr[d] = a
      /\ \A e \in Desc \ {d} : T.addr[e] = S.addr[e] /\ T.link[e] = S.link[e]
  BY DEF Added
<1>2. q \in T.link[d].mem <=> q \in S.link[d].mem
  BY DEF Added, Insert
<1>3. /\ Active(S) \in SUBSET Desc
      /\ \A e \in Desc : e \in Active(S) <=> S.link[e].mem # {}
  BY GoodFields
<1>4. d \in Desc /\ (d \in Active(S) => S.addr[d] = a)
  BY DEF DescriptorOf
<1> HIDE DEF Active
<1>5. \A b : (\E e \in Active(T) : T.addr[e] = b /\ q \in T.link[e].mem) <=>
             (\E e \in Active(S) : S.addr[e] = b /\ q \in S.link[e].mem)
  BY <1>1, <1>2, <1>3, <1>4
<1> QED BY <1>5 DEF Waits

-----------------------------------------------------------------------------
(* The queues W that the descriptors of S stand for. *)

Stands(S, W) ==
  /\ W \in [Addr -> Fifo]
  /\ \A d \in Active(S) : W[S.addr[d]] = S.link[d]
  /\ \A a \in Addr : (\A d \in Active(S) : S.addr[d] # a) => W[a] = EmptyFifo

LEMMA StandsOnce ==
  ASSUME NEW S, NEW W, NEW V, Stands(S, W), Stands(S, V)
  PROVE  V = W
PROOF
<1>1. V \in [Addr -> Fifo] /\ W \in [Addr -> Fifo]
  BY DEF Stands
<1>2. \A a \in Addr : V[a] = W[a]
  BY DEF Stands
<1> QED BY <1>1, <1>2

LEMMA WaitingStands ==
  ASSUME GoodLists(semd)
  PROVE  Stands(semd, waitingOf)
PROOF
<1> DEFINE look(a) == Lookup(semd, a)
<1>1. /\ semd \in Table /\ Active(semd) \in SUBSET Desc
      /\ Follows(Active(semd), semd.addr, semd.head, semd.next)
      /\ \A d \in Active(semd) : semd.addr[d] \in Addr
      /\ \A d \in Desc : semd.link[d] \in Fifo
  BY GoodFields
<1>2. ASSUME NEW a \in Addr
      PROVE  /\ look(a) = ENULL => \A d \in Active(semd) : semd.addr[d] # a
             /\ look(a) # ENULL => look(a) \in Active(semd) /\ semd.addr[look(a)] = a
             /\ \A d \in Active(semd) : semd.addr[d] = a => look(a) = d
  BY <1>1, LookupFinds
<1>3. waitingOf = [a \in Addr |-> IF look(a) = ENULL THEN EmptyFifo ELSE semd.link[look(a)]]
  BY DEF waitingOf
<1>4. ENULL \notin Desc
  BY Sizes
<1> HIDE DEF look
<1>5. waitingOf \in [Addr -> Fifo]
  BY <1>1, <1>2, <1>3, EmptyFifoOrdered
<1>6. \A d \in Active(semd) : waitingOf[semd.addr[d]] = semd.link[d]
  BY <1>1, <1>2, <1>3, <1>4
<1>7. \A a \in Addr : (\A d \in Active(semd) : semd.addr[d] # a) => waitingOf[a] = EmptyFifo
  BY <1>1, <1>2, <1>3
<1> QED BY <1>5, <1>6, <1>7 DEF Stands

LEMMA StandsTaken ==
  ASSUME NEW S, GoodLists(S), NEW T, NEW d \in Active(S), NEW p \in S.link[d].mem, Taken(S, T, d, p),
         NEW W, Stands(S, W)
  PROVE  Stands(T, [W EXCEPT ![S.addr[d]] = Remove(@, {p})])
PROOF
<1> DEFINE b == S.addr[d]
           V == [W EXCEPT ![b] = Remove(@, {p})]
<1>1. /\ W \in [Addr -> Fifo]
      /\ \A e \in Active(S) : W[S.addr[e]] = S.link[e]
      /\ \A a \in Addr : (\A e \in Active(S) : S.addr[e] # a) => W[a] = EmptyFifo
  BY DEF Stands
<1>2. /\ b \in Addr /\ Active(S) \in SUBSET Desc
      /\ \A e \in Active(S) : S.addr[e] = b => e = d
      /\ S.link[d] \in Fifo /\ Ordered(S.link[d])
  BY GoodFields
<1>3. /\ Active(T) \subseteq Active(S)
      /\ \A e \in Active(S) \ {d} : e \in Active(T) /\ T.addr[e] = S.addr[e] /\ T.link[e] = S.link[e]
      /\ \A e \in Active(T) : T.addr[e] = S.addr[e]
      /\ d \notin Active(T) => S.link[d].mem = {p}
  BY TakenActive
<1>4. T.link[d] = Remove(S.link[d], {p})
  BY DEF Taken
<1>5. Remove(S.link[d], {p}) \in Fifo
  BY <1>2, RemoveOrdered
<1>6. d \notin Active(T) => Remove(S.link[d], {p}) = EmptyFifo
  <2>1. /\ Ordered(Remove(S.link[d], {p}))
        /\ Remove(S.link[d], {p}).mem = S.link[d].mem \ {p}
    BY <1>2, RemoveOrdered
  <2> QED BY <1>3, <1>5, <2>1, NobodyIsEmpty
<1>7. W[b] = S.link[d]
  BY <1>1
<1>8. /\ V \in [Addr -> Fifo] /\ V[b] = Remove(S.link[d], {p})
      /\ \A a \in Addr \ {b} : V[a] = W[a]
  BY <1>1, <1>2, <1>5, <1>7
<1> HIDE DEF V, Active
<1>9. \A e \in Active(T) : V[T.addr[e]] = T.link[e]
  <2> SUFFICES ASSUME NEW e \in Active(T) PROVE V[T.addr[e]] = T.link[e]
    OBVIOUS
  <2>1. CASE e = d
    BY <1>3, <1>4, <1>8, <2>1
  <2>2. CASE e # d
    <3>1. T.addr[e] = S.addr[e] /\ T.link[e] = S.link[e] /\ S.addr[e] # b /\ e \in Active(S)
      BY <1>2, <1>3, <2>2
    <3>2. S.addr[e] \in Addr
      BY <3>1, GoodFields
    <3> QED BY <1>1, <1>8, <3>1, <3>2
  <2> QED BY <2>1, <2>2
<1>10. ASSUME NEW a \in Addr, \A e \in Active(T) : T.addr[e] # a PROVE V[a] = EmptyFifo
  <2>1. CASE a = b
    BY <1>3, <1>6, <1>8, <1>10, <2>1
  <2>2. CASE a # b
    <3>1. \A e \in Active(S) : S.addr[e] # a
      BY <1>3, <1>10, <2>2
    <3> QED BY <1>1, <1>8, <2>2, <3>1
  <2> QED BY <2>1, <2>2
<1>11. Stands(T, V)
  BY <1>8, <1>9, <1>10 DEF Stands
<1> QED BY <1>11 DEF V

LEMMA StandsAdded ==
  ASSUME NEW S, GoodLists(S), NEW T, NEW d, NEW a, NEW p, DescriptorOf(S, d, a, p), Added(S, T, d, a, p),
         NEW W, Stands(S, W)
  PROVE  /\ Stands(T, [W EXCEPT ![a] = Insert(@, p)])
         /\ W[a] = S.link[d]
PROOF
<1> DEFINE V == [W EXCEPT ![a] = Insert(@, p)]
<1>1. /\ W \in [Addr -> Fifo]
      /\ \A e \in Active(S) : W[S.addr[e]] = S.link[e]
      /\ \A b \in Addr : (\A e \in Active(S) : S.addr[e] # b) => W[b] = EmptyFifo
  BY DEF Stands
<1>2. /\ Active(S) \in SUBSET Desc
      /\ \A e \in Active(S) : S.addr[e] \in Addr
      /\ \A e \in Desc : /\ S.link[e] \in Fifo /\ Ordered(S.link[e])
                         /\ e \in Active(S) <=> S.link[e].mem # {}
  BY GoodFields
<1>3. /\ a \in Addr /\ p \in Proc /\ d \in Desc /\ p \notin S.link[d].mem
      /\ d \in Active(S) => S.addr[d] = a
      /\ \A e \in Active(S) : S.addr[e] = a => e = d
  BY DEF DescriptorOf
<1>4. /\ Active(T) = Active(S) \cup {d}
      /\ T.addr[d] = a /\ T.link[d] = Insert(S.link[d], p)
      /\ \A e \in Desc \ {d} : T.addr[e] = S.addr[e] /\ T.link[e] = S.link[e]
  BY DEF Added
<1> HIDE DEF Active
<1>5. W[a] = S.link[d]
  <2>1. CASE d \in Active(S)
    BY <1>1, <1>3, <2>1
  <2>2. CASE d \notin Active(S)
    <3>1. S.link[d] = EmptyFifo
      BY <1>2, <1>3, <2>2, NobodyIsEmpty
    <3> QED BY <1>1, <1>3, <2>2, <3>1
  <2> QED BY <2>1, <2>2
<1>6. Insert(S.link[d], p) \in Fifo
  BY <1>2, <1>3, InsertOrdered, ProcAssumption
<1>7. /\ V \in [Addr -> Fifo] /\ V[a] = Insert(S.link[d], p)
      /\ \A b \in Addr \ {a} : V[b] = W[b]
  BY <1>1, <1>3, <1>5, <1>6
<1> HIDE DEF V
<1>8. \A e \in Active(T) : V[T.addr[e]] = T.link[e]
  <2> SUFFICES ASSUME NEW e \in Active(T) PROVE V[T.addr[e]] = T.link[e]
    OBVIOUS
  <2>1. CASE e = d
    BY <1>4, <1>7, <2>1
  <2>2. CASE e # d
    BY <1>1, <1>2, <1>3, <1>4, <1>7, <2>2
  <2> QED BY <2>1, <2>2
<1>9. ASSUME NEW b \in Addr, \A e \in Active(T) : T.addr[e] # b PROVE V[b] = EmptyFifo
  BY <1>1, <1>2, <1>3, <1>4, <1>7, <1>9
<1>10. Stands(T, V)
  BY <1>7, <1>8, <1>9 DEF Stands
<1> QED BY <1>5, <1>10 DEF V

-----------------------------------------------------------------------------
(* The loop of outBlocked. *)

LEMMA NextSame ==
  ASSUME NEW M, NEW k, NEW head, NEW next, Follows(M, k, head, next),
         NEW N, NEW k2, NEW h2, NEW n2, Follows(N, k2, h2, n2),
         M \subseteq N, \A e \in M : k[e] = k2[e],
         NEW d \in M, \A e \in N : k2[d] < k2[e] => e \in M
  PROVE  next[d] = n2[d]
PROOF
<1>1. /\ next[d] = ENULL => \A e \in M : k2[e] <= k2[d]
      /\ next[d] # ENULL => /\ next[d] \in M /\ k2[d] < k2[next[d]]
                            /\ \A e \in M : k2[e] <= k2[d] \/ k2[next[d]] <= k2[e]
  BY DEF Follows
<1>2. /\ n2[d] = ENULL => \A e \in N : k2[e] <= k2[d]
      /\ n2[d] # ENULL => /\ n2[d] \in N /\ k2[d] < k2[n2[d]]
                          /\ \A e \in N : k2[e] <= k2[d] \/ k2[n2[d]] <= k2[e]
  BY DEF Follows
<1>3. \A e, f \in N : k2[e] \in Int /\ (k2[e] = k2[f] => e = f)
  BY DEF Follows
<1>4. next[d] = ENULL <=> n2[d] = ENULL
  BY <1>1, <1>2, <1>3
<1>5. next[d] # ENULL => next[d] = n2[d]
  BY <1>1, <1>2, <1>3, <1>4
<1> QED BY <1>4, <1>5

LEMMA BelowNext ==
  ASSUME NEW M, NEW key, NEW head, NEW next, Follows(M, key, head, next), ENULL \notin M,
         NEW d \in M
  PROVE  /\ Below(M, key, next[d]) = Below(M, key, d) \cup {d}
         /\ d \notin Below(M, key, d)
         /\ next[d] \in M \cup {ENULL}
         /\ \A e \in M : e \in Below(M, key, d) \/ e = d \/ key[d] < key[e]
PROOF
<1>1. \A e \in M : key[e] \in Int /\ (key[e] = key[d] => e = d)
  BY DEF Follows
<1>2. /\ next[d] = ENULL => \A e \in M : key[e] <= key[d]
      /\ next[d] # ENULL => /\ next[d] \in M /\ key[d] < key[next[d]]
                            /\ \A e \in M : key[e] <= key[d] \/ key[next[d]] <= key[e]
  BY DEF Follows
<1>3. Below(M, key, d) = {e \in M : key[e] < key[d]}
  BY DEF Below
<1>4. CASE next[d] = ENULL
  BY <1>1, <1>2, <1>3, <1>4 DEF Below
<1>5. CASE next[d] # ENULL
  <2>1. Below(M, key, next[d]) = {e \in M : key[e] < key[next[d]]}
    BY <1>5 DEF Below
  <2> QED BY <1>1, <1>2, <1>3, <1>5, <2>1
<1> QED BY <1>4, <1>5

Loop == [S : Table, v : Vector, c : [Addr -> Nat], at : Desc \cup {ENULL}]

(* A turn, of its parts. *)
Turned(p, r, t) ==
  /\ t \in Loop
  /\ r.at = ENULL => t = r
  /\ r.at # ENULL /\ p \notin r.S.link[r.at].mem =>
       t.S = r.S /\ t.v = r.v /\ t.c = r.c /\ t.at = r.S.next[r.at]
  /\ r.at # ENULL /\ p \in r.S.link[r.at].mem =>
       /\ t.S = Release([r.S EXCEPT !.link[r.at] = Remove(@, {p})], r.at)
       /\ t.v = Replace(r.v, r.S.addr[r.at], ENULL)
       /\ t.c = [r.c EXCEPT ![r.S.addr[r.at]] = @ + 1]
       /\ t.at = r.S.next[r.at]

LEMMA TurnFields ==
  ASSUME NEW r \in Loop, NEW p
  PROVE  Turned(p, r, Turn(p, r))
PROOF
<1> DEFINE t == Turn(p, r)
           S == r.S
           d == r.at
           T == [S EXCEPT !.link[d] = Remove(@, {p})]
           U == Release(T, d)
           u == Replace(r.v, S.addr[d], ENULL)
           c == [r.c EXCEPT ![S.addr[d]] = @ + 1]
<1>1. /\ S \in Table /\ r.v \in Vector /\ r.c \in [Addr -> Nat] /\ d \in Desc \cup {ENULL}
  BY DEF Loop
<1>2. CASE d = ENULL
  <2>1. t = r
    BY <1>2 DEF Turn
  <2> HIDE DEF t
  <2> QED BY <1>2, <2>1 DEF Turned, t
<1>3. CASE d # ENULL /\ p \notin S.link[d].mem
  <2>1. t = [r EXCEPT !.at = S.next[d]]
    BY <1>3 DEF Turn
  <2>2. S.next[d] \in Desc \cup {ENULL}
    BY <1>1, <1>3, TableFields
  <2> HIDE DEF t
  <2>3. t \in Loop /\ t.S = r.S /\ t.v = r.v /\ t.c = r.c /\ t.at = S.next[d]
    BY <2>1, <2>2 DEF Loop
  <2> QED BY <1>3, <2>3 DEF Turned, t
<1>4. CASE d # ENULL /\ p \in S.link[d].mem
  <2>1. t = [S |-> U, v |-> u, c |-> c, at |-> S.next[d]]
    BY <1>4 DEF Turn, Successor
  <2>2. d \in Desc /\ S.next[d] \in Desc \cup {ENULL} /\ S.link[d] \in Fifo
    BY <1>1, <1>4, TableFields
  <2>3. Remove(S.link[d], {p}) \in Fifo
    BY <2>2 DEF Fifo, Remove
  <2>4. T \in Table
    <3> DEFINE f == Remove(S.link[d], {p})
    <3>1. T = [S EXCEPT !.link[d] = f]
      OBVIOUS
    <3> HIDE DEF f, T
    <3> QED BY <1>1, <2>2, <2>3, <3>1, SetLink DEF f
  <2> HIDE DEF T
  <2>5. U \in Table
    <3>1. detach(T, d) \in Table
      BY <2>2, <2>4, DetachFields
    <3>2. returnToFreeList(detach(T, d), d) \in Table
      BY <2>2, <3>1, ReturnFields DEF Returned
    <3> QED BY <2>4, <3>2 DEF Release
  <2>6. u \in Vector
    BY <1>1, ReplaceFirst
  <2>7. c \in [Addr -> Nat]
    <3>1. ASSUME NEW C \in [Addr -> Nat], NEW b PROVE [C EXCEPT ![b] = @ + 1] \in [Addr -> Nat]
      <4>1. \A a \in Addr : [C EXCEPT ![b] = @ + 1][a] \in Nat
        OBVIOUS
      <4> QED BY <4>1
    <3> QED BY <1>1, <3>1
  <2> HIDE DEF U, u, c, t
  <2>8. t \in Loop /\ t.S = U /\ t.v = u /\ t.c = c /\ t.at = S.next[d]
    BY <2>1, <2>2, <2>5, <2>6, <2>7 DEF Loop
  <2> QED BY <1>4, <2>8 DEF Turned, t, U, T, u, c
<1> QED BY <1>2, <1>3, <1>4

(* Where the loop has got to, if it began at S0 with the vectors V and has   *)
(* been at the descriptors D.                                                *)
Mid(S0, V, p, D, r) ==
  /\ GoodLists(r.S)
  /\ \A d \in Desc :
       /\ d \in D /\ p \in S0.link[d].mem => r.S.link[d] = Remove(S0.link[d], {p})
       /\ d \notin D \/ p \notin S0.link[d].mem => r.S.link[d] = S0.link[d]
  /\ \A d \in Active(r.S) : r.S.addr[d] = S0.addr[d]
  /\ Waits(r.S, Active(r.S), p, r.v)
  /\ \A q \in Proc \ {p} : Waits(r.S, Active(r.S), q, V[q])
  /\ \A a \in Addr :
       /\ (\E d \in D : S0.addr[d] = a /\ p \in S0.link[d].mem) => r.c[a] = 1
       /\ (\A d \in D : S0.addr[d] = a => p \notin S0.link[d].mem) => r.c[a] = 0

LEMMA MidTurn ==
  ASSUME NEW S0, GoodLists(S0), NEW V, NEW p \in Proc, NEW D \in SUBSET Active(S0),
         NEW r \in Loop, Mid(S0, V, p, D, r), r.at \in Active(S0), r.at \notin D
  PROVE  Mid(S0, V, p, D \cup {r.at}, Turn(p, r))
PROOF
<1> DEFINE d == r.at
           t == Turn(p, r)
           S == r.S
           E == D \cup {d}
<1>1. Turned(p, r, t)
  BY TurnFields
<1>2. /\ GoodLists(S)
      /\ \A e \in Desc :
           /\ e \in D /\ p \in S0.link[e].mem => S.link[e] = Remove(S0.link[e], {p})
           /\ e \notin D \/ p \notin S0.link[e].mem => S.link[e] = S0.link[e]
      /\ \A e \in Active(S) : S.addr[e] = S0.addr[e]
      /\ Waits(S, Active(S), p, r.v)
      /\ \A q \in Proc \ {p} : Waits(S, Active(S), q, V[q])
      /\ \A a \in Addr :
           /\ (\E e \in D : S0.addr[e] = a /\ p \in S0.link[e].mem) => r.c[a] = 1
           /\ (\A e \in D : S0.addr[e] = a => p \notin S0.link[e].mem) => r.c[a] = 0
  BY DEF Mid
<1>3. /\ Active(S0) \in SUBSET Desc
      /\ \A e, f \in Active(S0) : S0.addr[e] = S0.addr[f] => e = f
      /\ \A e \in Desc : e \in Active(S0) <=> S0.link[e].mem # {}
      /\ \A e \in Active(S0) : S0.addr[e] \in Addr
  BY GoodFields
<1>4. \A e \in Desc : e \in Active(S) <=> S.link[e].mem # {}
  BY <1>2, GoodFields
<1>5. d \in Desc /\ d # ENULL /\ r.c \in [Addr -> Nat]
  BY <1>3, Sizes DEF Loop
<1> HIDE DEF Active, t
<1>6. S.link[d] = S0.link[d]
  BY <1>2, <1>5
<1>7. d \in Active(S) /\ S.addr[d] = S0.addr[d]
  BY <1>2, <1>3, <1>4, <1>5, <1>6
<1>8. ASSUME p \notin S0.link[d].mem PROVE Mid(S0, V, p, E, t)
  <2>1. t.S = S /\ t.v = r.v /\ t.c = r.c
    BY <1>1, <1>5, <1>6, <1>8 DEF Turned
  <2>2. \A e \in Desc :
          /\ e \in E /\ p \in S0.link[e].mem => S.link[e] = Remove(S0.link[e], {p})
          /\ e \notin E \/ p \notin S0.link[e].mem => S.link[e] = S0.link[e]
    BY <1>2, <1>8
  <2>3. \A a \in Addr :
          /\ (\E e \in E : S0.addr[e] = a /\ p \in S0.link[e].mem) => r.c[a] = 1
          /\ (\A e \in E : S0.addr[e] = a => p \notin S0.link[e].mem) => r.c[a] = 0
    BY <1>2, <1>8
  <2> HIDE DEF d, S, E
  <2> QED BY <1>2, <2>1, <2>2, <2>3, Zenon DEF Mid
<1>9. ASSUME p \in S0.link[d].mem PROVE Mid(S0, V, p, E, t)
  <2> DEFINE T == t.S
             b == S.addr[d]
  <2>1. /\ T = Release([S EXCEPT !.link[d] = Remove(@, {p})], d)
        /\ t.v = Replace(r.v, b, ENULL)
        /\ t.c = [r.c EXCEPT ![b] = @ + 1]
    BY <1>1, <1>5, <1>6, <1>9 DEF Turned
  <2>2. p \in S.link[d].mem
    BY <1>6, <1>9
  <2> HIDE DEF d, S, E, T, b
  <2>3. Taken(S, T, d, p)
    BY <1>2, <1>7, <2>1, <2>2, TakeOut
  <2>4. /\ GoodLists(T)
        /\ T.link[d] = Remove(S0.link[d], {p})
        /\ \A e \in Desc \ {d} : T.link[e] = S.link[e]
        /\ \A e \in Active(T) : T.addr[e] = S.addr[e]
    BY <1>6, <2>3 DEF Taken
  <2>5. Active(T) \subseteq Active(S)
    BY <1>2, <1>7, <2>2, <2>3, TakenActive
  <2>6. Waits(T, Active(T), p, t.v)
    BY <1>2, <1>7, <2>1, <2>2, <2>3, WaitsTaken DEF b
  <2>7. \A q \in Proc \ {p} : Waits(T, Active(T), q, V[q])
    <3> TAKE q \in Proc \ {p}
    <3>1. Waits(S, Active(S), q, V[q]) /\ q # p
      BY <1>2
    <3> QED BY <1>2, <1>7, <2>2, <2>3, <3>1, OthersWait
  <2>8. \A e \in Desc :
          /\ e \in E /\ p \in S0.link[e].mem => T.link[e] = Remove(S0.link[e], {p})
          /\ e \notin E \/ p \notin S0.link[e].mem => T.link[e] = S0.link[e]
    BY <1>2, <1>9, <2>4 DEF E
  <2>9. \A e \in Active(T) : T.addr[e] = S0.addr[e]
    BY <1>2, <2>4, <2>5
  <2>10. b = S0.addr[d] /\ b \in Addr /\ \A e \in D : S0.addr[e] # b
    BY <1>3, <1>7 DEF b, d
  <2>11. t.c[b] = 1 /\ \A a \in Addr \ {b} : t.c[a] = r.c[a]
    <3>1. r.c[b] = 0
      BY <1>2, <2>10
    <3> QED BY <1>5, <2>1, <2>10, <3>1
  <2>12. \A a \in Addr :
          /\ (\E e \in E : S0.addr[e] = a /\ p \in S0.link[e].mem) => t.c[a] = 1
          /\ (\A e \in E : S0.addr[e] = a => p \notin S0.link[e].mem) => t.c[a] = 0
    BY <1>2, <1>9, <2>10, <2>11 DEF E
  <2> QED BY <2>4, <2>6, <2>7, <2>8, <2>9, <2>12, Zenon DEF Mid, T
<1> QED BY <1>8, <1>9 DEF t

(* The loop from S0 on: the recursive definition has the values it says. *)
LEMMA OutSteps ==
  ASSUME semd \in Table, NEW p \in Proc, semvec[p] \in Vector
  PROVE  \E o \in [0 .. NumDesc -> Loop] :
           /\ o[0] = [S |-> semd, v |-> semvec[p], c |-> [b \in Addr |-> 0], at |-> semd.head]
           /\ \A n \in 1 .. NumDesc : o[n] = Turn(p, o[n - 1])
           /\ Out(p) = o[NumDesc]
PROOF
<1> DEFINE a == [S |-> semd, v |-> semvec[p], c |-> [b \in Addr |-> 0], at |-> semd.head]
           step == [r \in Loop |-> Turn(p, r)]
<1>1. \A r \in Loop : Turn(p, r) \in Loop
  BY TurnFields DEF Turned
<1>2. a \in Loop
  BY TableFields DEF Loop
<1>3. NumDesc \in Nat
  BY Sizes
<1> HIDE DEF a
<1>4. PICK g \in [0 .. NumDesc -> Loop] : g[0] = a /\ \A n \in 1 .. NumDesc : g[n] = step[g[n - 1]]
  <2>1. step \in [Loop -> Loop]
    BY <1>1
  <2> HIDE DEF step
  <2>2. IsStep(NumDesc, Loop, a, step)
    BY <1>2, <1>3, <2>1 DEF IsStep
  <2> QED BY <2>2, Iterates
<1>5. \A n \in 1 .. NumDesc : g[n] = Turn(p, g[n - 1])
  <2> TAKE n \in 1 .. NumDesc
  <2>1. n - 1 \in 0 .. NumDesc
    BY <1>3
  <2> QED BY <1>4, <2>1
<1>6. g = [n \in 0 .. NumDesc |-> IF n = 0 THEN a ELSE Turn(p, g[n - 1])]
  <2>1. \A n \in 0 .. NumDesc : g[n] = IF n = 0 THEN a ELSE Turn(p, g[n - 1])
    BY <1>3, <1>4, <1>5
  <2> QED BY <2>1
<1> DEFINE o == CHOOSE f : f = [n \in 0 .. NumDesc |-> IF n = 0 THEN a ELSE Turn(p, f[n - 1])]
<1>7. Out(p) = o[NumDesc]
  BY DEF Out, a
<1>8. o = [n \in 0 .. NumDesc |-> IF n = 0 THEN a ELSE Turn(p, o[n - 1])]
  BY <1>6, Zenon
<1> HIDE DEF o
<1>9. o[0] = a /\ \A n \in 1 .. NumDesc : o[n] = Turn(p, o[n - 1])
  BY <1>3, <1>8
<1>10. o \in [0 .. NumDesc -> Loop]
  <2> DEFINE I == {n \in 0 .. NumDesc : o[n] \in Loop}
  <2>1. 0 \in I
    BY <1>2, <1>3, <1>9
  <2>2. ASSUME NEW n \in 1 .. NumDesc, n - 1 \in I PROVE n \in I
    BY <1>1, <1>3, <1>9, <2>2
  <2>3. \A n \in 0 .. NumDesc : n \in I
    <3> HIDE DEF I
    <3> QED BY <1>3, <2>1, <2>2, UpTo
  <2>4. o = [n \in 0 .. NumDesc |-> o[n]]
    BY <1>8
  <2> QED BY <2>3, <2>4
<1> QED BY <1>7, <1>9, <1>10 DEF a

(* The loop comes to all the descriptors of the list it began with. *)
LEMMA OutEnds ==
  ASSUME GoodLists(semd), \A q \in Proc : Waits(semd, Active(semd), q, semvec[q]), NEW p \in Proc
  PROVE  Mid(semd, semvec, p, Active(semd), Out(p)) /\ Out(p) \in Loop
PROOF
<1> DEFINE A == Active(semd)
           key == semd.addr
           w == Walk(semd, semd.head)
           D(n) == Below(A, key, w[n])
<1>1. /\ semd \in Table /\ A \in SUBSET Desc /\ Follows(A, key, semd.head, semd.next)
      /\ \A d \in A : key[d] \in Addr
      /\ \A d \in Desc : semd.link[d] \in Fifo
  BY GoodFields
<1>2. MeetsAll(w, semd, A, key, semd.head)
  BY <1>1, WalkMeets DEF IsList
<1>3. /\ \A n \in 0 .. NumDesc : w[n] \in A \cup {ENULL}
      /\ w[0] = semd.head /\ w[NumDesc] = ENULL
      /\ \A n \in 1 .. NumDesc : /\ w[n - 1] = ENULL => w[n] = ENULL
                                 /\ w[n - 1] # ENULL => w[n] = semd.next[w[n - 1]]
  BY <1>2, Zenon DEF MeetsAll
<1>4. ENULL \notin Desc /\ NumDesc \in Nat
  BY Sizes
<1>5. semvec[p] \in Vector
  BY DEF Waits
<1>6. PICK o \in [0 .. NumDesc -> Loop] :
        /\ o[0] = [S |-> semd, v |-> semvec[p], c |-> [b \in Addr |-> 0], at |-> semd.head]
        /\ \A n \in 1 .. NumDesc : o[n] = Turn(p, o[n - 1])
        /\ Out(p) = o[NumDesc]
  BY <1>1, <1>5, OutSteps
<1> DEFINE P(n) == o[n].at = w[n] /\ Mid(semd, semvec, p, D(n), o[n])
           I == {n \in 0 .. NumDesc : P(n)}
<1>7. P(0)
  <2> DEFINE r == o[0]
  <2>1. r.S = semd /\ r.v = semvec[p] /\ r.c = [b \in Addr |-> 0] /\ r.at = semd.head
    BY <1>6
  <2>2. D(0) = {}
    BY <1>3, <1>4, <1>1 DEF Below, Follows
  <2> HIDE DEF r, D, A
  <2>3. Mid(semd, semvec, p, {}, r)
    BY <2>1 DEF Mid, A
  <2> QED BY <1>3, <2>1, <2>2, <2>3 DEF r
<1>8. ASSUME NEW n \in 1 .. NumDesc, P(n - 1) PROVE P(n)
  <2> DEFINE r == o[n - 1]
             d == w[n - 1]
             E == D(n - 1)
  <2>1. n - 1 \in 0 .. NumDesc /\ r \in Loop /\ o[n] = Turn(p, r) /\ d \in A \cup {ENULL}
        /\ r.at = d /\ Mid(semd, semvec, p, E, r)
    BY <1>3, <1>4, <1>6, <1>8
  <2>2. Turned(p, r, o[n])
    BY <2>1, TurnFields
  <2>3. CASE d = ENULL
    <3>1. o[n] = r /\ w[n] = ENULL
      BY <1>3, <2>1, <2>2, <2>3 DEF Turned
    <3>2. D(n) = E
      BY <2>3, <3>1
    <3> QED BY <2>1, <2>3, <3>1, <3>2
  <2>4. CASE d # ENULL
    <3> HIDE DEF A, r, w
    <3>1. d \in A /\ w[n] = semd.next[d]
      BY <1>3, <2>1, <2>4
    <3>2. /\ D(n) = E \cup {d} /\ d \notin E
          /\ \A e \in A : e \in E \/ e = d \/ key[d] < key[e]
      BY <1>1, <1>4, <3>1, BelowNext
    <3>3. E \in SUBSET A
      BY DEF Below
    <3> HIDE DEF D, E
    <3>4. Mid(semd, semvec, p, E \cup {d}, o[n])
      BY <2>1, <3>1, <3>2, <3>3, MidTurn DEF A
    <3>5. r.S.next[d] = semd.next[d]
      <4> DEFINE B == Active(r.S)
      <4>1. /\ GoodLists(r.S)
            /\ \A e \in Desc :
                 /\ e \in E /\ p \in semd.link[e].mem => r.S.link[e] = Remove(semd.link[e], {p})
                 /\ e \notin E \/ p \notin semd.link[e].mem => r.S.link[e] = semd.link[e]
            /\ \A e \in B : r.S.addr[e] = key[e]
        BY <2>1 DEF Mid
      <4>2. Follows(B, r.S.addr, r.S.head, r.S.next)
        BY <4>1, GoodFields
      <4>3. /\ \A e \in Desc : e \in A <=> semd.link[e].mem # {}
            /\ \A e \in Desc : e \in B <=> r.S.link[e].mem # {}
            /\ B \in SUBSET Desc
        BY DEF A, Active
      <4> HIDE DEF B
      <4>4. \A e \in Desc : e \in B => e \in A
        BY <4>1, <4>3 DEF Remove
      <4>5. \A e \in A : e \notin E => e \in B
        BY <1>1, <4>1, <4>3
      <4>6. \A e \in A : key[d] < key[e] => e \notin E
        <5>1. \A e \in E : key[e] < key[d]
          BY <2>4 DEF E, D, Below
        <5>2. \A e \in A : key[e] \in Int
          BY <1>1, Sizes
        <5> QED BY <3>1, <3>3, <5>1, <5>2
      <4>7. B \subseteq A /\ d \in B /\ \A e \in A : key[d] < key[e] => e \in B
        BY <3>1, <3>2, <4>3, <4>4, <4>5, <4>6
      <4> QED BY <1>1, <4>1, <4>2, <4>7, NextSame
    <3>6. o[n].at = r.S.next[d]
      BY <2>1, <2>2, <2>4 DEF Turned
    <3> QED BY <3>1, <3>2, <3>4, <3>5, <3>6
  <2> QED BY <2>3, <2>4
<1>9. \A n \in 0 .. NumDesc : n \in I
  <2>1. 0 \in I
    BY <1>4, <1>7
  <2>2. ASSUME NEW n \in 1 .. NumDesc, n - 1 \in I PROVE n \in I
    <3> HIDE DEF P
    <3> QED BY <1>8, <2>2
  <2> HIDE DEF I, P
  <2> QED BY <1>4, <2>1, <2>2, UpTo
<1>10. P(NumDesc)
  BY <1>4, <1>9
<1>11. D(NumDesc) = A
  BY <1>3 DEF Below
<1>12. Out(p) = o[NumDesc] /\ o[NumDesc] \in Loop
  BY <1>4, <1>6
<1> HIDE DEF D, A, w
<1> QED BY <1>10, <1>11, <1>12 DEF A

-----------------------------------------------------------------------------
(* The steps, on lists and vectors that stand for the queues W. *)

Good(S, V, W) ==
  /\ GoodLists(S) /\ Stands(S, W)
  /\ V \in [Proc -> Vector] /\ \A q \in Proc : Waits(S, Active(S), q, V[q])

NoCredit == [b \in Addr |-> 0]

(* What the calls do to the queues, with the operators of Fifo. *)
Inserts(W, Y, full, a, p, c, r) ==
  /\ p \notin W[a].mem /\ c = NoCredit
  /\ W[a].mem = {} /\ full => r = TRUE /\ Y = W
  /\ W[a].mem # {} \/ ~ full => r = FALSE /\ Y = [W EXCEPT ![a] = Insert(@, p)]

Removes(W, Y, a, c, r) ==
  /\ c = NoCredit
  /\ W[a].mem = {} => r = ENULL /\ Y = W
  /\ W[a].mem # {} => r = Front(W[a]) /\ r \in Proc /\ Y = [W EXCEPT ![a] = Remove(@, {r})]

Without(W, p) == [a \in Addr |-> IF p \in W[a].mem THEN Remove(W[a], {p}) ELSE W[a]]

Outs(W, Y, p, c, r) ==
  /\ Y = Without(W, p)
  /\ c = [a \in Addr |-> IF p \in W[a].mem THEN 1 ELSE 0]
  /\ (\A a \in Addr : p \notin W[a].mem) => r = ENULL
  /\ (\E a \in Addr : p \in W[a].mem) => r = p

LEMMA InsertStep ==
  ASSUME NEW W, Good(semd, semvec, W), NEW a \in Addr, NEW p \in Proc, insertBlocked(a, p)
  PROVE  \E Y : /\ Good(semd', semvec', Y)
                /\ Inserts(W, Y, Active(semd) = Desc, a, p, credit', ret')
PROOF
<1> DEFINE d == Lookup(semd, a)
           e == IF d # ENULL THEN d ELSE semd.free
           T == IF d # ENULL THEN semd ELSE [allocate(semd) EXCEPT !.addr[semd.free] = a]
           U == [T EXCEPT !.link[e] = Insert(@, p)]
           Y == [W EXCEPT ![a] = Insert(@, p)]
           M == Active(semd)
<1>1. /\ GoodLists(semd) /\ Stands(semd, W) /\ semvec \in [Proc -> Vector]
      /\ \A q \in Proc : Waits(semd, M, q, semvec[q])
  BY DEF Good
<1>2. /\ semd \in Table /\ M \in SUBSET Desc
      /\ Follows(M, semd.addr, semd.head, semd.next)
      /\ \A x, y \in M : semd.addr[x] = semd.addr[y] => x = y
      /\ \A x \in Desc : x \in M <=> semd.link[x].mem # {}
  BY <1>1, GoodFields
<1>3. /\ d = ENULL => \A x \in M : semd.addr[x] # a
      /\ d # ENULL => d \in M /\ semd.addr[d] = a
      /\ \A x \in M : semd.addr[x] = a => d = x
  BY <1>2, LookupFinds
<1>4. PICK g : Listed(semd, M, g)
  BY <1>1 DEF GoodLists
<1>5. /\ semd.free = ENULL <=> M = Desc
      /\ semd.free # ENULL => semd.free \in Desc \ M
  BY <1>4, FreeEmpty
<1>6. /\ d # ENULL => p \notin semd.link[d].mem
      /\ \E s \in 1 .. SEMMAX : semvec[p][s] = ENULL
      /\ d = ENULL /\ semd.free = ENULL => ret' = TRUE /\ semd' = semd /\ semvec' = semvec
      /\ d # ENULL \/ semd.free # ENULL =>
           /\ ret' = FALSE
           /\ semd' = IF d # ENULL THEN U ELSE insertActive(U, e)
           /\ semvec' = [semvec EXCEPT ![p] = Replace(@, ENULL, a)]
      /\ credit' = NoCredit
  BY DEF insertBlocked, NoCredit
<1>7. d = ENULL => W[a] = EmptyFifo /\ W[a].mem = {}
  BY <1>1, <1>3, EmptyFifoOrdered DEF Stands
<1>8. CASE d = ENULL /\ semd.free = ENULL
  <2>1. Inserts(W, W, M = Desc, a, p, credit', ret')
    BY <1>5, <1>6, <1>7, <1>8 DEF Inserts
  <2>2. Good(semd', semvec', W)
    BY <1>6, <1>8
  <2> QED BY <2>1, <2>2
<1>9. ASSUME d # ENULL \/ semd.free # ENULL,
             DescriptorOf(semd, e, a, p), Added(semd, semd', e, a, p)
      PROVE  \E Z : Good(semd', semvec', Z) /\ Inserts(W, Z, M = Desc, a, p, credit', ret')
  <2> HIDE DEF e, d, T, U
  <2>1. semvec' = [semvec EXCEPT ![p] = Replace(@, ENULL, a)] /\ ret' = FALSE /\ credit' = NoCredit
    BY <1>6, <1>9
  <2>2. Waits(semd', Active(semd'), p, Replace(semvec[p], ENULL, a))
    BY <1>1, <1>6, <1>9, WaitsAdded
  <2>3. ASSUME NEW q \in Proc, q # p PROVE Waits(semd', Active(semd'), q, semvec[q])
    BY <1>1, <1>9, <2>3, OthersWaitOn
  <2>4. Stands(semd', Y) /\ W[a] = semd.link[e]
    BY <1>1, <1>9, StandsAdded
  <2>5. GoodLists(semd')
    BY <1>9 DEF Added
  <2>6. Replace(semvec[p], ENULL, a) \in Vector
    BY <2>2 DEF Waits
  <2>7. semvec' \in [Proc -> Vector] /\ semvec'[p] = Replace(semvec[p], ENULL, a)
        /\ \A q \in Proc \ {p} : semvec'[q] = semvec[q]
    BY <1>1, <2>1, <2>6
  <2>8. \A q \in Proc : Waits(semd', Active(semd'), q, semvec'[q])
    BY <2>2, <2>3, <2>7
  <2>9. Good(semd', semvec', Y)
    BY <2>4, <2>5, <2>7, <2>8 DEF Good
  <2>10. W[a].mem # {} \/ M # Desc
    BY <1>2, <1>3, <1>5, <1>9, <2>4 DEF e
  <2>11. p \notin W[a].mem
    BY <1>9, <2>4 DEF DescriptorOf
  <2>12. Inserts(W, Y, M = Desc, a, p, credit', ret')
    BY <2>1, <2>10, <2>11 DEF Inserts
  <2> QED BY <2>9, <2>12
<1>10. CASE d # ENULL
  <2>1. e = d /\ semd' = [semd EXCEPT !.link[d] = Insert(@, p)]
    BY <1>6, <1>10
  <2>2. DescriptorOf(semd, d, a, p)
    BY <1>2, <1>3, <1>6, <1>10 DEF DescriptorOf
  <2> HIDE DEF d, e
  <2>3. Added(semd, semd', d, a, p)
    BY <1>1, <1>3, <1>10, <2>1, <2>2, AddToQueue
  <2> QED BY <1>9, <1>10, <2>1, <2>2, <2>3
<1>11. CASE d = ENULL /\ semd.free # ENULL
  <2>1. e = semd.free
        /\ semd' = insertActive([[allocate(semd) EXCEPT !.addr[semd.free] = a] EXCEPT
                                   !.link[semd.free] = Insert(@, p)], semd.free)
    BY <1>6, <1>11
  <2>2. DescriptorOf(semd, semd.free, a, p)
    BY <1>2, <1>3, <1>5, <1>11 DEF DescriptorOf
  <2> HIDE DEF d, e
  <2>3. Added(semd, semd', semd.free, a, p)
    BY <1>1, <1>11, <2>1, <2>2, AddDescriptor
  <2> QED BY <1>9, <1>11, <2>1, <2>2, <2>3
<1> QED BY <1>8, <1>10, <1>11

LEMMA RemoveStep ==
  ASSUME NEW W, Good(semd, semvec, W), NEW a \in Addr, removeBlocked(a)
  PROVE  \E Y : Good(semd', semvec', Y) /\ Removes(W, Y, a, credit', ret')
PROOF
<1> DEFINE d == Lookup(semd, a)
           p == Front(semd.link[d])
           M == Active(semd)
<1>1. /\ GoodLists(semd) /\ Stands(semd, W) /\ semvec \in [Proc -> Vector]
      /\ \A q \in Proc : Waits(semd, M, q, semvec[q])
  BY DEF Good
<1>2. /\ semd \in Table /\ M \in SUBSET Desc
      /\ Follows(M, semd.addr, semd.head, semd.next)
      /\ \A x \in Desc : /\ semd.link[x] \in Fifo /\ Ordered(semd.link[x])
                         /\ x \in M <=> semd.link[x].mem # {}
  BY <1>1, GoodFields
<1>3. /\ d = ENULL => \A x \in M : semd.addr[x] # a
      /\ d # ENULL => d \in M /\ semd.addr[d] = a
  BY <1>2, LookupFinds
<1>4. /\ d = ENULL => ret' = ENULL /\ semd' = semd /\ semvec' = semvec
      /\ d # ENULL => /\ ret' = p
                      /\ semd' = Release([semd EXCEPT !.link[d] = Remove(@, {p})], d)
                      /\ semvec' = [semvec EXCEPT ![p] = Replace(@, a, ENULL)]
      /\ credit' = NoCredit
  BY DEF removeBlocked, NoCredit
<1>5. CASE d = ENULL
  <2>1. W[a].mem = {}
    BY <1>1, <1>3, <1>5, EmptyFifoOrdered DEF Stands
  <2>2. Removes(W, W, a, credit', ret')
    BY <1>4, <1>5, <2>1 DEF Removes
  <2>3. Good(semd', semvec', W)
    BY <1>4, <1>5
  <2> QED BY <2>2, <2>3
<1>6. CASE d # ENULL
  <2>1. d \in M /\ d \in Desc /\ semd.addr[d] = a /\ semd.link[d].mem # {}
    BY <1>2, <1>3, <1>6
  <2>2. p \in semd.link[d].mem
    BY <1>2, <2>1, FrontExists, ProcAssumption
  <2>3. p \in Proc
    BY <1>2, <2>1, <2>2 DEF Fifo
  <2>4. /\ ret' = p
        /\ semd' = Release([semd EXCEPT !.link[d] = Remove(@, {p})], d)
        /\ semvec' = [semvec EXCEPT ![p] = Replace(@, a, ENULL)]
        /\ credit' = NoCredit
    BY <1>4, <1>6
  <2>5. W[a] = semd.link[d]
    BY <1>1, <2>1 DEF Stands
  <2>6. p = Front(W[a])
    BY <2>5
  <2> HIDE DEF d, p
  <2>7. Taken(semd, semd', d, p)
    BY <1>1, <2>1, <2>2, <2>4, TakeOut
  <2>8. Waits(semd', Active(semd'), p, Replace(semvec[p], a, ENULL))
    BY <1>1, <2>1, <2>2, <2>3, <2>7, WaitsTaken
  <2>9. ASSUME NEW q \in Proc, q # p PROVE Waits(semd', Active(semd'), q, semvec[q])
    BY <1>1, <2>1, <2>2, <2>7, <2>9, OthersWait
  <2> DEFINE Y == [W EXCEPT ![a] = Remove(@, {p})]
  <2>10. Stands(semd', Y)
    BY <1>1, <2>1, <2>2, <2>7, StandsTaken
  <2>11. GoodLists(semd')
    BY <2>7 DEF Taken
  <2>12. Replace(semvec[p], a, ENULL) \in Vector
    BY <2>8 DEF Waits
  <2>13. semvec' \in [Proc -> Vector] /\ semvec'[p] = Replace(semvec[p], a, ENULL)
         /\ \A q \in Proc \ {p} : semvec'[q] = semvec[q]
    BY <1>1, <2>3, <2>4, <2>12
  <2>14. \A q \in Proc : Waits(semd', Active(semd'), q, semvec'[q])
    BY <2>8, <2>9, <2>13
  <2>15. Good(semd', semvec', Y)
    BY <2>10, <2>11, <2>13, <2>14 DEF Good
  <2>16. Removes(W, Y, a, credit', ret')
    BY <2>1, <2>3, <2>4, <2>5, <2>6 DEF Removes
  <2> QED BY <2>15, <2>16
<1> QED BY <1>5, <1>6

LEMMA OutStep ==
  ASSUME NEW W, Good(semd, semvec, W), NEW p \in Proc, outBlocked(p)
  PROVE  \E Y : Good(semd', semvec', Y) /\ Outs(W, Y, p, credit', ret')
PROOF
<1> DEFINE M == Active(semd)
           o == Out(p)
           S == o.S
           Y == Without(W, p)
<1>1. /\ GoodLists(semd) /\ Stands(semd, W) /\ semvec \in [Proc -> Vector]
      /\ \A q \in Proc : Waits(semd, M, q, semvec[q])
  BY DEF Good
<1>2. /\ semd \in Table /\ M \in SUBSET Desc
      /\ \A d, e \in M : semd.addr[d] = semd.addr[e] => d = e
      /\ \A d \in M : semd.addr[d] \in Addr
      /\ \A d \in Desc : /\ semd.link[d] \in Fifo /\ Ordered(semd.link[d])
                         /\ d \in M <=> semd.link[d].mem # {}
  BY <1>1, GoodFields
<1>3. Mid(semd, semvec, p, M, o) /\ o \in Loop
  BY <1>1, OutEnds
<1>4. /\ semd' = S /\ semvec' = [semvec EXCEPT ![p] = o.v] /\ credit' = o.c
      /\ ret' = IF \A b \in Addr : o.c[b] = 0 THEN ENULL ELSE p
  BY DEF outBlocked
<1> HIDE DEF o, M
<1>5. /\ GoodLists(S)
      /\ \A d \in Desc :
           /\ d \in M /\ p \in semd.link[d].mem => S.link[d] = Remove(semd.link[d], {p})
           /\ d \notin M \/ p \notin semd.link[d].mem => S.link[d] = semd.link[d]
      /\ \A d \in Active(S) : S.addr[d] = semd.addr[d]
      /\ Waits(S, Active(S), p, o.v)
      /\ \A q \in Proc \ {p} : Waits(S, Active(S), q, semvec[q])
      /\ \A a \in Addr :
           /\ (\E d \in M : semd.addr[d] = a /\ p \in semd.link[d].mem) => o.c[a] = 1
           /\ (\A d \in M : semd.addr[d] = a => p \notin semd.link[d].mem) => o.c[a] = 0
  BY <1>3 DEF Mid
<1>6. o.c \in [Addr -> Nat] /\ o.v \in Vector
  BY <1>3 DEF Loop
<1>7. semvec' \in [Proc -> Vector] /\ semvec'[p] = o.v /\ \A q \in Proc \ {p} : semvec'[q] = semvec[q]
  BY <1>1, <1>4, <1>6
<1>8. \A q \in Proc : Waits(S, Active(S), q, semvec'[q])
  BY <1>5, <1>7
<1>9. /\ W \in [Addr -> Fifo]
      /\ \A d \in M : W[semd.addr[d]] = semd.link[d]
      /\ \A a \in Addr : (\A d \in M : semd.addr[d] # a) => W[a] = EmptyFifo
  BY <1>1 DEF Stands, M
<1>10. \A a \in Addr : p \in W[a].mem <=> \E d \in M : semd.addr[d] = a /\ p \in semd.link[d].mem
  BY <1>9, EmptyFifoOrdered
<1>11. \A a \in Addr : /\ p \in W[a].mem => o.c[a] = 1 /\ Y[a] = Remove(W[a], {p})
                       /\ p \notin W[a].mem => o.c[a] = 0 /\ Y[a] = W[a]
  BY <1>5, <1>10 DEF Without
<1>12. Outs(W, Y, p, credit', ret')
  <2>1. o.c = [a \in Addr |-> o.c[a]]
    BY <1>6
  <2>2. o.c = [a \in Addr |-> IF p \in W[a].mem THEN 1 ELSE 0]
    BY <1>11, <2>1
  <2> HIDE DEF Y
  <2>3. (\A a \in Addr : p \notin W[a].mem) => ret' = ENULL
    BY <1>4, <1>11
  <2>4. (\E a \in Addr : p \in W[a].mem) => ret' = p
    BY <1>4, <1>11
  <2> QED BY <1>4, <2>2, <2>3, <2>4 DEF Outs, Y
<1>13. Y \in [Addr -> Fifo]
  <2>1. \A f \in Fifo : Remove(f, {p}) \in Fifo
    BY DEF Fifo, Remove
  <2> QED BY <1>9, <2>1 DEF Without
<1>14. /\ Active(S) \in SUBSET Desc
       /\ \A d \in Desc : /\ S.link[d] \in Fifo /\ Ordered(S.link[d])
                          /\ d \in Active(S) <=> S.link[d].mem # {}
  BY <1>5, GoodFields
<1> HIDE DEF S, Y
<1>15. \A d \in Desc : d \in Active(S) => d \in M
  BY <1>2, <1>5, <1>14 DEF Remove
<1> HIDE DEF Active
<1>16. ASSUME NEW d \in M PROVE Y[semd.addr[d]] = S.link[d]
  <2>1. d \in Desc /\ semd.addr[d] \in Addr /\ W[semd.addr[d]] = semd.link[d]
    BY <1>2, <1>9
  <2>2. CASE p \in semd.link[d].mem
    <3>1. S.link[d] = Remove(semd.link[d], {p})
      BY <1>5, <2>1, <2>2
    <3> QED BY <1>11, <2>1, <2>2, <3>1
  <2>3. CASE p \notin semd.link[d].mem
    <3>1. S.link[d] = semd.link[d]
      BY <1>5, <2>1, <2>3
    <3> QED BY <1>11, <2>1, <2>3, <3>1
  <2> QED BY <2>2, <2>3
<1>17. \A d \in Active(S) : Y[S.addr[d]] = S.link[d]
  BY <1>5, <1>14, <1>15, <1>16
<1>18. ASSUME NEW a \in Addr, \A d \in Active(S) : S.addr[d] # a PROVE Y[a] = EmptyFifo
  <2>1. CASE \A d \in M : semd.addr[d] # a
    BY <1>9, <1>11, <2>1, EmptyFifoOrdered
  <2>2. ASSUME NEW d \in M, semd.addr[d] = a PROVE Y[a] = EmptyFifo
    <3>1. d \notin Active(S)
      BY <1>5, <1>18, <2>2
    <3>2. S.link[d] = EmptyFifo
      BY <1>2, <1>14, <3>1, NobodyIsEmpty
    <3> QED BY <1>16, <2>2, <3>2
  <2> QED BY <2>1, <2>2
<1>19. Stands(S, Y)
  BY <1>13, <1>17, <1>18 DEF Stands
<1>20. Good(semd', semvec', Y)
  BY <1>4, <1>5, <1>7, <1>8, <1>19 DEF Good
<1> QED BY <1>12, <1>20

(* The number of the queues that are not empty. *)
LEMMA ActiveCount ==
  ASSUME NEW S, GoodLists(S), NEW W, Stands(S, W)
  PROVE  Cardinality({b \in Addr : W[b].mem # {}}) = Cardinality(Desc) <=> Active(S) = Desc
PROOF
<1> DEFINE A == Active(S)
           X == {b \in Addr : W[b].mem # {}}
           f == [d \in A |-> S.addr[d]]
<1>1. /\ A \in SUBSET Desc
      /\ \A d \in A : S.addr[d] \in Addr
      /\ \A d, e \in A : S.addr[d] = S.addr[e] => d = e
      /\ \A d \in Desc : d \in A <=> S.link[d].mem # {}
  BY GoodFields
<1>2. /\ \A d \in A : W[S.addr[d]] = S.link[d]
      /\ \A a \in Addr : (\A d \in A : S.addr[d] # a) => W[a] = EmptyFifo
  BY DEF Stands
<1>3. IsFiniteSet(Desc)
  BY Sizes
<1> HIDE DEF A
<1>4. \A d \in A : S.addr[d] \in X
  BY <1>1, <1>2
<1>5. \A b \in X : \E d \in A : S.addr[d] = b
  BY <1>2, EmptyFifoOrdered
<1> HIDE DEF X
<1>6. f \in Bijection(A, X)
  BY <1>1, <1>4, <1>5 DEF Bijection, Injection, Surjection, IsInjective
<1>7. IsFiniteSet(A) /\ (Cardinality(Desc) = Cardinality(A) => Desc = A)
  BY <1>1, <1>3, FS_Subset
<1>8. Cardinality(X) = Cardinality(A)
  <2>1. ExistsBijection(A, X)
    BY <1>6 DEF ExistsBijection
  <2> QED BY <1>7, <2>1, FS_Bijection
<1> QED BY <1>7, <1>8 DEF X, A

-----------------------------------------------------------------------------
(* The operators of the promise are those of Fifo. *)
LEMMA SameOperators ==
  /\ Promise!EmptyFifo = EmptyFifo
  /\ \A f : Promise!Front(f) = Front(f)
  /\ \A f, p : Promise!Insert(f, p) = Insert(f, p)
  /\ \A f, K : Promise!Remove(f, K) = Remove(f, K)
  /\ \A S : Promise!Cardinality(S) = Cardinality(S)
PROOF
<1>1. Promise!EmptyFifo = EmptyFifo
  BY Zenon DEF Promise!EmptyFifo, EmptyFifo
<1>2. \A f : Promise!Front(f) = Front(f)
  BY Zenon DEF Promise!Front, Front
<1>3. \A f, p : Promise!Insert(f, p) = Insert(f, p)
  BY Zenon DEF Promise!Insert, Insert
<1>4. \A f, K : Promise!Remove(f, K) = Remove(f, K)
  BY Zenon DEF Promise!Remove, Remove
<1>5. \A S : Promise!Cardinality(S) = Cardinality(S)
  BY Zenon DEF Promise!Cardinality, Cardinality
<1> QED BY <1>1, <1>2, <1>3, <1>4, <1>5

LEMMA ListInvGood ==
  ASSUME ListInv
  PROVE  Good(semd, semvec, waitingOf) /\ credit \in [Addr -> Nat] /\ ret \in Proc \cup BOOLEAN \cup {ENULL}
PROOF
<1>1. GoodLists(semd)
  BY DEF ListInv, GoodLists
<1>2. Stands(semd, waitingOf)
  BY <1>1, WaitingStands
<1> QED BY <1>1, <1>2 DEF ListInv, Good

LEMMA GoodListInv ==
  ASSUME NEW W, Good(semd', semvec', W), credit' \in [Addr -> Nat], ret' \in Proc \cup BOOLEAN \cup {ENULL}
  PROVE  ListInv' /\ waitingOf' = W
PROOF
<1>1. GoodLists(semd') /\ Stands(semd', W) /\ semvec' \in [Proc -> Vector]
      /\ \A q \in Proc : Waits(semd', Active(semd'), q, semvec'[q])
  BY DEF Good
<1>2. ListInv'
  BY <1>1 DEF ListInv, GoodLists
<1>3. (GoodLists(semd) => Stands(semd, waitingOf))'
  BY WaitingStands, PTL
<1>4. Stands(semd', waitingOf')
  BY <1>1, <1>3
<1>5. waitingOf' = W
  BY <1>1, <1>4, StandsOnce
<1> QED BY <1>2, <1>5

(* One step, with the queues it leaves and the invariant. *)
LEMMA ListStep ==
  ASSUME ListInv, [Next]_vars
  PROVE  ListInv' /\ [Promise!Next]_(Promise!vars)
PROOF
<1> DEFINE W == waitingOf
<1>1. Good(semd, semvec, W) /\ credit \in [Addr -> Nat] /\ ret \in Proc \cup BOOLEAN \cup {ENULL}
  BY ListInvGood
<1>2. W \in [Addr -> Fifo]
  BY <1>1 DEF Good, Stands
<1>3. NoCredit \in [Addr -> Nat]
  BY DEF NoCredit
<1>4. ASSUME NEW a \in Addr, removeBlocked(a) PROVE ListInv' /\ Promise!Next
  <2>1. PICK Y : Good(semd', semvec', Y) /\ Removes(W, Y, a, credit', ret')
    <3> HIDE DEF W
    <3> QED BY <1>1, <1>4, RemoveStep
  <2>2. /\ credit' = NoCredit
        /\ W[a].mem = {} => ret' = ENULL /\ Y = W
        /\ W[a].mem # {} => ret' = Front(W[a]) /\ ret' \in Proc /\ Y = [W EXCEPT ![a] = Remove(@, {ret'})]
    BY <2>1 DEF Removes
  <2>3. ListInv' /\ waitingOf' = Y
    BY <1>3, <2>1, <2>2, GoodListInv
  <2>4. Promise!removeBlocked(a)
    <3>1. credit' = [b \in Addr |-> 0]
      BY <2>2 DEF NoCredit
    <3>2. CASE W[a].mem = {}
      BY <2>2, <2>3, <3>1, <3>2 DEF Promise!removeBlocked
    <3>3. CASE W[a].mem # {}
      <4>1. ret' = Promise!Front(W[a])
        BY <2>2, <3>3, SameOperators
      <4>2. waitingOf' = [W EXCEPT ![a] = Promise!Remove(@, {ret'})]
        BY <2>2, <2>3, <3>3, SameOperators
      <4> QED BY <3>1, <3>3, <4>1, <4>2 DEF Promise!removeBlocked
    <3> QED BY <3>2, <3>3
  <2> QED BY <2>3, <2>4 DEF Promise!Next
<1>5. ASSUME NEW a \in Addr, NEW p \in Proc, insertBlocked(a, p) PROVE ListInv' /\ Promise!Next
  <2> DEFINE full == Active(semd) = Desc
             n == Cardinality({b \in Addr : W[b].mem # {}})
  <2>1. PICK Y : Good(semd', semvec', Y) /\ Inserts(W, Y, full, a, p, credit', ret')
    <3> HIDE DEF W
    <3> QED BY <1>1, <1>5, InsertStep
  <2>2. /\ p \notin W[a].mem /\ credit' = NoCredit
        /\ W[a].mem = {} /\ full => ret' = TRUE /\ Y = W
        /\ W[a].mem # {} \/ ~ full => ret' = FALSE /\ Y = [W EXCEPT ![a] = Insert(@, p)]
    BY <2>1 DEF Inserts
  <2>3. ListInv' /\ waitingOf' = Y
    <3>1. ret' \in Proc \cup BOOLEAN \cup {ENULL}
      BY <2>2
    <3> QED BY <1>3, <2>1, <2>2, <3>1, GoodListInv
  <2>4. n = Cardinality(Desc) <=> full
    <3> HIDE DEF W
    <3> QED BY <1>1, ActiveCount DEF Good
  <2>5. Promise!Cardinality({b \in Addr : W[b].mem # {}}) = n
        /\ Promise!Cardinality(Desc) = Cardinality(Desc)
    BY SameOperators
  <2>6. Promise!insertBlocked(a, p)
    <3> HIDE DEF n, full
    <3>1. credit' = [b \in Addr |-> 0]
      BY <2>2 DEF NoCredit
    <3>2. CASE W[a].mem = {} /\ full
      BY <2>2, <2>3, <2>4, <2>5, <3>1, <3>2 DEF Promise!insertBlocked
    <3>3. CASE W[a].mem # {} \/ ~ full
      <4>1. waitingOf' = [W EXCEPT ![a] = Promise!Insert(@, p)]
        BY <2>2, <2>3, <3>3, SameOperators
      <4> QED BY <2>2, <2>4, <2>5, <3>1, <3>3, <4>1 DEF Promise!insertBlocked
    <3> QED BY <3>2, <3>3
  <2> QED BY <2>3, <2>6 DEF Promise!Next
<1>6. ASSUME NEW p \in Proc, outBlocked(p) PROVE ListInv' /\ Promise!Next
  <2> DEFINE on == {a \in Addr : p \in W[a].mem}
  <2>1. PICK Y : Good(semd', semvec', Y) /\ Outs(W, Y, p, credit', ret')
    <3> HIDE DEF W
    <3> QED BY <1>1, <1>6, OutStep
  <2>2. /\ Y = Without(W, p)
        /\ credit' = [a \in Addr |-> IF p \in W[a].mem THEN 1 ELSE 0]
        /\ (\A a \in Addr : p \notin W[a].mem) => ret' = ENULL
        /\ (\E a \in Addr : p \in W[a].mem) => ret' = p
    BY <2>1 DEF Outs
  <2>3. ListInv' /\ waitingOf' = Y
    <3>1. ret' \in Proc \cup BOOLEAN \cup {ENULL}
      BY <2>2
    <3>2. credit' \in [Addr -> Nat]
      BY <2>2
    <3> QED BY <2>1, <3>1, <3>2, GoodListInv
  <2>4. Promise!outBlocked(p)
    <3>1. waitingOf' = [a \in Addr |-> IF a \in on THEN Promise!Remove(W[a], {p}) ELSE W[a]]
      <4>1. \A a \in Addr : a \in on <=> p \in W[a].mem
        OBVIOUS
      <4>2. \A a \in Addr : Promise!Remove(W[a], {p}) = Remove(W[a], {p})
        BY SameOperators
      <4> HIDE DEF on, W
      <4> QED BY <2>2, <2>3, <4>1, <4>2 DEF Without
    <3>2. credit' = [a \in Addr |-> IF a \in on THEN 1 ELSE 0]
      <4>1. \A a \in Addr : a \in on <=> p \in W[a].mem
        OBVIOUS
      <4> HIDE DEF on, W
      <4> QED BY <2>2, <4>1
    <3>3. ret' = IF on = {} THEN ENULL ELSE p
      <4>1. on = {} <=> \A a \in Addr : p \notin W[a].mem
        OBVIOUS
      <4> HIDE DEF on, W
      <4> QED BY <2>2, <4>1
    <3> QED BY <3>1, <3>2, <3>3, Zenon DEF Promise!outBlocked
  <2> QED BY <2>3, <2>4 DEF Promise!Next
<1>7. CASE UNCHANGED vars
  <2>1. UNCHANGED <<semd, semvec, credit, ret>>
    BY <1>7 DEF vars
  <2>2. Good(semd', semvec', W)
    BY <1>1, <2>1
  <2>3. ListInv' /\ waitingOf' = W
    BY <1>1, <2>1, <2>2, GoodListInv
  <2> QED BY <2>1, <2>3 DEF Promise!vars
<1> HIDE DEF W
<1> QED BY <1>4, <1>5, <1>6, <1>7, Zenon DEF Next

-----------------------------------------------------------------------------
LEMMA InitLists ==
  ASSUME Init
  PROVE  ListInv /\ waitingOf = [a \in Addr |-> EmptyFifo]
PROOF
<1> DEFINE g == [d \in Desc |-> d]
<1>1. /\ semd.next = FreeNext /\ semd.prev = [d \in Desc |-> IF d = 0 THEN ENULL ELSE d - 1]
      /\ semd.addr = [d \in Desc |-> ENULL] /\ semd.link = [d \in Desc |-> EmptyFifo]
      /\ semd.head = ENULL /\ semd.free = 0
      /\ semvec = [p \in Proc |-> [s \in 1 .. SEMMAX |-> ENULL]]
      /\ credit = [a \in Addr |-> 0] /\ ret = ENULL
      /\ semd = [next |-> semd.next, prev |-> semd.prev, addr |-> semd.addr,
                 link |-> semd.link, head |-> semd.head, free |-> semd.free]
  BY DEF Init
<1>2. NumDesc \in Nat \ {0, 1} /\ ENULL \notin Desc /\ 0 \in Desc /\ ENULL \notin Addr
  BY Sizes
<1>3. \A d \in Desc : /\ d = NumDesc - 1 => FreeNext[d] = ENULL
                      /\ d # NumDesc - 1 => FreeNext[d] = d + 1 /\ d + 1 \in Desc
  BY <1>2 DEF FreeNext, Desc
<1>4. FreeNext \in [Desc -> Desc \cup {ENULL}]
  BY <1>3 DEF FreeNext
<1>5. [d \in Desc |-> IF d = 0 THEN ENULL ELSE d - 1] \in [Desc -> Desc \cup {ENULL}]
  BY <1>2 DEF Desc
<1>6. semd \in Table
  <2>1. semd.next \in [Desc -> Desc \cup {ENULL}] /\ semd.prev \in [Desc -> Desc \cup {ENULL}]
    BY <1>1, <1>4, <1>5
  <2>2. semd.addr \in [Desc -> Addr \cup {ENULL}] /\ semd.link \in [Desc -> Fifo]
    BY <1>1, EmptyFifoOrdered
  <2>3. semd.head \in Desc \cup {ENULL} /\ semd.free \in Desc \cup {ENULL}
    BY <1>1, <1>2
  <2> QED BY <1>1, <2>1, <2>2, <2>3 DEF Table
<1>7. Active(semd) = {} /\ \A d \in Desc : Ordered(semd.link[d])
  BY <1>1, EmptyFifoOrdered DEF Active
<1>8. Follows(Desc, g, 0, FreeNext)
  <2>1. \A d \in Desc : g[d] = d /\ d \in Int /\ 0 <= d /\ d <= NumDesc - 1
    BY <1>2 DEF Desc
  <2>2. \A d \in Desc :
          /\ FreeNext[d] = ENULL => \A e \in Desc : g[e] <= g[d]
          /\ FreeNext[d] # ENULL => /\ FreeNext[d] \in Desc /\ g[d] < g[FreeNext[d]]
                                    /\ \A e \in Desc : g[e] <= g[d] \/ g[FreeNext[d]] <= g[e]
    <3> HIDE DEF g
    <3> QED BY <1>2, <1>3, <2>1
  <2>3. \A d \in Desc : g[d] \in Int /\ (\A e \in Desc : g[d] = g[e] => d = e) /\ g[0] <= g[d]
    <3> HIDE DEF g
    <3> QED BY <1>2, <2>1
  <2> HIDE DEF g
  <2> QED BY <1>2, <2>2, <2>3 DEF Follows
<1>9. Follows({}, semd.addr, semd.head, semd.next) /\ LeadsBack({}, semd.head, semd.next, semd.prev)
  BY <1>1 DEF Follows, LeadsBack
<1>10. g \in [Desc -> Int] /\ Listed(semd, {}, g)
  <2>1. Desc \ {} = Desc /\ g \in [Desc -> Int]
    BY <1>2 DEF Desc
  <2> HIDE DEF g
  <2> QED BY <1>1, <1>6, <1>8, <1>9, <2>1 DEF Listed
<1>11. GoodLists(semd)
  <2> HIDE DEF g
  <2> QED BY <1>7, <1>10 DEF GoodLists
<1>12. semvec \in [Proc -> Vector] /\ \A p \in Proc : \A s \in 1 .. SEMMAX : semvec[p][s] = ENULL
  BY <1>1 DEF Vector
<1>13. \A p \in Proc : Waits(semd, {}, p, semvec[p])
  BY <1>2, <1>12 DEF Waits
<1>14. ListInv
  BY <1>1, <1>7, <1>11, <1>12, <1>13 DEF ListInv, GoodLists
<1>15. Stands(semd, waitingOf)
  BY <1>11, WaitingStands
<1>16. waitingOf = [a \in Addr |-> EmptyFifo]
  <2>1. waitingOf \in [Addr -> Fifo] /\ \A a \in Addr : waitingOf[a] = EmptyFifo
    BY <1>7, <1>15 DEF Stands
  <2> QED BY <2>1
<1> QED BY <1>14, <1>16

(* Every link of every descriptor leads where the queues that are not empty *)
(* say, and every vector has in it the semaphores its process waits for.    *)
THEOREM ListsAlwaysRight == Spec => []ListInv
PROOF
<1>1. Init => ListInv
  BY InitLists
<1>2. ListInv /\ [Next]_vars => ListInv'
  BY ListStep
<1> QED BY <1>1, <1>2, PTL DEF Spec

(* The calls of asl.c do to its lists what AslSpec says they do to one      *)
(* queue for every semaphore: the sorted list, its two directions, the free *)
(* list and the vectors give every answer that AslSpec promises.            *)
THEOREM ListsImplementQueues == Spec => ImplementsQueues
PROOF
<1>1. Init => Promise!Init
  <2> SUFFICES ASSUME Init PROVE Promise!Init
    OBVIOUS
  <2>1. waitingOf = [a \in Addr |-> EmptyFifo] /\ EmptyFifo = Promise!EmptyFifo
    BY InitLists, SameOperators
  <2>2. credit = [a \in Addr |-> 0] /\ ret = ENULL
    BY DEF Init
  <2> QED BY <2>1, <2>2 DEF Promise!Init
<1>2. ListInv /\ [Next]_vars => [Promise!Next]_(Promise!vars)
  BY ListStep
<1> QED BY <1>1, <1>2, ListsAlwaysRight, PTL DEF Spec, ImplementsQueues, Promise!Spec

(* The table, the vectors and the results are of their types.               *)
THEOREM ListsTypeCorrect == Spec => []TypeOK
PROOF
<1>1. ListInv => TypeOK
  <2> SUFFICES ASSUME ListInv PROVE TypeOK
    OBVIOUS
  <2>1. GoodLists(semd)
    BY DEF ListInv, GoodLists
  <2>2. semd \in Table
    BY <2>1, GoodFields
  <2> QED BY <2>2 DEF TypeOK, ListInv
<1> QED BY <1>1, ListsAlwaysRight, PTL

LEMMA BothLists ==
  ASSUME ListInv
  PROVE  /\ List(semd, semd.head) = Active(semd)
         /\ List(semd, semd.free) = Desc \ Active(semd)
PROOF
<1>1. PICK g \in [Desc -> Int] : Listed(semd, Active(semd), g)
  BY DEF ListInv
<1>2. IsList(semd, Active(semd), semd.addr, semd.head) /\ IsList(semd, Desc \ Active(semd), g, semd.free)
  BY <1>1 DEF Listed, IsList
<1> QED BY <1>2, WalkMeets

(* The active list is sorted by address and can be followed both ways, as   *)
(* detach and insertActive need it (asl.c:213-215).                         *)
THEOREM SortedAlways == Spec => []SortedBothWays
PROOF
<1>1. ListInv => SortedBothWays
  <2> SUFFICES ASSUME ListInv PROVE SortedBothWays
    OBVIOUS
  <2> DEFINE M == Active(semd)
  <2>1. PICK g \in [Desc -> Int] : Listed(semd, M, g)
    BY DEF ListInv
  <2>2. Follows(M, semd.addr, semd.head, semd.next) /\ LeadsBack(M, semd.head, semd.next, semd.prev)
    BY <2>1 DEF Listed
  <2>3. List(semd, semd.head) = M
    BY BothLists
  <2> HIDE DEF M
  <2>4. semd.head # ENULL => semd.prev[semd.head] = ENULL
    BY <2>2 DEF Follows, LeadsBack
  <2>5. \A d \in M : semd.next[d] # ENULL => /\ semd.addr[d] < semd.addr[semd.next[d]]
                                             /\ semd.prev[semd.next[d]] = d
    BY <2>2, BackAndForth
  <2> QED BY <2>3, <2>4, <2>5 DEF SortedBothWays
<1> QED BY <1>1, ListsAlwaysRight, PTL

(* No call loses a descriptor, or leaves one on the active list for which   *)
(* nobody waits.                                                            *)
THEOREM NoDescriptorLost == Spec => []DescriptorsConserved
PROOF
<1>1. ListInv => DescriptorsConserved
  <2> SUFFICES ASSUME ListInv PROVE DescriptorsConserved
    OBVIOUS
  <2>1. Active(semd) \in SUBSET Desc /\ \A d \in Desc : d \in Active(semd) <=> semd.link[d].mem # {}
    BY DEF Active
  <2> QED BY <2>1, BothLists DEF DescriptorsConserved
<1> QED BY <1>1, ListsAlwaysRight, PTL

(* The vector of a process has each semaphore whose queue it is on, once,   *)
(* and no other: what terminate() and a V find there is true.               *)
THEOREM VectorsTrue == Spec => []SemvecTrue
PROOF
<1>1. ListInv => SemvecTrue
  <2> SUFFICES ASSUME ListInv, NEW p \in Proc, NEW a \in Addr
               PROVE  Cardinality({s \in 1 .. SEMMAX : semvec[p][s] = a}) =
                        Cardinality({d \in Active(semd) : semd.addr[d] = a /\ p \in semd.link[d].mem})
    BY BothLists DEF SemvecTrue
  <2> DEFINE X == {s \in 1 .. SEMMAX : semvec[p][s] = a}
             Y == {d \in Active(semd) : semd.addr[d] = a /\ p \in semd.link[d].mem}
  <2>1. GoodLists(semd)
    BY DEF ListInv, GoodLists
  <2>2. \A d, e \in Active(semd) : semd.addr[d] = semd.addr[e] => d = e
    BY <2>1, GoodFields
  <2>3. Waits(semd, Active(semd), p, semvec[p])
    BY DEF ListInv
  <2>4. a # ENULL
    BY Sizes
  <2>5. \A s, t \in X : s = t
    BY <2>3, <2>4 DEF Waits
  <2>6. \A d, e \in Y : d = e
    BY <2>2
  <2>7. X # {} <=> Y # {}
    BY <2>3 DEF Waits
  <2> HIDE DEF X, Y
  <2>8. ASSUME X = {} PROVE Cardinality(X) = Cardinality(Y)
    BY <2>7, <2>8
  <2>9. ASSUME X # {} PROVE Cardinality(X) = Cardinality(Y)
    <3>1. PICK s \in X, d \in Y : TRUE
      BY <2>7, <2>9
    <3>2. X = {s} /\ Y = {d}
      BY <2>5, <2>6, <3>1
    <3>3. Cardinality({s}) = 1 /\ Cardinality({d}) = 1
      BY FS_Singleton
    <3> QED BY <3>2, <3>3
  <2> QED BY <2>8, <2>9 DEF X, Y
<1> QED BY <1>1, ListsAlwaysRight, PTL
=============================================================================
