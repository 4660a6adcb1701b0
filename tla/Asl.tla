--------------------------------- MODULE Asl ---------------------------------
(***************************************************************************)
(* The active semaphore list of src/queues/asl.c as it is in memory: a     *)
(* list of descriptors, linked in both directions and sorted by the        *)
(* address of the semaphore, a free list of descriptors, and in every      *)
(* process table entry the vector of the semaphores it waits for.  The     *)
(* queue of a descriptor is taken as procq.c promises it (ProcQueueSpec).  *)
(***************************************************************************)
EXTENDS Integers, Fifo, FiniteSetsExt

CONSTANTS
  Addr,       \* the addresses of semaphores
  NumDesc,    \* MAXPROC, the length of semdTable
  SEMMAX,     \* the length of a semvec
  ENULL

Desc == 0 .. NumDesc - 1

ASSUME AddrAssumption == IsFiniteSet(Addr) /\ Addr \subseteq Int /\ ENULL \notin Addr \cup Desc \cup Proc
ASSUME SizeAssumption == NumDesc \in Nat \ {0, 1} /\ SEMMAX \in Nat
ASSUME ProcAssumption == IsFiniteSet(Proc)

VARIABLES
  semd,       \* semdTable with semd_h (head) and semdFree_h (free)
  semvec,     \* proc_t.semvec
  credit,     \* how often the last call has incremented every semaphore
  ret         \* the result of the last call

vars == <<semd, semvec, credit, ret>>

Table == [next : [Desc -> Desc \cup {ENULL}], prev : [Desc -> Desc \cup {ENULL}],
          addr : [Desc -> Addr \cup {ENULL}], link : [Desc -> Fifo],
          head : Desc \cup {ENULL}, free : Desc \cup {ENULL}]

Vector == [1 .. SEMMAX -> Addr \cup {ENULL}]

TypeOK ==
  /\ semd \in Table
  /\ semvec \in [Proc -> Vector]
  /\ credit \in [Addr -> Nat]
  /\ ret \in Proc \cup BOOLEAN \cup {ENULL}

-----------------------------------------------------------------------------
(* The descriptors met from d on, through s_next; ENULL after the last.    *)
Walk(S, d) ==
  LET w[n \in 0 .. NumDesc] ==
        IF n = 0 THEN d ELSE IF w[n - 1] = ENULL THEN ENULL ELSE S.next[w[n - 1]]
  IN  w

List(S, d) == {Walk(S, d)[n] : n \in 0 .. NumDesc - 1} \ {ENULL}

(* getSemaphoreFromActiveList; the addresses in the list are distinct.     *)
Lookup(S, a) ==
  LET found == {d \in List(S, S.head) : S.addr[d] = a}
  IN  IF found = {} THEN ENULL ELSE CHOOSE d \in found : TRUE

Reset(S, d) == [S EXCEPT !.next[d] = ENULL, !.prev[d] = ENULL, !.addr[d] = ENULL,
                         !.link[d] = EmptyFifo]

allocate(S) == Reset([S EXCEPT !.free = S.next[@]], S.free)

(* Mutant: an address below the first one is not treated apart. *)
insertSorted(S, d) ==
  LET w == Walk(S, S.head)
      n == Min({m \in 1 .. NumDesc : w[m] = ENULL \/ S.addr[w[m]] >= S.addr[d]})
      T == [S EXCEPT !.next[w[n - 1]] = d, !.next[d] = w[n], !.prev[d] = w[n - 1]]
  IN  IF S.head = ENULL THEN [S EXCEPT !.head = d]
      ELSE IF w[n] = ENULL THEN T ELSE [T EXCEPT !.prev[w[n]] = d]

(* d goes before the first descriptor whose address is not smaller.        *)
insertActive(S, d) ==
  LET w == Walk(S, S.head)
      n == Min({m \in 0 .. NumDesc : w[m] = ENULL \/ S.addr[w[m]] >= S.addr[d]})
      before == IF n = 0 THEN ENULL ELSE w[n - 1]
      T == [S EXCEPT !.next[d] = w[n], !.prev[d] = before]
      U == IF before = ENULL THEN [T EXCEPT !.head = d] ELSE [T EXCEPT !.next[before] = d]
  IN  IF w[n] = ENULL THEN U ELSE [U EXCEPT !.prev[w[n]] = d]

(* d leaves the list in both directions; a new head has no predecessor.    *)
detach(S, d) ==
  LET T == IF d = S.head THEN [S EXCEPT !.head = S.next[d]]
           ELSE [S EXCEPT !.next[S.prev[d]] = S.next[d]]
      before == IF d = S.head THEN ENULL ELSE S.prev[d]
  IN  IF S.next[d] = ENULL THEN T ELSE [T EXCEPT !.prev[S.next[d]] = before]

returnToFreeList(S, d) == [Reset(S, d) EXCEPT !.next[d] = S.free, !.free = d]

(* Mutant: a descriptor stays on the active list. *)
ReleaseNever(S, d) == S

(* A descriptor whose queue has become empty is freed. *)
Release(S, d) ==
  IF S.link[d].mem = {} THEN returnToFreeList(detach(S, d), d) ELSE S

(* Mutant: the loop does not stop at the first place. *)
ReplaceAll(v, a, b) == [s \in DOMAIN v |-> IF v[s] = a THEN b ELSE v[s]]

(* The first place of the vector that holds a is given b. *)
Replace(v, a, b) ==
  LET places == {s \in DOMAIN v : v[s] = a}
  IN  IF places = {} THEN v ELSE [v EXCEPT ![Min(places)] = b]

-----------------------------------------------------------------------------
(* The caller puts no process twice on a queue, and on fewer than SEMMAX    *)
(* queues (insertProc panics).                                              *)
insertBlocked(a, p) ==
  LET d == Lookup(semd, a)
      T == IF d # ENULL THEN semd ELSE [allocate(semd) EXCEPT !.addr[semd.free] = a]
      e == IF d # ENULL THEN d ELSE semd.free
      U == [T EXCEPT !.link[e] = Insert(@, p)]
  IN  /\ d # ENULL => p \notin semd.link[d].mem
      /\ \E s \in 1 .. SEMMAX : semvec[p][s] = ENULL
      /\ IF d = ENULL /\ semd.free = ENULL
         THEN ret' = TRUE /\ UNCHANGED <<semd, semvec>>
         ELSE /\ ret' = FALSE
              /\ semd' = IF d # ENULL THEN U ELSE insertActive(U, e)
              /\ semvec' = [semvec EXCEPT ![p] = Replace(@, ENULL, a)]
      /\ credit' = [b \in Addr |-> 0]

removeBlocked(a) ==
  LET d == Lookup(semd, a)
      p == Front(semd.link[d])
  IN  /\ IF d = ENULL THEN ret' = ENULL /\ UNCHANGED <<semd, semvec>>
         ELSE /\ ret' = p
              /\ semd' = Release([semd EXCEPT !.link[d] = Remove(@, {p})], d)
              /\ semvec' = [semvec EXCEPT ![p] = Replace(@, a, ENULL)]
      /\ credit' = [b \in Addr |-> 0]

(* Mutant: the successor is read after the descriptor may have been freed. *)
SuccessorAfter(S, T, d) == T.next[d]

(* The loop of outBlocked goes on at the successor that d had before. *)
Successor(S, T, d) == S.next[d]

(* One turn of the loop of outBlocked: r has the lists, the vector of p, the *)
(* increments done and the descriptor the loop is at.                        *)
Turn(p, r) ==
  LET d == r.at
      T == Release([r.S EXCEPT !.link[d] = Remove(@, {p})], d)
  IN  IF d = ENULL THEN r
      ELSE IF p \notin r.S.link[d].mem THEN [r EXCEPT !.at = r.S.next[d]]
      ELSE [S |-> T, v |-> Replace(r.v, r.S.addr[d], ENULL),
            c |-> [r.c EXCEPT ![r.S.addr[d]] = @ + 1], at |-> Successor(r.S, T, d)]

(* The loop, which ends after at most as many turns as there are descriptors. *)
Out(p) ==
  LET o[n \in 0 .. NumDesc] ==
        IF n = 0 THEN [S |-> semd, v |-> semvec[p], c |-> [b \in Addr |-> 0], at |-> semd.head]
        ELSE Turn(p, o[n - 1])
  IN  o[NumDesc]

outBlocked(p) ==
  /\ semd' = Out(p).S
  /\ semvec' = [semvec EXCEPT ![p] = Out(p).v]
  /\ credit' = Out(p).c
  /\ ret' = IF \A b \in Addr : Out(p).c[b] = 0 THEN ENULL ELSE p

(* Mutant: the last descriptor has a successor, too. *)
FreeNextAll == [d \in Desc |-> d + 1]

(* initSemd: all the descriptors are on the free list, in the table's order. *)
FreeNext == [d \in Desc |-> IF d = NumDesc - 1 THEN ENULL ELSE d + 1]

Init ==
  /\ semd = [next |-> FreeNext,
             prev |-> [d \in Desc |-> IF d = 0 THEN ENULL ELSE d - 1],
             addr |-> [d \in Desc |-> ENULL], link |-> [d \in Desc |-> EmptyFifo],
             head |-> ENULL, free |-> 0]
  /\ semvec = [p \in Proc |-> [s \in 1 .. SEMMAX |-> ENULL]]
  /\ credit = [a \in Addr |-> 0]
  /\ ret = ENULL

Next == \/ \E a \in Addr : removeBlocked(a)
        \/ \E a \in Addr, p \in Proc : insertBlocked(a, p)
        \/ \E p \in Proc : outBlocked(p)

Spec == Init /\ [][Next]_vars

-----------------------------------------------------------------------------
(* The active list is sorted by address, and the links in its two           *)
(* directions agree (asl.c:213-215 and semd_t).                             *)
SortedBothWays ==
  LET active == List(semd, semd.head)
  IN  /\ semd.head # ENULL => semd.prev[semd.head] = ENULL
      /\ \A d \in active : semd.next[d] # ENULL =>
           /\ semd.addr[d] < semd.addr[semd.next[d]]
           /\ semd.prev[semd.next[d]] = d

(* No descriptor is lost: each is on one of the two lists, on the active    *)
(* one exactly if somebody waits.                                           *)
DescriptorsConserved ==
  LET active == List(semd, semd.head)
      free == List(semd, semd.free)
  IN  /\ active \cap free = {} /\ active \cup free = Desc
      /\ \A d \in Desc : d \in active <=> semd.link[d].mem # {}

(* semvec is the "vector of active semaphores for this entry" (procq.h:25). *)
SemvecTrue ==
  \A p \in Proc, a \in Addr :
    Cardinality({s \in 1 .. SEMMAX : semvec[p][s] = a}) =
      Cardinality({d \in List(semd, semd.head) : semd.addr[d] = a /\ p \in semd.link[d].mem})

(* The queue that each semaphore has in the list. *)
waitingOf == [a \in Addr |-> LET d == Lookup(semd, a)
                             IN  IF d = ENULL THEN EmptyFifo ELSE semd.link[d]]

(* The list is an implementation of one queue for every semaphore.          *)
Promise == INSTANCE AslSpec WITH waiting <- waitingOf

ImplementsQueues == Promise!Spec
=============================================================================
