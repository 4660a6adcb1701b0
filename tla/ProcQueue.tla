------------------------------ MODULE ProcQueue ------------------------------
(***************************************************************************)
(* The process queues of src/queues/procq.c as they are in memory: circular *)
(* lists through the entries of procTable.  A queue is known by its tail;  *)
(* an entry is on a queue with one of its SEMMAX links, and every link     *)
(* says in which link of the next entry the queue goes on.                 *)
(***************************************************************************)
EXTENDS Integers, FiniteSets, FiniteSetsExt

CONSTANTS
  MAXPROC, SEMMAX,
  Queue,      \* the ready queue and the queues of the semaphores
  SlotOf,     \* the link that the callers' use of a queue leads to, or Any
  Any

Proc  == 0 .. MAXPROC - 1
Slot  == 0 .. SEMMAX - 1
ENULL == -1
Null  == [next |-> ENULL, index |-> ENULL]
Link  == [next : Proc \cup {ENULL}, index : Slot \cup {ENULL}]

ASSUME SizeAssumption == MAXPROC \in Nat \ {0} /\ SEMMAX \in Nat \ {0}
ASSUME SlotAssumption == SlotOf \in [Queue -> Slot \cup {Any}] /\ Any \notin Slot \cup {ENULL}

VARIABLES
  tail,       \* the proc_link of every queue
  link,       \* p_link of every entry
  qcount,
  procFree_h,
  ret         \* the result of the last call, ENULL if it has none

vars == <<tail, link, qcount, procFree_h, ret>>

TypeOK ==
  /\ tail \in [Queue -> Link]
  /\ link \in [Proc -> [Slot -> Link]]
  /\ qcount \in [Proc -> 0 .. SEMMAX]
  /\ procFree_h \in Proc \cup {ENULL}
  /\ ret \in Proc \cup {ENULL}

-----------------------------------------------------------------------------
Follow(l) == IF l.next = ENULL \/ l.index = ENULL THEN Null ELSE link[l.next][l.index]

(* The way round queue k: its tail, its head, the entry after the head...  *)
Walk(k) == LET w[n \in 0 .. MAXPROC] == IF n = 0 THEN tail[k] ELSE Follow(w[n - 1]) IN w

(* The way down the free list, through the links 0. *)
FreeWalk ==
  LET f[n \in 0 .. MAXPROC] ==
        IF n = 0 THEN procFree_h
        ELSE IF f[n - 1] = ENULL THEN ENULL ELSE link[f[n - 1]][0].next
  IN  f

Members(k) == {Walk(k)[n].next : n \in 1 .. MAXPROC} \ {ENULL}
FreeList   == {FreeWalk[n] : n \in 0 .. MAXPROC - 1} \ {ENULL}

findAvailableQueueSlot(p) ==
  LET idle == {s \in Slot : link[p][s].next = ENULL}
  IN  IF idle = {} THEN ENULL ELSE Min(idle)

-----------------------------------------------------------------------------
SetLink(L, l, v) == [L EXCEPT ![l.next][l.index] = v]

(* Mutant: the link of an entry that leaves is not cleared. *)
Kept(L, l) == L

Cleared(L, l) == SetLink(L, l, Null)

(* p is not on queue k, and has fewer than SEMMAX queues (the code panics). *)
insertProc(k, p) ==
  /\ p \notin FreeList \cup Members(k)
  /\ qcount[p] < SEMMAX
  /\ LET l == [next |-> p, index |-> findAvailableQueueSlot(p)]
         t == tail[k]
     IN  /\ SlotOf[k] \in {l.index, Any}
         /\ link' = IF t = Null THEN SetLink(link, l, l)
                    ELSE SetLink(SetLink(link, t, l), l, Follow(t))
         /\ tail' = [tail EXCEPT ![k] = l]
  /\ qcount' = [qcount EXCEPT ![p] = @ + 1]
  /\ ret' = ENULL
  /\ UNCHANGED procFree_h

Nothing == ret' = ENULL /\ UNCHANGED <<tail, link, qcount, procFree_h>>

(* The head of k leaves: the tail's link skips it, and the link of the head *)
(* at the index of the tail's link is cleared.                              *)
TakeHead(k) ==
  LET t == tail[k]
      h == Follow(t)
  IN  /\ IF h.next = t.next
         THEN /\ link' = Cleared(link, t)
              /\ tail' = [tail EXCEPT ![k] = Null]
         ELSE /\ link' = Cleared(SetLink(link, t, Follow(h)), [h EXCEPT !.index = t.index])
              /\ UNCHANGED tail
      /\ qcount' = [qcount EXCEPT ![h.next] = @ - 1]
      /\ ret' = h.next
      /\ UNCHANGED procFree_h

removeProc(k) == IF tail[k] = Null THEN Nothing ELSE TakeHead(k)

(* Mutant: the tail pointer is left where it is. *)
OldTail(k, l, prev) == tail[k]

(* The entry before the tail becomes the tail when the tail is taken out. *)
TailWithout(k, l, prev) == IF l.next = tail[k].next THEN prev ELSE tail[k]

(* p leaves from behind the head: prev is the link that leads to its link l. *)
TakeInner(k, p) ==
  LET w == Walk(k)
      n == Min({m \in 2 .. MAXPROC : w[m].next = p})
      l == w[n]
      prev == w[n - 1]
  IN  /\ tail' = [tail EXCEPT ![k] = TailWithout(k, l, prev)]
      /\ link' = Cleared(SetLink(link, prev, Follow(l)), l)
      /\ qcount' = [qcount EXCEPT ![p] = @ - 1]
      /\ ret' = p
      /\ UNCHANGED procFree_h

outProc(k, p) ==
  IF p \notin Members(k) THEN Nothing
  ELSE IF p = Follow(tail[k]).next THEN TakeHead(k) ELSE TakeInner(k, p)

allocProc ==
  IF procFree_h = ENULL THEN Nothing
  ELSE /\ procFree_h' = link[procFree_h][0].next
       /\ link' = [link EXCEPT ![procFree_h][0] = Null]
       /\ ret' = procFree_h
       /\ UNCHANGED <<tail, qcount>>

(* Mutant: the loop stops at the first entry of the free list. *)
FirstFree == procFree_h

LastFree == FreeWalk[Max({n \in 0 .. MAXPROC : FreeWalk[n] # ENULL})]

(* killprocrecurse has taken p off its queues. *)
freeProc(p) ==
  /\ p \notin FreeList /\ qcount[p] = 0
  /\ LET L == [link EXCEPT ![p] = [s \in Slot |-> Null]]
     IN  IF procFree_h = ENULL
         THEN procFree_h' = p /\ link' = L
         ELSE link' = [L EXCEPT ![LastFree][0].next = p] /\ UNCHANGED procFree_h
  /\ qcount' = [qcount EXCEPT ![p] = 0]
  /\ ret' = ENULL
  /\ UNCHANGED tail

-----------------------------------------------------------------------------
(* Mutant: the last entry has a successor, too. *)
FreeLinksAll == [p \in Proc |-> [s \in Slot |->
  IF s = 0 THEN [Null EXCEPT !.next = p + 1] ELSE Null]]

(* initProc: all the entries are on the free list, in the table's order. *)
FreeLinks == [p \in Proc |-> [s \in Slot |->
  IF s = 0 /\ p # MAXPROC - 1 THEN [Null EXCEPT !.next = p + 1] ELSE Null]]

Init ==
  /\ tail = [k \in Queue |-> Null]
  /\ link = FreeLinks
  /\ qcount = [p \in Proc |-> 0]
  /\ procFree_h = 0
  /\ ret = ENULL

Next == \/ \E k \in Queue : removeProc(k)
        \/ \E k \in Queue, p \in Proc : insertProc(k, p) \/ outProc(k, p)
        \/ allocProc
        \/ \E p \in Proc : freeProc(p)

Spec == Init /\ [][Next]_vars

(* removeProc clears a link of the head at the index of the tail's link.    *)
(* It is the head's link for the queue if the two indices are the same.     *)
Matched(k) == Follow(tail[k]).index = tail[k].index

(* The calls under which the links are right: no head leaves from behind a  *)
(* tail that is on the queue with another of its links.                     *)
MatchedNext == Next /\ \A k \in Queue : Matched(k) \/ ~ TakeHead(k)
MatchedSpec == Init /\ [][MatchedNext]_vars

-----------------------------------------------------------------------------
(* The comment on qcount, "number of queues containing this entry"          *)
(* (procq.h:24), holds; the nucleus decides by it that a process can run.   *)
QcountCounts ==
  \A p \in Proc : qcount[p] = Cardinality({k \in Queue : p \in Members(k)})

(* No link leaks: an entry has as many links in use as queues it is on, so  *)
(* an entry on fewer than SEMMAX queues has a link for one more.            *)
LinksInUse ==
  \A p \in Proc \ FreeList :
    qcount[p] = Cardinality({s \in Slot : link[p][s].next # ENULL})

(* The links are an implementation of the queues and of the free list: the  *)
(* entries that a walk meets, in the order in which it first meets them.    *)
Contents(met) ==
  LET mem == {met[n] : n \in 1 .. MAXPROC} \ {ENULL}
      MetBefore(r, p) == \E n \in 1 .. MAXPROC : met[n] = r /\ \A m \in 1 .. n : met[m] # p
  IN  [mem   |-> mem,
       ahead |-> [p \in Proc |-> {r \in mem : p \in mem /\ MetBefore(r, p)}]]

queueOf == [k \in Queue |-> LET w == Walk(k) IN Contents([n \in 1 .. MAXPROC |-> w[n].next])]
freeOf  == LET f == FreeWalk IN Contents([n \in 1 .. MAXPROC |-> f[n - 1]])

Promise == INSTANCE ProcQueueSpec WITH queue <- queueOf, free <- freeOf

ImplementsFifo == Promise!Spec
=============================================================================
