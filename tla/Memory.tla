------------------------------- MODULE Memory -------------------------------
(***************************************************************************)
(* Page faults of T-processes: slmmhandler of src/support/part1/support.c  *)
(* and getfreeframe of src/support/part2/page.c.  The handler is code of   *)
(* the process that faults and can be preempted anywhere; a system call is *)
(* one action, and so is the code between two of them that touches one     *)
(* shared variable.                                                        *)
(***************************************************************************)
EXTENDS Fifo, Integers

CONSTANTS
  MAXTPROC,
  Private, Shared,    \* the pages of segment 1 (of each process) and of segment 2
  Boot,               \* the private page of the bootcode
  MAXFRAMES,
  sem_mm, sem_pf,
  None                \* pd_p = 0

Desc      == (Proc \X Private) \cup Shared       \* the page descriptors
Reach(t)  == ({t} \X Private) \cup Shared
Frame     == 0 .. MAXFRAMES - 1                  \* relative to pf_start
Semaphore == {sem_mm, sem_pf}

ASSUME ProcAssumption  == MAXTPROC \in Nat \ {0} /\ Proc = 1 .. MAXTPROC
ASSUME PageAssumption  == Boot \in Private /\ Shared \cap (Proc \X Private) = {}
ASSUME FrameAssumption == MAXFRAMES \in Nat /\ MAXTPROC <= MAXFRAMES
ASSUME NameAssumption  == sem_mm # sem_pf /\ None \notin Nat

VARIABLES
  pc,         \* where each process is
  val, q,     \* the semaphores and who waits on them
  pf_ctr,
  pt,         \* the frame of each page descriptor
  page,       \* pageDesc and
  frame       \* freeFrame of each process

semVars == <<val, q>>
vars    == <<pc, val, q, pf_ctr, pt, page, frame>>

Label == {"user", "fault", "enter", "read", "count", "leave", "lock", "map", "unlock", "dead"}

TypeOK ==
  /\ pc \in [Proc -> Label]
  /\ val \in [Semaphore -> Int] /\ q \in [Semaphore -> Fifo]
  /\ pf_ctr \in 0 .. MAXFRAMES
  /\ pt \in [Desc -> Frame \cup {None}]
  /\ page \in [Proc -> Desc] /\ frame \in [Proc -> Frame]

-----------------------------------------------------------------------------
(* SYS3 with a vector of one operation.                                    *)

P(s, t) ==
  /\ val' = [val EXCEPT ![s] = @ - 1]
  /\ q' = IF val[s] <= 0 THEN [q EXCEPT ![s] = Insert(@, t)] ELSE q

V(s) ==
  /\ val' = [val EXCEPT ![s] = @ + 1]
  /\ q' = IF val[s] < 0 THEN [q EXCEPT ![s] = Remove(@, {Front(@)})] ELSE q

Waits(t)   == \E s \in Semaphore : t \in q[s].mem
At(t, l)   == pc[t] = l /\ ~Waits(t)

(* t, which is at l and does not wait, goes on to m. *)
Step(t, l, m) == At(t, l) /\ pc' = [pc EXCEPT ![t] = m]

-----------------------------------------------------------------------------
(* slmmhandler, entered with the descriptor of a page that is not there.   *)
Fault(t) ==
  /\ Step(t, "user", "fault")
  /\ \E x \in Reach(t) : pt[x] = None /\ page' = [page EXCEPT ![t] = x]
  /\ UNCHANGED <<semVars, pf_ctr, pt, frame>>

(* Mutant: a frame is taken whether there is one or not. *)
ReserveNothing(t) ==
  /\ Step(t, "fault", "enter")
  /\ UNCHANGED <<semVars, pf_ctr, pt, page, frame>>

(* getfreeframe. *)
ReserveFrame(t) ==
  /\ Step(t, "fault", "enter")
  /\ P(sem_pf, t)
  /\ UNCHANGED <<pf_ctr, pt, page, frame>>

(* Mutant: without the lock. *)
EnterAnyway(t) ==
  /\ Step(t, "enter", "read")
  /\ UNCHANGED <<semVars, pf_ctr, pt, page, frame>>

Enter(t) ==
  /\ Step(t, "enter", "read")
  /\ P(sem_mm, t)
  /\ UNCHANGED <<pf_ctr, pt, page, frame>>

(* i = pf_ctr++ + pf_start is a read and an increment. *)
ReadCounter(t) ==
  /\ Step(t, "read", "count")
  /\ frame' = [frame EXCEPT ![t] = pf_ctr]
  /\ UNCHANGED <<semVars, pf_ctr, pt, page>>

Increment(t) ==
  /\ Step(t, "count", "leave")
  /\ pf_ctr' = pf_ctr + 1
  /\ UNCHANGED <<semVars, pt, page, frame>>

(* Mutant: sem_mm is not given back. *)
LeaveLocked(t) ==
  /\ Step(t, "leave", "lock")
  /\ UNCHANGED <<semVars, pf_ctr, pt, page, frame>>

Leave(t) ==
  /\ Step(t, "leave", "lock")
  /\ V(sem_mm)
  /\ UNCHANGED <<pf_ctr, pt, page, frame>>

(* slmmhandler again. *)
Lock(t) ==
  /\ Step(t, "lock", "map")
  /\ P(sem_mm, t)
  /\ UNCHANGED <<pf_ctr, pt, page, frame>>

Map(t) ==
  /\ Step(t, "map", "unlock")
  /\ pt' = [pt EXCEPT ![page[t]] = frame[t]]
  /\ UNCHANGED <<semVars, pf_ctr, page, frame>>

Unlock(t) ==
  /\ Step(t, "unlock", "user")
  /\ V(sem_mm)
  /\ UNCHANGED <<pf_ctr, pt, page, frame>>

(* SYS17, and every fault that is not a missing page; putframe is empty.   *)
Terminate(t) ==
  /\ Step(t, "user", "dead")
  /\ UNCHANGED <<semVars, pf_ctr, pt, page, frame>>

-----------------------------------------------------------------------------
(* p1 has given every process a frame for its bootcode. *)
Init ==
  /\ pc = [t \in Proc |-> "user"]
  /\ pf_ctr = MAXTPROC
  /\ val = [s \in Semaphore |-> IF s = sem_mm THEN 1 ELSE MAXFRAMES - pf_ctr]
  /\ q = [s \in Semaphore |-> EmptyFifo]
  /\ pt = [x \in Desc |-> IF \E t \in Proc : x = <<t, Boot>> THEN x[1] - 1 ELSE None]
  /\ page = [t \in Proc |-> <<t, Boot>>]
  /\ frame = [t \in Proc |-> 0]

Handle(t) == \/ ReserveFrame(t) \/ Enter(t) \/ ReadCounter(t) \/ Increment(t) \/ Leave(t)
             \/ Lock(t) \/ Map(t) \/ Unlock(t)

Next == \E t \in Proc : Fault(t) \/ Handle(t) \/ Terminate(t)

Spec     == Init /\ [][Next]_vars
FairSpec == Spec /\ \A t \in Proc : WF_vars(Handle(t))

-----------------------------------------------------------------------------
(* t has taken a frame and not yet entered it in its table. *)
Taken(t) == pc[t] \in {"count", "leave", "lock", "map"}

(* A frame has one owner, a page descriptor or a process that has taken it: *)
(* getfreeframe gives no frame to two pages, in whatever order the handlers *)
(* of the processes run.                                                    *)
OneOwner ==
  /\ \A x, y \in Desc : pt[x] # None /\ pt[x] = pt[y] => x = y
  /\ \A t \in Proc : Taken(t) => \A x \in Desc : pt[x] # frame[t]
  /\ \A t, u \in Proc : Taken(t) /\ Taken(u) /\ frame[t] = frame[u] => t = u

(* A fault whose process has been given a frame by sem_pf is served: nobody *)
(* waits for ever on sem_mm.  Without a frame there is no such promise.     *)
FaultServed == \A t \in Proc : pc[t] = "enter" /\ ~Waits(t) ~> pc[t] = "user"

(* "globally shared pages" (support.c:201): a page that is present keeps    *)
(* its frame, and with it what the processes have written there.            *)
PageStays == [][\A x \in Desc : pt[x] # None => pt'[x] = pt[x]]_vars

(* t is in slmmhandler for a page that was not there when it faulted.       *)
Faulting(t) == pc[t] \in {"fault", "enter", "read", "count", "leave", "lock", "map"}

(* No page of S has two faults at a time.                                   *)
SoleFaults(S) ==
  \A t, u \in Proc : Faulting(t) /\ Faulting(u) /\ page[t] = page[u] /\ page[t] \in S => t = u

(* Pages of S that are present keep their frames. *)
Stay(S) == [][\A x \in S : pt[x] # None => pt'[x] = pt[x]]_vars

(* Nobody holds sem_mm while he waits, for a frame or for sem_mm itself: if  *)
(* anybody waits for sem_mm, the process that has it is free to go on.      *)
HolderGoesOn ==
  q[sem_mm].mem # {} =>
    \E t \in Proc : pc[t] \in {"read", "count", "leave", "map", "unlock"} /\ ~Waits(t)
=============================================================================
