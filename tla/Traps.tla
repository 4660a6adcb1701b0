------------------------------- MODULE Traps --------------------------------
(***************************************************************************)
(* The trap handlers of src/nucleus/traps/trap.c: which traps are handled, *)
(* passed up to the process itself or fatal to it, the vectors that SYS5   *)
(* sets, and the CPU time that SYS6 returns.  Nucleus has the system calls *)
(* that the handlers switch to; this module adds the mode, the vectors and *)
(* the times of the process table entries.                                 *)
(***************************************************************************)
EXTENDS Nucleus

CONSTANTS
  Kind,       \* the kinds of traps that programs make use of
  MaxTime     \* bound: the time of day stops there

ASSUME TrapAssumption == Kind \subseteq {"prog", "mm", "sys"} /\ MaxTime \in Nat

VARIABLES
  user,       \* the processes that run in user mode (ps_s = 0)
  vector,     \* the kinds for which an entry has a trap vector
  now,        \* the time of day
  start,      \* last_start_time
  total,      \* total_processor_time
  specified,  \* history: the kinds for which the process has used SYS5
  used,       \* history: the time for which the process has had the CPU
  lost        \* history: ... before a program or memory management trap

timeVars == <<now, start, total, used, lost>>
trapVars == <<user, vector, specified, timeVars>>

TrapTypeOK ==
  /\ user \subseteq Proc
  /\ vector \in [Proc -> SUBSET Kind] /\ specified \in [Proc -> SUBSET Kind]
  /\ now \in Nat /\ start \in [Proc -> Nat] /\ total \in [Proc -> Nat]
  /\ used \in [Proc -> Nat] /\ lost \in [Proc -> Nat]

TrapInit ==
  /\ user = {}
  /\ vector = [p \in Proc |-> {}] /\ specified = vector
  /\ now = 0 /\ start = [p \in Proc |-> 0]
  /\ total = start /\ used = start /\ lost = start

-----------------------------------------------------------------------------
(* CPU time.                                                               *)

(* A program runs, or the CPU is stopped, for a unit of time.              *)
TimePasses ==
  /\ cpu \in {"run", "idle"} /\ now < MaxTime
  /\ now' = now + 1
  /\ used' = IF cpu = "run" THEN [used EXCEPT ![Caller] = @ + 1] ELSE used
  /\ UNCHANGED <<user, vector, specified, start, total, lost>>

Slice(p) == IF cpu = "run" /\ p = Caller THEN now - start[p] ELSE 0

(* Mutant: the operands are swapped. *)
ChargedBackwards == [total EXCEPT ![Caller] = @ + start[Caller] - now]

(* updateTotalTimeOnProcessor *)
Charged == [total EXCEPT ![Caller] = @ + now - start[Caller]]

(* updateLastStartTime, of the process that the handler or schedule loads. *)
Started(s) == IF cpu' = "run" THEN [s EXCEPT ![Front(q'[RQ])] = now] ELSE s

(* The times, if the handler has charged the caller and if it has not.     *)
Charge == total' = Charged /\ start' = Started(start) /\ UNCHANGED <<now, used, lost>>
Resume == start' = Started(start) /\ UNCHANGED <<now, total, used, lost>>

(* Mutant: a SYS trap does not charge the caller. *)
SysTrapResumes == Caller \notin user /\ Resume /\ UNCHANGED <<user, vector, specified>>

(* trapsyshandler around one of SYS1 to SYS8. *)
SysTrap == Caller \notin user /\ Charge /\ UNCHANGED <<user, vector, specified>>

(* semop has come to its end. *)
SemopResumes == Resume /\ UNCHANGED <<user, vector, specified>>

(* intclockhandler: whoever had the CPU is charged. *)
ClockTimes ==
  /\ IF q[RQ].mem # {} THEN Charge ELSE Resume
  /\ UNCHANGED <<user, vector, specified>>

(* A device handler: on an empty ready queue it calls schedule. *)
DeviceTimes ==
  /\ IF q[RQ].mem # {} THEN UNCHANGED timeVars ELSE Resume
  /\ UNCHANGED <<user, vector, specified>>

-----------------------------------------------------------------------------
(* Trap vectors.                                                           *)

(* trapstate, for a kind that has no vector yet. *)
SpecTrapVec(k) ==
  /\ Caller \notin user /\ k \notin vector[Caller]
  /\ vector' = [vector EXCEPT ![Caller] = @ \cup {k}]
  /\ specified' = [specified EXCEPT ![Caller] = @ \cup {k}]
  /\ Charge /\ UNCHANGED user

(* A SYS trap that is passed up: SYS9 to SYS17, or another from user mode,  *)
(* which becomes a program trap.  The new states are in supervisor mode.    *)
SysPassUp(k) ==
  /\ k = "sys" \/ (k = "prog" /\ Caller \in user)
  /\ k \in vector[Caller]
  /\ user' = user \ {Caller}
  /\ Charge /\ UNCHANGED <<vector, specified>>

(* trapproghandler, trapmmhandler: the caller's time up to now is dropped.  *)
TrapPassUp(k) ==
  /\ k # "sys" /\ k \in vector[Caller]
  /\ user' = user \ {Caller}
  /\ lost' = [lost EXCEPT ![Caller] = @ + now - start[Caller]]
  /\ start' = Started(start)
  /\ UNCHANGED <<vector, specified, now, total, used>>

(* A program loads a state: a handler the one that was interrupted. *)
LoadState(u) ==
  /\ Caller \notin user
  /\ user' = IF u THEN user \cup {Caller} ELSE user
  /\ UNCHANGED <<vector, specified, timeVars>>

(* SYS2; a trap without a vector; SYS5 for a kind that has one. *)
MayDie == Caller \notin user \/ vector[Caller] # Kind

Cleared(f, K) == [p \in Proc |-> IF p \in K THEN 0 ELSE f[p]]

(* freeProc, for all of K: resetProcess clears the times of an entry, not   *)
(* its vectors.                                                             *)
Free(K) ==
  /\ total' = Cleared(total, K) /\ used' = Cleared(used, K) /\ lost' = Cleared(lost, K)
  /\ start' = Started(Cleared(start, K))
  /\ user' = user \ K
  /\ specified' = [p \in Proc |-> IF p \in K THEN {} ELSE specified[p]]
  /\ UNCHANGED <<now, vector>>

-----------------------------------------------------------------------------
Drops(p)       == vector[p] \cap {"prog", "mm"} # {}
NothingMissing == \A p \in live : total[p] + Slice(p) + lost[p] = used[p]

(* Every handler charges the time up to its start to the process that had   *)
(* the CPU and restarts the clock of the process it loads, and none does    *)
(* either twice: SYS6 returns the time its caller has used, less what the   *)
(* handlers of passed-up program and memory management traps drop.  Those   *)
(* drop nothing of a process whose entry has no vector for such a trap.     *)
CpuTimeAccounted == NothingMissing /\ \A p \in live : lost[p] > 0 => Drops(p)

(* SYS6 gives "the CPU time (in microseconds) used by the process executing *)
(* the instruction" (syscall.c:290), whatever the process has done before.  *)
CpuTimeReturned == \A p \in live : total[p] + Slice(p) = used[p]

(* A process has only the trap vectors it has itself specified.            *)
VectorsAreOwn == \A p \in live : vector[p] = specified[p]

(* Where it goes wrong (resetProcess keeps the vectors): an entry comes to   *)
(* have a vector that its process has not specified only by the termination *)
(* of the process that has, and what a process specifies it has.            *)
LeftBehind(p) == vector[p] \ specified[p]

VectorsLeftBehind ==
  [][\A p \in Proc : /\ LeftBehind(p)' \subseteq LeftBehind(p) \/ p \in live \ live'
                     /\ specified'[p] \subseteq vector'[p]]_<<vars, trapVars>>
=============================================================================
