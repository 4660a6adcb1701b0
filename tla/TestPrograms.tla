---------------------------- MODULE TestPrograms ----------------------------
(***************************************************************************)
(* The machine runs the test programs that come with the nucleus: the      *)
(* suites of p1.c and p1.2.c, with interrupts masked, and the one of       *)
(* intp1.c, in every interleaving that the interval timer and the printer  *)
(* can bring about.  A process is at an instruction of its program; what   *)
(* the instruction does is the handler of Machine.                         *)
(***************************************************************************)
EXTENDS Machine, ProcTree

CONSTANTS
  Rounds,       \* bound: families of p8 in intp1.c, one after the other
  Turns,        \* bound: rounds of the loops of p3, p6 and p7 of intp1.c
  MaxAsync      \* bound: interrupts that come while a process runs; the others
                \* come when the CPU has been stopped

P1Suite   == INSTANCE P1
P12Suite  == INSTANCE P12
IntpSuite == INSTANCE Intp1

Suites == [p1 |-> P1Suite!Suite, p12 |-> P12Suite!Suite, intp1 |-> IntpSuite!Suite]

VARIABLES
  suite,     \* the suite that has been linked with the nucleus
  at,        \* the program and the position in it of every process
  old,       \* pstat_o, mstat_o, sstat_o: the states saved when p5 trapped
  p1p2synch,
  times,     \* the last two readings of STCK and of SYS6 of every process
  async

testVars == <<machineVars, treeVars, suite, at, old, p1p2synch, times, async>>

Nowhere == <<"", 1>>
Unread  == [now1 |-> 0, now2 |-> 0, cpu_t1 |-> 0, cpu_t2 |-> 0]

TestInit ==
  /\ MachineInit /\ TreeInit
  /\ suite \in DOMAIN Suites
  /\ at = [p \in Proc |-> IF p = Root THEN <<"p1", 1>> ELSE Nowhere]
  /\ old = [k \in Kind |-> [at |-> Nowhere, user |-> FALSE, typ |-> None]]
  /\ p1p2synch = FALSE
  /\ times = [p \in Proc |-> Unread]
  /\ async = 0

-----------------------------------------------------------------------------
Text(p)  == Suites[suite][at[p][1]]
AtEnd(p) == at[p][2] > Len(Text(p))
Ins      == Text(Caller)[at[Caller][2]]
After(a) == <<a[1], a[2] + 1>>

(* allocProc: which of the free entries makes no difference to a program.  *)
Entry == CHOOSE c \in Proc : c \notin live

(* p1 of intp1.c begins with interrupts masked.  A timer interrupt that is *)
(* raised is taken before the next instruction.                            *)
Unmasked == suite = "intp1" /\ at[Root][1] # "p1"
Issues(calls) ==
  /\ cpu = "run" /\ ~AtEnd(Caller) /\ ~(Unmasked /\ timer = "pending")
  /\ Ins[1] \in calls

Goto(a) ==
  /\ at' = [at EXCEPT ![Caller] = a]
  /\ UNCHANGED <<treeVars, suite, old, p1p2synch, times, async>>

Advance == Goto(After(at[Caller]))

(* The program goes on with a new reading of a clock. *)
Reads(t) ==
  /\ at' = [at EXCEPT ![Caller] = After(@)]
  /\ times' = [times EXCEPT ![Caller] = t]
  /\ UNCHANGED <<treeVars, suite, old, p1p2synch, async>>

-----------------------------------------------------------------------------
(* System calls from supervisor mode.                                      *)

CreateStep ==
  /\ Issues({"create"})
  /\ live' = IF live = Proc THEN live ELSE live \cup {Entry}
  /\ SYS1
  /\ IF live = Proc THEN UNCHANGED treeVars ELSE Link(Entry)
  /\ at' = [p \in Proc |-> IF p = Caller THEN After(at[p])
                           ELSE IF p \in live' \ live THEN <<Ins[2], 1>> ELSE at[p]]
  /\ UNCHANGED <<suite, old, p1p2synch, times, async>>

SemopCall == Issues({"semop"}) /\ vec' = Ins[2] /\ SYS3 /\ Advance

InSemop == (SYS3Step \/ SYS3Ends) /\ UNCHANGED <<treeVars, suite, at, old, p1p2synch, times, async>>

SpecCall == Issues({"spec"}) /\ (\E k \in Kind : k = Ins[2] /\ SYS5(k)) /\ Advance

(* getcputime puts total_processor_time into D2, which the SYS handler has  *)
(* brought up to date; p6 just prints it.                                   *)
CpuTimeCall ==
  /\ Issues({"cputime"}) /\ SYS6
  /\ Reads(IF at[Caller][1] = "p6" THEN Unread
           ELSE [times[Caller] EXCEPT !.cpu_t1 = times[Caller].cpu_t2, !.cpu_t2 = total'[Caller]])

ClockCall == Issues({"clock", "half"}) /\ SYS7 /\ Advance

(* "loop until we are delayed at least half of clock V interval": one call *)
(* is enough if it comes in the first half of an interval.                 *)
ClockAgain ==
  /\ Issues({"half"}) /\ ticks * 2 >= Ticks
  /\ SYS7 /\ Goto(at[Caller])

WaitCall == Issues({"wait"}) /\ (\E d \in Dev : SYS8(d)) /\ Advance

(* SYS2, SYS5 for a kind that has a vector, and a trap without a vector.    *)
Fatal ==
  \/ Issues({"terminate"}) /\ Caller \notin user
  \/ Issues({"spec"}) /\ Caller \notin user /\ Ins[2] \in vector[Caller]
  \/ Issues({"sys9"}) /\ "sys" \notin vector[Caller]
  \/ Issues({"fault"}) /\ Ins[2] \notin vector[Caller]

Dies ==
  /\ Fatal
  /\ Die(Family(Caller)) /\ Unlink(Family(Caller))
  /\ at' = [p \in Proc |-> IF p \in live' THEN at[p] ELSE Nowhere]
  /\ times' = [p \in Proc |-> IF p \in live' THEN times[p] ELSE Unread]
  /\ UNCHANGED <<suite, old, p1p2synch, async>>

-----------------------------------------------------------------------------
(* Traps to p5's own handlers.                                             *)

Handler == [prog |-> "p5prog", mm |-> "p5mm", sys |-> "p5sys"]

(* typ: s_tmp of the saved state, the type of a program trap or the number  *)
(* of the call.                                                             *)
PassedUp(k, typ) ==
  /\ at' = [at EXCEPT ![Caller] = <<Handler[k], 1>>]
  /\ old' = [old EXCEPT ![k] = [at |-> at[Caller], user |-> Caller \in user, typ |-> typ]]
  /\ UNCHANGED <<treeVars, suite, p1p2synch, times, async>>

(* The program traps of the programs are divisions by zero. *)
FaultTrap == Issues({"fault"}) /\ PassUpTrap(Ins[2]) /\ PassedUp(Ins[2], "ZERODIVIDE")
Sys9Trap  == Issues({"sys9"}) /\ PassUpSys("sys") /\ PassedUp("sys", "SYS9")

(* SYS3 from user mode: the nucleus makes a program trap of it. *)
UserTrap == Issues({"semop"}) /\ PassUpSys("prog") /\ PassedUp("prog", "PRIVILEGE")

(* p5's program trap handler reloads what trapped, but for the two types    *)
(* that it knows: what follows the division, or p5a in supervisor mode.     *)
ProgReload ==
  LET o == old["prog"]
  IN  CASE o.typ = "ZERODIVIDE" -> [o EXCEPT !.at = After(@)]
        [] o.typ = "PRIVILEGE"  -> [o EXCEPT !.at = <<"p5a", 1>>, !.user = FALSE]
        [] OTHER                -> o

(* What p1 and the handlers of p5 load: p1a with interrupts enabled; p5a in  *)
(* user mode; what follows a SYS9.                                          *)
Loaded ==
  CASE at[Caller][1] = "p1"     -> [at |-> <<"p1a", 1>>, user |-> FALSE]
    [] at[Caller][1] = "p5mm"   -> [at |-> <<"p5a", 1>>, user |-> TRUE]
    [] at[Caller][1] = "p5sys"  -> [old["sys"] EXCEPT !.at = After(@)]
    [] at[Caller][1] = "p5prog" -> ProgReload

LoadStep == Issues({"ldst"}) /\ (\E u \in BOOLEAN : u = Loaded.user /\ Load(u)) /\ Goto(Loaded.at)

-----------------------------------------------------------------------------
(* What a program does by itself, and the interrupts.                      *)

StartStep == Issues({"start"}) /\ (\E d \in Dev : Start(d)) /\ Advance

StckStep ==
  /\ Issues({"stck"}) /\ UNCHANGED machineVars
  /\ Reads([times[Caller] EXCEPT !.now1 = times[Caller].now2, !.now2 = now])

(* The readings are not looked at again. *)
CheckStep == Issues({"check"}) /\ UNCHANGED machineVars /\ Reads(Unread)

WasteStep == Issues({"waste"}) /\ Run /\ Advance

SetStep ==
  /\ Issues({"set"})
  /\ p1p2synch' = TRUE
  /\ at' = [at EXCEPT ![Caller] = After(@)]
  /\ UNCHANGED <<machineVars, treeVars, suite, old, times, async>>

Interrupted == IF cpu = "run" THEN async < MaxAsync /\ async' = async + 1 ELSE UNCHANGED async

Expires ==
  /\ Unmasked /\ cpu # "semop" /\ Timer
  /\ Interrupted /\ UNCHANGED <<treeVars, suite, at, old, p1p2synch, times>>

ClockStep == Unmasked /\ Clock /\ UNCHANGED <<treeVars, suite, at, old, p1p2synch, times, async>>

Completes ==
  /\ Unmasked /\ \E d \in Dev : Device(d)
  /\ Interrupted /\ UNCHANGED <<treeVars, suite, at, old, p1p2synch, times>>

Programs ==
  \/ CreateStep \/ SemopCall \/ InSemop \/ SpecCall \/ CpuTimeCall \/ ClockCall \/ ClockAgain
  \/ WaitCall \/ Dies \/ FaultTrap \/ Sys9Trap \/ UserTrap \/ LoadStep \/ StartStep
  \/ StckStep \/ CheckStep \/ WasteStep \/ SetStep

(* HALT, when every process has terminated. *)
Halted == cpu = "normal" /\ UNCHANGED testVars

TestNext == Programs \/ Expires \/ ClockStep \/ Completes \/ Halted

TestSpec == TestInit /\ [][TestNext]_testVars

-----------------------------------------------------------------------------
(* The instruction that the caller has last completed. *)
Done(ins) == at[Caller][2] > 1 /\ Text(Caller)[at[Caller][2] - 1] = ins

WaitForP2 == {P1Suite!P("endp2"), P1Suite!SemOps(<<P1Suite!Unlock("startp2"), P1Suite!Lock("endp2")>>)}

(* What the caller has measured, and the time of the loop that it measured. *)
CpuMeasured  == times[Caller].cpu_t2 - times[Caller].cpu_t1
RealMeasured == times[Caller].now2 - times[Caller].now1
LoopTime     == Cardinality({k \in DOMAIN Text(Caller) : Text(Caller)[k] = P1Suite!Waste})

(* What the programs print a complaint about, in any suite: a process lives  *)
(* on after its SYS2, its fatal trap or the P that nobody answers            *)
(* (intp1.c:276, 343, 393, 442, 532, 610, 635); a SYS1 finds no entry, so    *)
(* that entries of a terminated family were not freed ("error in process     *)
(* termination", intp1.c:242); an I/O operation has come back with what      *)
(* another one returned ("i/o no good"); p1 did not wait for p2; a V and a P *)
(* do not cancel out ("p2 bad v/p pairs", p1.c:235); "more cpu time than     *)
(* real time" or "not enough cpu time" (p1.c:255, intp1.c:324), "CPU time    *)
(* incorrectly maintained" (intp1.c:380); "other program trap" (p1.c:421).   *)
Complaint ==
  \/ AtEnd(Caller)
  \/ ~AtEnd(Caller) /\ Ins[1] = "create" /\ live = Proc
  \/ Done(P1Suite!WaitPrint) /\ got[Caller] # want[Caller]
  \/ (\E w \in WaitForP2 : Done(w)) /\ ~p1p2synch
  \/ Done(P1Suite!P("s")) /\ val["s"] # 0
  \/ ~AtEnd(Caller) /\ Ins[1] = "check" /\ CpuMeasured < LoopTime
  \/ ~AtEnd(Caller) /\ Ins = P1Suite!Check("both") /\ RealMeasured < CpuMeasured
  \/ at[Caller] = <<"p5prog", 1>> /\ old["prog"].typ \notin {"ZERODIVIDE", "PRIVILEGE"}

(* No test program has anything to complain about.                           *)
TestsPass == cpu = "run" => ~Complaint

(* SYS6 returns to the process that calls it the time for which that process *)
(* has had the CPU, whoever has run, blocked or been preempted in between,   *)
(* as long as the entry has no vector through which a handler drops time.   *)
ReadsOwnTime ==
  [][CpuTimeCall /\ ~Drops(Caller) => total'[Caller] = used[Caller]]_testVars

(* When p5 V's blkp4, p4 and its second incarnation are dead, so that the    *)
(* semaphore is incremented, and not the process released that was killed    *)
(* while it waited for it ("if p4 and offspring are really dead, this will   *)
(* increment blkp4", p1.c:388).                                              *)
OffspringDead ==
  cpu = "run" /\ ~AtEnd(Caller) /\ at[Caller][1] = "p5a" /\ Ins = P1Suite!V("blkp4") =>
    \A p \in live : at[p][1] # "p4"

(* At the normal end of the machine all the entries are free, and no        *)
(* semaphore still counts a process that waits.                             *)
CleanEnd == cpu = "normal" => live = {} /\ \A s \in Semaphore : val[s] >= 0

(* The suites end with p1's division by zero and the normal end of the       *)
(* machine: no wake-up is lost on the way, and the last entry is free.       *)
EndsNormally == cpu # "deadlock" /\ CleanEnd

(* The invariants of the nucleus hold for vectors with several P's too, and  *)
(* for a tree that is kept in lists of children.                            *)
NucleusHolds == Accounting /\ NoLostProcess /\ ReadyOrBlocked /\ HonestHalt /\ Preemptible /\ TreeTrue
=============================================================================
