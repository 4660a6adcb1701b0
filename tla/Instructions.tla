---------------------------- MODULE Instructions ----------------------------
(***************************************************************************)
(* The programs of the test processes, as the nucleus sees them: sequences *)
(* of the instructions that trap to it, start a device or use up time that *)
(* is measured.  What is in between (setting up states and messages) leaves *)
(* no trace in the nucleus.  TestPrograms gives the instructions their     *)
(* meaning.                                                                *)
(***************************************************************************)
EXTENDS Integers, Sequences

Create(f)   == <<"create", f>>          \* SYS1 with the program f
Terminate   == <<"terminate">>          \* SYS2
SemOps(v)   == <<"semop", v>>           \* SYS3
SpecTrap(k) == <<"spec", k>>            \* SYS5
CpuTime     == <<"cputime">>            \* SYS6
WaitClock   == <<"clock">>              \* SYS7
HalfClock   == <<"half">>               \* SYS7, again until half a clock interval is over
StartPrint  == <<"start">>              \* the registers of printer 0
WaitPrint   == <<"wait">>               \* SYS8
Sys9        == <<"sys9">>
Fault(k)    == <<"fault", k>>           \* a trap of kind k
LoadOld     == <<"ldst">>               \* LDST
SetSynch    == <<"set">>                \* p1p2synch = 1
Stck        == <<"stck">>               \* STCK
Waste       == <<"waste">>              \* a unit of time goes by in a loop
Check(c)    == <<"check", c>>           \* the readings of the clocks c are compared

(* passeren and verhogen, of libutil.a: one element each (p1.c:556-580).    *)
Lock(s)   == [op |-> -1, sem |-> s]
Unlock(s) == [op |-> 1, sem |-> s]
P(s)      == SemOps(<<Lock(s)>>)
V(s)      == SemOps(<<Unlock(s)>>)

(* A loop. *)
Repeat(n, body) ==
  [k \in 1 .. n * Len(body) |-> body[((k - 1) % Len(body)) + 1]]
=============================================================================
