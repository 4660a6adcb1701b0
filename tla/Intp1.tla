------------------------------- MODULE Intp1 --------------------------------
(***************************************************************************)
(* src/nucleus/interrupts/intp1.c: the test of the interrupts.  All of its *)
(* processes but the first instruction of p1 run with interrupts enabled,  *)
(* and they share the printer.                                             *)
(***************************************************************************)
EXTENDS Instructions

CONSTANTS
  Rounds,       \* bound: p1 is done with p8root after this many rounds
  Turns         \* bound: p3, p6 and p7 leave their loops after this many

Loop(n, bound, body) == Repeat(IF n < bound THEN n ELSE bound, body)

print == <<P("pr_mut"), StartPrint, WaitPrint, V("pr_mut")>>

p1  == <<LoadOld>>
p1a == <<V("testsem")>> \o print \o <<Create("p2")>> \o print \o <<V("startp2"), Create("p3")>>
       \o print \o <<Create("p4"), Create("p5"), Create("p6"), Create("p7")>>
       \o Loop(4, Rounds, <<Create("p8root"), P("endp8")>>)
       \o <<P("endp2"), P("endp3"), P("endp5")>> \o print
       \o <<P("blkp4"), P("endp6")>> \o print \o <<Fault("prog")>>

(* Its loop over the semaphores s[] has one round per process entry; it can *)
(* be interrupted in its "delay for several milliseconds".                  *)
p2 == <<P("startp2")>> \o print \o <<V("s"), P("s")>> \o print
      \o <<Stck, CpuTime, Waste, CpuTime, Stck, Check("both")>> \o print
      \o <<SetSynch, V("endp2"), Terminate>>

(* A round of its loop takes a tenth of the 1000 microseconds it expects.   *)
p3 == <<HalfClock>> \o print \o <<CpuTime>> \o Loop(10, Turns, <<Waste, WaitClock>>)
      \o <<CpuTime, Check("cpu")>> \o print \o <<V("endp3"), Terminate>>

p4 == print \o <<V("synp4"), P("blkp4"), P("synp4"), Create("p4"), P("synp4")>> \o print
      \o <<V("endp4"), Terminate>>

p5  == print \o <<SpecTrap("prog"), SpecTrap("mm"), SpecTrap("sys"), Fault("prog"), Fault("mm")>>
p5a == <<Sys9, P("endp4"), HalfClock, V("blkp4"), V("endp5"), SpecTrap("prog")>>

p5prog == print \o <<LoadOld>>
p5mm   == print \o <<LoadOld>>
p5sys  == print \o <<LoadOld>>

p6 == print \o Loop(7, Turns, <<CpuTime>> \o print) \o <<V("endp6"), Sys9>>
p7 == print \o Loop(10, Turns, print \o <<V("p7v")>>) \o <<Fault("prog")>>

p8root == print \o <<Create("child1"), Create("child2"),
            SemOps(<<Lock("gchild1sem"), Lock("gchild2sem"), Lock("gchild3sem"), Lock("gchild4sem")>>),
            V("endp8"), Terminate>>

child1  == print \o <<Create("gchild1"), Create("gchild2"), P("blkp8")>>
child2  == print \o <<Create("gchild3"), Create("gchild4"), P("blkp8")>>
gchild1 == print \o <<V("gchild1sem"), P("blkp8")>>
gchild2 == print \o <<V("gchild2sem"), P("blkp8")>>
gchild3 == print \o <<V("gchild3sem"), P("blkp8")>>
gchild4 == print \o <<V("gchild4sem"), P("blkp8")>>

Suite == [p1 |-> p1, p1a |-> p1a, p2 |-> p2, p3 |-> p3, p4 |-> p4, p5 |-> p5, p5a |-> p5a,
          p5prog |-> p5prog, p5mm |-> p5mm, p5sys |-> p5sys, p6 |-> p6, p7 |-> p7,
          p8root |-> p8root, child1 |-> child1, child2 |-> child2,
          gchild1 |-> gchild1, gchild2 |-> gchild2, gchild3 |-> gchild3, gchild4 |-> gchild4]
=============================================================================
