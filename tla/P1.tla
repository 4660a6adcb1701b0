--------------------------------- MODULE P1 ---------------------------------
(***************************************************************************)
(* src/nucleus/traps/p1.c: the test of the system calls and traps.  Its    *)
(* processes run with interrupts masked, and print to a buffer.            *)
(***************************************************************************)
EXTENDS Instructions

p1 == <<V("testsem"), Create("p2"), SemOps(<<Unlock("startp2"), Lock("endp2")>>),
        Create("p4"), Create("p5"), Create("p6"), Create("p7"), P("endp5"), P("blkp4")>>
      \o Repeat(4, <<Create("p8root"), P("endp8")>>) \o <<Fault("prog")>>

(* Its loop over the semaphores s[] has one round per process entry; the     *)
(* "delay for several milliseconds" takes the 5000 microseconds it expects. *)
p2 == <<P("startp2"), V("s"), P("s"), Stck, CpuTime, Waste, CpuTime, Stck,
        Check("both"), SetSynch, V("endp2"), Terminate>>

p4 == <<V("synp4"), P("blkp4"), P("synp4"), Create("p4"), P("synp4"), V("endp4"), Terminate>>

p5 == <<SpecTrap("prog"), SpecTrap("mm"), SpecTrap("sys"), Fault("prog"), Fault("mm")>>

p5a == <<Sys9, P("endp4"), V("blkp4"), V("endp5"), SpecTrap("prog")>>

p5prog == <<LoadOld>>
p5mm   == <<LoadOld>>
p5sys  == <<LoadOld>>

p6 == <<Sys9>>
p7 == <<Fault("prog")>>

p8root == <<Create("child1"), Create("child2")>> \o Repeat(4, <<P("endcreate")>>)
          \o <<V("endp8"), Terminate>>

child1 == <<Create("p8leaf"), Create("p8leaf"), P("blkp8")>>
child2 == <<Create("p8leaf"), Create("p8leaf"), P("blkp8")>>
p8leaf == <<V("endcreate"), P("blkp8")>>

Suite == [p1 |-> p1, p2 |-> p2, p4 |-> p4, p5 |-> p5, p5a |-> p5a, p5prog |-> p5prog,
          p5mm |-> p5mm, p5sys |-> p5sys, p6 |-> p6, p7 |-> p7, p8root |-> p8root,
          child1 |-> child1, child2 |-> child2, p8leaf |-> p8leaf]
=============================================================================
