-------------------------------- MODULE P12 ---------------------------------
(***************************************************************************)
(* src/nucleus/traps/p1.2.c: the test of SYS3 with several P's and of the  *)
(* termination of a family, with interrupts masked.                        *)
(***************************************************************************)
EXTENDS Instructions

p1 == <<V("testsem")>> \o Repeat(4, <<Create("p8root"), P("endp8")>>) \o <<Fault("prog")>>

p8root == <<Create("child1"), Create("child2"),
            SemOps(<<Lock("gchild1sem"), Lock("gchild2sem"), Lock("gchild3sem"), Lock("gchild4sem")>>),
            V("endp8"), Terminate>>

child1  == <<Create("gchild1"), Create("gchild2"), P("blkp8")>>
child2  == <<Create("gchild3"), Create("gchild4"), P("blkp8")>>
gchild1 == <<V("gchild1sem"), P("blkp8")>>
gchild2 == <<V("gchild2sem"), P("blkp8")>>
gchild3 == <<V("gchild3sem"), P("blkp8")>>
gchild4 == <<V("gchild4sem"), P("blkp8")>>

Suite == [p1 |-> p1, p8root |-> p8root, child1 |-> child1, child2 |-> child2,
          gchild1 |-> gchild1, gchild2 |-> gchild2, gchild3 |-> gchild3, gchild4 |-> gchild4]
=============================================================================
