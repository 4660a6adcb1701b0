------------------------------ MODULE DeviceIO ------------------------------
(***************************************************************************)
(* The completion status of device operations: what waitforio and          *)
(* inthandler (src/nucleus/interrupts/int.c) hand to a process in D2 and   *)
(* D3.  Nucleus has the control of SYS8 and of the device interrupts; this *)
(* module adds the data, an operator for each action of Nucleus that       *)
(* touches them.                                                           *)
(***************************************************************************)
EXTENDS Nucleus

VARIABLES
  op,       \* which operation the registers of a device describe: two that
            \* follow each other differ
  stat,     \* deviceCompletionStats
  got,      \* D2 and D3 of a process since it started its last operation
  want,     \* history: the last operation a process started
  orphaned  \* history: devices with an operation nobody is left to wait for

ioVars == <<op, stat, got, want, orphaned>>

Completion == Dev \X {0, 1}

IOTypeOK ==
  /\ op \in [Dev -> {0, 1}]
  /\ stat \in [Dev -> Completion]
  /\ got \in [Proc -> Completion \cup {None}] /\ want \in [Proc -> Completion \cup {None}]
  /\ orphaned \subseteq Dev

IOInit ==
  /\ op = [d \in Dev |-> 0]
  /\ stat = [d \in Dev |-> <<d, 0>>]
  /\ got = [p \in Proc |-> None] /\ want = [p \in Proc |-> None]
  /\ orphaned = {}

-----------------------------------------------------------------------------
(* d_dadd and d_stat of the device. *)
Registers(d) == <<d, op[d]>>

(* The program writes the registers of a device that nobody uses.          *)
StartOp(d) ==
  /\ StartIO(d)
  /\ op' = [op EXCEPT ![d] = 1 - @]
  /\ want' = [want EXCEPT ![Caller] = <<d, 1 - op[d]>>]
  /\ got' = [got EXCEPT ![Caller] = None]
  /\ UNCHANGED <<stat, orphaned>>

(* Mutant: the registers are read, whatever the interrupt has saved. *)
WaitReadsRegisters(d) ==
  /\ WaitForIO(d)
  /\ got' = [got EXCEPT ![Caller] = Registers(d)]
  /\ UNCHANGED <<op, stat, want, orphaned>>

(* waitforio: what the interrupt has saved, if it has come.                *)
WaitOp(d) ==
  /\ WaitForIO(d)
  /\ got' = IF val[d] > 0 THEN [got EXCEPT ![Caller] = stat[d]] ELSE got
  /\ UNCHANGED <<op, stat, want, orphaned>>

(* inthandler: to the waiting process, or saved for the one that will ask. *)
CompleteOp(d) ==
  /\ DeviceInterrupt(d)
  /\ \/ /\ val[d] = -1
        /\ got' = [got EXCEPT ![Front(q[d])] = Registers(d)]
        /\ UNCHANGED stat
     \/ /\ val[d] # -1
        /\ stat' = [stat EXCEPT ![d] = Registers(d)]
        /\ UNCHANGED got
  /\ UNCHANGED <<op, want, orphaned>>

(* Nothing of this is undone when the processes K are killed.              *)
AbandonOps(K) ==
  /\ got' = [p \in Proc |-> IF p \in K THEN None ELSE got[p]]
  /\ want' = [p \in Proc |-> IF p \in K THEN None ELSE want[p]]
  /\ orphaned' = orphaned \cup ({io[p] : p \in K} \ {None})
  /\ UNCHANGED <<op, stat>>

-----------------------------------------------------------------------------
(* An operation of p has come back from SYS8 if it is no longer waited for. *)
Answered(p) == want[p] # None /\ io[p] = None

(* "D2 should contain the contents of the Length register ... D3 ... of the *)
(* device's Status register" (int.c:190): once SYS8 has returned, a process *)
(* has the completion of the operation it started, the interrupt before or  *)
(* after the call, and before SYS8 returns it has none.  It is so as long   *)
(* as no process has been killed between starting an operation on the       *)
(* device and the return of its SYS8.                                       *)
CompletionIsMine ==
  \A p \in Proc :
    want[p] # None /\ want[p][1] \notin orphaned =>
      got[p] = IF Answered(p) THEN want[p] ELSE None
=============================================================================
