-------------------------------- MODULE Cron --------------------------------
(***************************************************************************)
(* The cron daemon and the support calls that work with it: delay (SYS13)  *)
(* and terminate (SYS17), src/support/part1/support.c and slsyscall1.c.    *)
(* They are processes that can be preempted anywhere; SYS3 alone is atomic *)
(* (Nucleus).  A system call is one action, and so is the code between two *)
(* of them that touches one shared variable: active_t_processes++ and --   *)
(* are taken for the one memory instruction of the 68000 they compile to,  *)
(* which no interrupt divides.                                             *)
(***************************************************************************)
EXTENDS Integers, Sequences, FiniteSets, SequencesExt

CONSTANTS
  MAXTPROC,
  cron,           \* the daemon
  cron_table_sem, wake_up_cron_sem,
  MaxDelay        \* bound: the longest delay that is asked for

T         == 1 .. MAXTPROC
Process   == T \cup {cron}
Semaphore == T \cup {cron_table_sem, wake_up_cron_sem}   \* t: CRON_TABLE[t].sem

ASSUME SizeAssumption == MAXTPROC \in Nat \ {0} /\ MaxDelay \in Nat
ASSUME NameAssumption == /\ cron \notin T /\ {cron_table_sem, wake_up_cron_sem} \cap T = {}
                         /\ cron_table_sem # wake_up_cron_sem

(* Bound: a semaphore stops at MaxVal, at which it blocks nobody any more.  *)
MaxVal == 2 * Cardinality(Process)

VARIABLES
  pc,         \* where each process is
  val, queue, \* the semaphores and who waits on them
  armed,      \* CRON_TABLE[t].wakeUpTime # -1
  left,       \* the time until the wake-up time that t has computed
  i, awoken,  \* cron: i, awokenProcesses
  active      \* active_t_processes

tprocVars == <<armed, left, active>>
cronVars  == <<i, awoken>>
vars      == <<pc, val, queue, armed, left, i, awoken, active>>

TypeOK ==
  /\ pc \in [Process -> {"begin", "user", "io", "lock", "write", "sleep",
                         "exiting", "last", "ending", "dead",
                         "start", "top", "scan", "release", "clock"}]
  /\ val \in [Semaphore -> -Cardinality(Process) .. MaxVal]
  /\ queue \in [Semaphore -> Seq(Process)]
  /\ armed \in [T -> BOOLEAN] /\ left \in [T -> 0 .. MaxDelay]
  /\ i \in 1 .. MAXTPROC + 1 /\ awoken \in BOOLEAN
  /\ active \in 0 .. MAXTPROC

-----------------------------------------------------------------------------
(* SYS3: the operations of a vector on the semaphores S, in their order.    *)
Sems == [val |-> val, queue |-> queue]

P(S, s, p) ==
  [val   |-> [S.val EXCEPT ![s] = @ - 1],
   queue |-> IF S.val[s] <= 0 THEN [S.queue EXCEPT ![s] = Append(@, p)] ELSE S.queue]

V(S, s) ==
  [val   |-> [S.val EXCEPT ![s] = IF @ < MaxVal THEN @ + 1 ELSE @],
   queue |-> IF S.val[s] < 0 THEN [S.queue EXCEPT ![s] = Tail(@)] ELSE S.queue]

SEMOP(S) == val' = S.val /\ queue' = S.queue

Waits(p, s) == p \in ToSet(queue[s])
Ready(p)    == \A s \in Semaphore : ~Waits(p, s)

At(p, l)   == pc[p] = l /\ Ready(p) /\ pc[cron] # "dead"
Goto(p, l) == pc' = [pc EXCEPT ![p] = l]

(* p, which is at l and does not wait, goes on to m. *)
Step(p, l, m) == At(p, l) /\ Goto(p, m)

-----------------------------------------------------------------------------
(* T-processes.                                                            *)

(* Mutant: the process does not count itself. *)
CountNot(t) ==
  /\ Step(t, "begin", "user")
  /\ UNCHANGED <<val, queue, tprocVars, cronVars>>

(* tprocess: active_t_processes++. *)
Count(t) ==
  /\ Step(t, "begin", "user")
  /\ active' = active + 1
  /\ UNCHANGED <<val, queue, armed, left, cronVars>>

(* SYS9 and SYS10, as far as cron is concerned: the process waits for its   *)
(* terminal (SYS8), and an interrupt of the terminal lets it go on.         *)
StartIO(t) ==
  /\ Step(t, "user", "io")
  /\ UNCHANGED <<val, queue, tprocVars, cronVars>>

EndIO(t) ==
  /\ Step(t, "io", "user")
  /\ UNCHANGED <<val, queue, tprocVars, cronVars>>

StartDelay(t) ==
  /\ Step(t, "user", "lock")
  /\ \E d \in 0 .. MaxDelay : left' = [left EXCEPT ![t] = d]
  /\ UNCHANGED <<val, queue, armed, cronVars, active>>

LockTable(t) ==
  /\ Step(t, "lock", "write")
  /\ SEMOP(P(Sems, cron_table_sem, t))
  /\ UNCHANGED <<tprocVars, cronVars>>

SetWakeUpTime(t) ==
  /\ Step(t, "write", "sleep")
  /\ armed' = [armed EXCEPT ![t] = TRUE]
  /\ UNCHANGED <<val, queue, left, active, cronVars>>

(* Mutant: cron is not told. *)
SleepVectorSilent(t) == P(V(Sems, cron_table_sem), t, t)

SleepVector(t) == V(P(V(Sems, cron_table_sem), t, t), wake_up_cron_sem)

Sleep(t) ==
  /\ Step(t, "sleep", "user")
  /\ SEMOP(SleepVector(t))
  /\ UNCHANGED <<tprocVars, cronVars>>

Terminate(t) ==
  /\ Step(t, "user", "exiting")
  /\ active' = active - 1
  /\ UNCHANGED <<val, queue, armed, left, cronVars>>

(* The test of active_t_processes: whoever finds it 0 wakes cron. *)
TestLast(t) ==
  /\ Step(t, "exiting", IF active = 0 THEN "last" ELSE "ending")
  /\ UNCHANGED <<val, queue, tprocVars, cronVars>>

WakeCron(t) ==
  /\ Step(t, "last", "ending")
  /\ SEMOP(V(Sems, wake_up_cron_sem))
  /\ UNCHANGED <<tprocVars, cronVars>>

(* SYS2; putframe before it does nothing. *)
Die(t) ==
  /\ Step(t, "ending", "dead")
  /\ UNCHANGED <<val, queue, tprocVars, cronVars>>

-----------------------------------------------------------------------------
(* The daemon.                                                             *)

CronStart ==
  /\ Step(cron, "start", "top")
  /\ SEMOP(P(Sems, wake_up_cron_sem, cron))
  /\ UNCHANGED <<tprocVars, cronVars>>

(* Mutants: the end is not looked for; one T-process is left. *)
NoneLeftNever == FALSE
NoneLeftEarly == active <= 1

NoneLeft == active = 0

(* SYS2 kills the T-processes with cron, which is their parent.  They were  *)
(* created before cron and run before it on the ready queue: a quantum is   *)
(* enough for tprocess.                                                     *)
CronTop ==
  /\ At(cron, "top") /\ \A t \in T : pc[t] # "begin"
  /\ Goto(cron, IF NoneLeft THEN "dead" ELSE "lock")
  /\ UNCHANGED <<val, queue, tprocVars, cronVars>>

CronLock ==
  /\ Step(cron, "lock", "scan")
  /\ SEMOP(P(Sems, cron_table_sem, cron))
  /\ i' = 1 /\ awoken' = FALSE
  /\ UNCHANGED tprocVars

(* Mutant: any entry is due. *)
DueAny(t) == armed[t]

Due(t) == armed[t] /\ left[t] = 0

CronScan ==
  /\ At(cron, "scan") /\ i <= MAXTPROC
  /\ IF Due(i)
     THEN /\ armed' = [armed EXCEPT ![i] = FALSE]
          /\ awoken' = TRUE
          /\ Goto(cron, "release")
          /\ UNCHANGED i
     ELSE i' = i + 1 /\ UNCHANGED <<pc, armed, awoken>>
  /\ UNCHANGED <<val, queue, left, active>>

(* Mutants: the process is not released; cron counts the release twice. *)
ReleaseVectorNoV(t) == V(P(Sems, wake_up_cron_sem, cron), cron_table_sem)
ReleaseVectorTwice(t) ==
  V(P(P(V(Sems, t), wake_up_cron_sem, cron), wake_up_cron_sem, cron), cron_table_sem)

ReleaseVector(t) == V(P(V(Sems, t), wake_up_cron_sem, cron), cron_table_sem)

CronRelease ==
  /\ Step(cron, "release", "scan")
  /\ SEMOP(ReleaseVector(i))
  /\ i' = i + 1
  /\ UNCHANGED <<tprocVars, awoken>>

(* After a turn without a release cron gives the table back and waits for   *)
(* the pseudo-clock; the releases have given it back already.               *)
CronScanned ==
  /\ At(cron, "scan") /\ i = MAXTPROC + 1
  /\ IF awoken THEN Goto(cron, "top") /\ UNCHANGED <<val, queue>>
     ELSE SEMOP(V(Sems, cron_table_sem)) /\ Goto(cron, "clock")
  /\ UNCHANGED <<tprocVars, cronVars>>

PseudoClock ==
  /\ Step(cron, "clock", "top")
  /\ UNCHANGED <<val, queue, tprocVars, cronVars>>

Tick ==
  /\ pc[cron] # "dead" /\ \E t \in T : left[t] > 0
  /\ left' = [t \in T |-> IF left[t] > 0 THEN left[t] - 1 ELSE 0]
  /\ UNCHANGED <<pc, val, queue, armed, active, cronVars>>

-----------------------------------------------------------------------------
(* p1a has created the T-processes and becomes cron.                       *)
Init ==
  /\ pc = [p \in Process |-> IF p = cron THEN "start" ELSE "begin"]
  /\ val = [s \in Semaphore |-> IF s = cron_table_sem THEN 1 ELSE 0]
  /\ queue = [s \in Semaphore |-> <<>>]
  /\ armed = [t \in T |-> FALSE]
  /\ left = [t \in T |-> 0]
  /\ i = 1 /\ awoken = FALSE
  /\ active = 0

Delay(t) == LockTable(t) \/ SetWakeUpTime(t) \/ Sleep(t)
End(t)   == TestLast(t) \/ WakeCron(t) \/ Die(t)
Daemon   == CronStart \/ CronTop \/ CronLock \/ CronScan \/ CronRelease \/ CronScanned

Next == \/ \E t \in T : \/ Count(t) \/ StartIO(t) \/ EndIO(t)
                       \/ StartDelay(t) \/ Delay(t) \/ Terminate(t) \/ End(t)
        \/ Daemon \/ PseudoClock
        \/ Tick

Spec == Init /\ [][Next]_vars

Interrupt == PseudoClock \/ \E t \in T : EndIO(t)

(* Round robin and time that passes: whoever can go on does.  The pseudo-    *)
(* clock counts the quanta that expire (int.c:316), and each interrupt of a *)
(* terminal loads the interval timer afresh for the process it releases:    *)
(* that one of the two comes is all that is certain.  Programs need not     *)
(* call anything, and a read may wait for its line for ever.                *)
FairSpec == /\ Spec /\ WF_vars(Daemon) /\ WF_vars(Interrupt) /\ WF_vars(Tick)
            /\ \A t \in T : WF_vars(Count(t)) /\ WF_vars(Delay(t)) /\ WF_vars(End(t))

-----------------------------------------------------------------------------
(* A delayed process is never forgotten: cron will come to its entry, or is *)
(* about to release it.  And no entry is left over from a delay that has    *)
(* ended: one that is set belongs to a process that sleeps or goes to.      *)
NotForgotten ==
  \A t \in T :
    /\ Waits(t, t) => armed[t] \/ (pc[cron] = "release" /\ i = t)
    /\ armed[t] => Waits(t, t) \/ pc[t] = "sleep"

(* Cron sleeps only when nobody is delayed and it need not end, or when a   *)
(* process that it has released too early, before its sleep vector, is      *)
(* about to wake it: the counts of wake_up_cron_sem balance, whatever the   *)
(* order of delay and release.  It need not end as long as some T-process   *)
(* has its test of active_t_processes, or the V that follows, before it.    *)
CronAwake ==
  Waits(cron, wake_up_cron_sem) =>
    \/ \E t \in T : pc[t] = "sleep" /\ ~armed[t]
    \/ (\A t \in T : ~Waits(t, t)) /\ (\E t \in T : pc[t] \notin {"ending", "dead"})

(* The daemon takes the system down only when every T-process has ended     *)
(* ("it shuts down if there are no T-processes running", support.c:701).    *)
ShutsDownLast ==
  pc[cron] = "dead" => \A t \in T : pc[t] \in {"exiting", "last", "ending", "dead"}

(* "The caller is to be delayed at least this long" (slsyscall1.c:203): cron *)
(* lets nobody go before the time it has computed has passed.               *)
AtLeastThisLong ==
  [][\A t \in T : Waits(t, t) /\ ~Waits(t, t)' => left[t] = 0]_vars

(* A delay ends, unless the T-processes that are not delayed go on with     *)
(* terminal I/O for ever: cron is told of it in either order, and looks at  *)
(* the table each time that the pseudo-clock releases it.                   *)
DelayEnds ==
  \/ \A t \in T : Waits(t, t) ~> ~Waits(t, t)
  \/ []<><<\E t \in T : EndIO(t)>>_vars

(* When the last T-process has ended, cron ends: "your operating system     *)
(* should shut down" (slsyscall1.c:281).                                    *)
ShutsDown == (\A t \in T : pc[t] = "dead") ~> pc[cron] = "dead"
=============================================================================
