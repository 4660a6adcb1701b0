# Hoca OS: a TLA+ model of the nucleus and of the processes above it

Hoca OS is a small operating system for a simulated 68000 machine. This
directory holds TLA+ modules that model it, TLC configurations that check them on
small instances, and TLAPS proofs about them for every size. Source paths are
relative to the repository root (`src/`).

## 1. Inventory

| Component | Files | State it keeps | Operations | Hard part |
|---|---|---|---|---|
| Process queues | `queues/procq.c`, `h/procq.h` | `procTable`, the `p_link`s of each entry, `qcount`, the free list, a tail pointer for each queue | `insertProc`, `removeProc`, `outProc`, `allocProc`, `freeProc`, `headQueue`, `initProc` | an entry is on up to SEMMAX circular lists at once, through links whose index differs from entry to entry |
| Active semaphore list | `queues/asl.c` | `semdTable`: a doubly linked list sorted by address, a free list, the queue of each descriptor; `semvec` of each process | `insertBlocked`, `removeBlocked`, `outBlocked`, `headBlocked`, `headASL`, `initSemd` | descriptors move between the lists while `outBlocked` walks one; the descriptors can run out |
| System calls | `nucleus/traps/syscall.c` | the process tree, the semaphores (in the memory of programs) | SYS1 `createproc`, SYS2 `killproc`, SYS3 `semop`, SYS4 `notused`, SYS5 `trapstate`, SYS6 `getcputime`, `trapsysdefault` | a vector of P's and V's applied one after the other while the caller is still at the head of the ready queue; recursive kill of processes that are blocked or ready |
| Scheduler | `nucleus/traps/main.c` | the ready queue | `schedule`, `main`, `init` | every path must leave the interval timer running |
| Interrupts | `nucleus/interrupts/int.c` | device semaphores and completion status, `PSEUDO_CLOCK` and its semaphore | SYS7 `waitforpclock`, SYS8 `waitforio`, `intsemop`, `intclockhandler`, the four device handlers, `intdeadlock` | an interrupt before or after the call that waits for it; telling idleness, deadlock and normal end apart |
| Traps | `nucleus/traps/trap.c` | trap vectors and CPU time in the process table | `trapsyshandler`, `trapmmhandler`, `trapproghandler` | vectors that outlive their process; CPU time lost on pass-up |
| Delay and cron | `support/part1/support.c` (`cron`), `slsyscall1.c` (`delay`, `terminate`) | `CRON_TABLE`, `cron_table_sem`, `wake_up_cron_sem`, `active_t_processes` | SYS13, SYS17, the cron daemon | a protocol of three semaphores between preemptible processes |
| Virtual memory | `support.c` (`slmmhandler`), `support/part2/page.c` | page tables, `pf_ctr`, `sem_pf`, `sem_mm` | page fault, `getfreeframe`, `putframe` | two faults on one shared page; frames are never returned |
| Terminal I/O | `slsyscall1.c` | the device registers, an I/O buffer for each T-process | SYS9, SYS10 | data copying; the control is SYS8 |
| Start-up | `support.c` (`p1`, `p1a`, `tprocess`), `bootcode.c` | segment and page tables | run once | straight-line |
| Nucleus test suites | `nucleus/traps/p1.c`, `p1.2.c`, `nucleus/interrupts/intp1.c` | their semaphores, `p1p2synch`, the states saved by the traps of `p5` | up to 20 processes, through every call of the nucleus | with interrupts enabled a suite has far more interleavings than the one a run of it shows |
| Other test programs | `queues/p1test*.c`, `support/*/t*.c` | | sequential drivers of the queues, user programs of the support level | |
| Second support part | `support/part2/slsyscall2.c` | | empty stubs | |

**How they interact.** A program enters the nucleus by a trap, a device or the
timer by an interrupt; both save the state of the interrupted process in a fixed
area and start a handler with interrupts masked, on one CPU. A handler works on the
ready queue (`procq.c`) and the semaphores (`asl.c`, which puts its descriptors'
queues in `procq.c`), and ends by loading the interrupted process again or by
`schedule()`. The support level runs *as processes* with interrupts enabled: its
only mutual exclusion is SYS3.

**What makes each part correct.** Queues: first in first out, no entry and no
link lost, `qcount` the number of queues. Semaphores: a negative value counts the
waiters, on every path including a kill. Processes: ready or blocked, never both
and never neither; a kill takes the whole family. Scheduler: the running process
has a quantum; a ready process runs. Devices: an interrupt is matched with one
SYS8 whatever the order. Idle CPU: stopped only when an interrupt will wake
somebody, and the two terminations are told apart correctly.

## 2. Modules

| Module | Models |
|---|---|
| `Fifo` | a queue of process table entries, in a form from which any entry can leave |
| `ProcQueueSpec` | what `procq.c` promises: FIFO queues and a free list |
| `ProcQueue` | `procq.c` on the links themselves; implements `ProcQueueSpec` |
| `ProcQueueInv` | where every link leads, given the queues: the inductive invariant |
| `AslSpec` | what `asl.c` promises: one queue for each semaphore, a number of descriptors |
| `Asl` | `asl.c` on its linked lists; implements `AslSpec` |
| `AslInv` | where every link of a descriptor leads, and what a vector has in it: the inductive invariant |
| `Nucleus` | system calls, scheduler, timer and device interrupts over the promised queues |
| `NucleusInv` | the discipline of SYS3 vectors under which the nucleus is right, and the inductive invariant |
| `DeviceIO` | extends `Nucleus` with the completion status that SYS8 and the device interrupts hand over |
| `Traps` | extends `Nucleus` with the trap vectors of SYS5, the pass-up of traps, the processor mode, and the CPU time of SYS6 |
| `Machine` | composes the three: each handler with all it changes, under programs that do anything they may |
| `Instructions` | the instructions of a test program that the nucleus sees |
| `P1`, `P12`, `Intp1` | the programs of the three suites `p1.c`, `p1.2.c`, `intp1.c` |
| `ProcTree` | extends `Nucleus` with the lists of children in which `syscall.c` keeps the tree of processes |
| `ProcTreeInv` | which entries every list leads through, and in what order: the inductive invariant |
| `TestPrograms` | composes `Machine` and `ProcTree` with the suites: the processes run these programs |
| `Cron` | delay, terminate and the cron daemon: preemptible processes over SYS3 |
| `Memory` | page faults and frames: preemptible handlers over SYS3 |
| `FifoProofs`, `ProcQueueProofs`, `AslProofs`, `NucleusProofs`, `MachineProofs`, `TreeProofs`, `CronProofs`, `MemoryProofs` | the TLAPS proofs |
| `MCProcQueue`, `MCProcQueueSlots`, `MCAsl`, `MCNucleus`, `MCMachine`, `MCTests`, `MCCron`, `MCMemory` | the instances for TLC |

`Machine` implements `Nucleus` (theorem `MachineIsNucleus`), whose queues are those that
`ProcQueue` and `Asl` are shown to implement (theorems `LinksImplementFifo`, `LinksOfTheNucleus` and
`ListsImplementQueues`, runs `procq_links` and `asl_links`); `TestPrograms`, with the
tree of processes in lists, implements it as well (theorem `TestsRunOnNucleus`).

### Nucleus

`q[k].mem` is the set of processes on queue `k`, `q[k].ahead[p]` those before `p`.
`q[RQ]` is `readyQueue`; the caller of a system call is its front, as
`headQueue(readyQueue)` is in the code. `val[s]` is `*semAddr`. `cpu` says what the
machine does: run the front of the ready queue, execute SYS3 for it, stand still in
`stop`, or have halted: with one of the two messages of `intdeadlock`, or by SYS4 (`error`). `timer` is the interval
timer: `armed` by LDIT, `pending` when it has expired and the interrupt has not been
taken. `ticks` is `PSEUDO_CLOCK` divided by QUANTUM, so `Ticks` is 100000 / 5000 = 20
in the code. `busy` and `io` are the environment: which devices work, and for whom.

One action is one handler with all it calls, up to the LDST or `stop` that ends it:
`CreateProc`, `KillProc`, `NotUsed`, `WaitForPClock`, `WaitForIO`, `ClockInterrupt`,
`DeviceInterrupt`. SYS3 is split (`Semop`, one `SemopStep` for each element,
`SemopReturn`) so that the states between two elements are visible; interrupts are
masked, so only the countdown of the timer (`TimerExpires`) happens in between.
`StartIO` is a program writing a device register (SYS9 and SYS10 do it before SYS8).

Left to `Traps` and `DeviceIO`: SYS5 and SYS6, the pass-up of traps, CPU time, completion
status. A trap that is not passed up is `KillProc`. Abstracted: processor states and
registers, the text of messages. A process may mask interrupts in its own status register (p1 does); the
model lets an interrupt come at any time a process runs, which allows more.

Assumed of programs: a vector does not contain two P's of one semaphore (the same
entry would be put twice on one queue); a device is used by one process at a time, as
the comment at `int.c:128` says ("a device can ONLY block 1 process at any given
moment"), and is started again only when its last completion has been asked for or
belongs to nobody; fewer than SEMMAX P's to a vector (`insertProc` panics).

### DeviceIO

`op[d]` stands for what the registers of device `d` describe (`d_dadd`, `d_stat`): two
operations that follow each other differ, which is all the property has to tell apart.
`stat` is `deviceCompletionStats`, `got[p]` what D2 and D3 of `p` hold since it started its
last operation. `want` and `orphaned` are history: the operation `p` has started last, and the devices
with an operation whose process has been killed before its SYS8 returned. On these
the code keeps its promise no longer: `outBlocked` sets the semaphore back to 0, the interrupt then
finds nobody and leaves 1, and the next SYS8 returns at once with the old status
(`int.c:261`). `CompletionIsMine` says so by leaving `orphaned` out; the rest it promises in every order of call,
interrupt, preemption and kill.

### Traps and Machine

`vector[p]` has the kinds of trap (`prog`, `mm`, `sys`) for which the entry of `p` in
`procTable` has an old and a new area; `user` are the processes in user mode. `now` is the time of
day, `start` and `total` are `last_start_time` and `total_processor_time`. `used`, `lost` and
`specified` are history: the CPU time a process had, the part of it that
`trapproghandler` and `trapmmhandler` drop when they pass a trap up (they restart the clock of
the process without charging it first: finding 5), and the kinds for which it has itself called SYS5.

Every operator of `Traps` is the part of a handler that concerns these variables; `Machine` conjoins it
with the action of `Nucleus` and the operator of `DeviceIO`, so one action of `Machine` is
again one whole handler. `SysTrap` is `trapsyshandler` around SYS1 to SYS8, `SysPassUp` and
`TrapPassUp` are the three ways up, `Die` is every way to `killproc`. A program may do anything: issue any call, trap,
load a state in either mode, start a device. Time passes (`Run`) while a program runs or the CPU
is stopped; a handler takes no time. So `CpuTimeAccounted` has two halves: what SYS6 returns and what was dropped add up to what the process
has used (`NothingMissing`), and nothing is dropped of a process whose entry has no vector for a program or memory management trap (`Drops`). `Free` is `resetProcess`, which does not clear the vectors (finding 4).

### ProcTree

`parent` of `Nucleus` is all the tree that `Nucleus` needs, and `Subtree` the family that SYS2 kills. The code
finds that family through `children_proc` and `sibling_proc`: `Link` is what `createproc` does to them, `Unlink` what `killproc`
and the `resetProcess` of every victim do, `Family` and `Descend` are `killprocrecurse`, and `Reached` is the walk
along links that all of them make. `TreeTrue` says that lists and parents describe
the same tree. `TestPrograms` kills `Family(Caller)`, so whatever the lists get wrong, its properties see: a process
survives its parent, or an entry is freed twice.

### Instructions, P1, P12, Intp1, TestPrograms

A program is a sequence of the instructions that enter the nucleus or start the printer. The
three suites are written down from `p1.c`, `p1.2.c` and `intp1.c`, one sequence for each function; messages
are left out, for they leave no trace in the nucleus. What the programs themselves check is `Complaint`: that nothing goes on after its SYS2,
a fatal trap or a P that nobody answers; that SYS1 finds an entry; that an I/O operation returns its own completion; that p1 has waited for
p2; that V and P cancel out; that the CPU time measured around a loop is no more than the real time and no less than
the loop takes; that CPU time goes on after a SYS7 where it was; that p5 gets no other program trap than its two.
The loops whose time is measured are `Waste`, which lets one unit of time pass (`Run` of `Machine`); `times[p]` keeps the last two readings of
STCK and of SYS6, until the program compares them (`Check`). The thresholds of the code (5000 and 1000 microseconds) are what its loops are expected to take;
the model expects one unit for each `Waste`. No time passes elsewhere in the suites, so real and CPU time differ
when another process wastes time in between. `at[p]` is the function and the position of `p`, `old` the three areas in which
the nucleus saves the state of `p5`, `p1p2synch` itself. Every action of `TestPrograms` is an action
of `Machine` together with the condition that the program of the caller issues it here, and `Dies` kills the family that the lists of `ProcTree` lead to. `Entry` fixes which free
entry SYS1 takes: no program can tell. The processes of `p1.c` and `p1.2.c` and the first instruction of `intp1.c` run with
interrupts masked (`Unmasked`); the printed loops "for all semaphores s[]" have one round, as every
round does the same with a semaphore of its own.

`TestSpec` has no fairness: what it checks is safety, and that the only state without a successor
is the normal end (deadlock checking is on, `Halted` stutters). The bounds: in `intp1.c` p1 creates `Rounds` families of p8 one after the other, the loops of p3, p6 and
p7 end after `Turns` rounds, `MaxTime` is the time all the loops of a suite take (less would stop a program in its loop), and
`MaxAsync` interrupts come while a process runs. The ones that come while the CPU is stopped, on which
the suite depends, are not limited.

### ProcQueue

`link[p][s]` is `p_link[s]` of entry `p`, `tail[k]` the `proc_link` of queue `k`,
`qcount` and `procFree_h` are themselves, `ret` is the value returned. `Walk(k)` is
the way round a queue that `outProc` takes, `FreeWalk` the way down the free list.
`SlotOf` states which link the nucleus's use of a queue leads to: an entry goes on
the ready queue when it is on no other (link 0), on a semaphore by SYS3 while it is
on the ready queue (link 1), on a device semaphore after it has left the ready queue
(link 0). A call of `insertProc` on a full entry, a panic in the code, is disabled.
`queueOf` and `freeOf`, the mapping to `ProcQueueSpec`, are what these walks meet, in the order in which
they meet it first. `Matched(k)` says that the tail and the head of queue `k` are on it with the same link index, and `MatchedSpec`
has the runs in which no head leaves a queue unmatched; `procq_slots` shows what happens in the others. In `procq_links`
`SlotOf` is `Any` everywhere, so that entries are on one queue with different links.

### Asl

`semd` is `semdTable` with its two list heads; `semvec` is the vector of each
process; `credit` records how often a call has incremented `*semAddr` (only
`outBlocked` does). The loop of `outBlocked` is the recursive function `Out`, one
application of `Turn` for each turn; a turn may free the descriptor it is at, which is why the code
reads `s_next` first. `waitingOf`, the mapping to `AslSpec`, is the queue that `Lookup` finds. The queue of a descriptor is a `Fifo`, as promised by
`ProcQueueSpec`.

### Cron

The support level runs as processes that the timer preempts anywhere, so an action of
`Cron` is one system call, or the code between two of them that touches one shared
variable. `pc[p]` is the next such step of process `p`: for a T-process `begin` (in
`tprocess`), `user`, then `io` while SYS9 or SYS10 waits for the terminal, `lock`, `write` and `sleep` of `delay`, or `exiting` (the test
of `active_t_processes`), `last` (the V to cron) and `ending` (SYS2) of `terminate`; for cron `start`, `top`, `lock`, `scan`, `release`, `clock` of its loop.
`val` and `queue` are the semaphores as SYS3 changes them, vector by vector. `armed[t]`
is `CRON_TABLE[t].wakeUpTime != -1`; `left[t]` is what is left of the time until the
wake-up time, counted down by `Tick` (so the sum of two clock values and its overflow are
not modelled). When cron ends, its children, the T-processes, end with it.

Cron gives `cron_table_sem` back in the vector that releases the first entry (`support.c:757-759`)
and goes on with the table without it; a second release gives it back again, and from then on two
processes may hold it, although the comment at `support.c:723` says "Allow only 1 process to
read/write the Cron Table". The run `cron` shows that delays survive it: an entry has one writer at
a time even so, because its process writes it only when cron has reset it, and a release that comes
before the sleep is remembered by the semaphore.

Cron's SYS7 is `PseudoClock`. It returns only if quanta expire, which a T-process can prevent that does terminal I/O all the
time (finding 1); `StartIO` and `EndIO` are there for that. So the two are fair together only (`Interrupt`): one of
them comes. `DelayEnds` says that delays end unless terminal I/O goes on for ever; finding 1 is what happens then.
`active_t_processes++` and `--` are one step each: the model assumes that they compile to one instruction on memory, which
an interrupt does not divide. If they were a read and a write, a count could be lost.

A T-process counts itself (`active_t_processes++`) in the first quantum it gets, and the
T-processes are ahead of cron on the ready queue from their creation, so `CronTop` waits
for them; otherwise `active` could be 0 before anybody has begun. `MaxVal` stops a
semaphore at twice the number of processes. Only `cron_table_sem` gets there;
since each process P's it at most once before it V's it, it blocks nobody from then on, as
in the code.

### Memory

`slmmhandler` and the `getfreeframe` it calls, with the same granularity as `Cron`. `pc[t]`
names the next step: `fault` (P of `sem_pf`), `enter` (P of `sem_mm`), `read` and `count` (the two
halves of `pf_ctr++`), `leave` (V), then `lock`, `map` and `unlock` in the handler. `pt[x]` is
the frame of page descriptor `x`, `None` while `pd_p` is 0; the descriptors of segment 2 are
common to all processes, because their segment tables point to one `shared_pd_table`. Frames
are numbered from `pf_start`. `Init` is the state after `p1` has given every process a frame
for its bootcode. `putframe` is empty, so `Terminate` gives nothing back; `pagein` halts and is
never called. The contents of pages are not modelled.

## 3. Runs

| Run | Shows | Bounds |
|---|---|---|
| `nucleus` | all safety properties of `Nucleus`, round robin and release by devices | 3 processes (two of which can wait while a third acts, and a grandchild exists), 2 SYS3 semaphores, 1 device, `Ticks` 2 (a pseudo-clock tick that releases and one that does not), `MaxVal` 1, no symmetry because of the liveness properties; 148,926 states. The safety properties and the inductive invariant `Inv`, which the proofs establish for every instance, also hold with `MaxVal` 2 and the vector `<V(s1)>` besides (337,120 states up to symmetry of the processes), and the same with `Vectors <- ManyVectors` and `NumDesc = 5` (415,784 states), where a process waits on two semaphores at once and runs when the second is V'ed; `tests` has such vectors too |
| `machine` | SYS8 returns the completion of its caller's own operation; every unit of CPU time is charged once, or dropped by a passed-up trap of a process that has a vector for it | 2 processes (one acts while the other waits, is preempted or is created again in the entry of a dead one), 1 semaphore, 1 device, one kind of trap, `MaxTime` 1 (a unit of time can fall between any two handlers), no symmetry; 963,448 states. The proofs have no bounds |
| `tests` | the three suites pass, in every interleaving within the bounds: nobody complains, of CPU times either; SYS6 gives its caller the time that caller has used (`ReadsOwnTime`); they come to their normal end, and the nucleus keeps its promises (`NucleusHolds`) for the vectors with several P's that they use, and for a tree of processes kept in lists (`TreeTrue`) through which families of up to three generations are killed and whose entries are used again | 20 process entries, which a single suite does not use up; `Ticks` 2; `MaxVal` 10, more than any suite reaches; `Rounds` 2 (a family, and another one in its entries), `Turns` 1, `MaxTime` 2, `MaxAsync` 1 (one preemption or completion at any point of the suite, besides those of an idle CPU); 562,102 states |
| `procq_links` | `procq.c` implements the queues `Nucleus` is written with | 3 entries, 2 queues, 2 links, any of them for any queue: a head, a middle and a tail to remove, with the same link as their neighbours or another one; 5,029 states |
| `asl_links` | `asl.c` implements one queue for each semaphore | 3 descriptors and 4 addresses (head, middle and end insertions; one descriptor short), 2 processes on 2 queues each |
| `cron` | no delay is forgotten or too short, every delay ends unless terminal I/O goes on for ever, cron sleeps only when nothing is left for it and ends exactly when it should | 2 T-processes, as in `tconst.h`, delays of 0 to 2 ticks: entries due together, one after the other and in the wrong order; 10,915 states |
| `memory` | no frame is given twice, none is made up, a fault that has a frame is served | 3 processes, 2 private pages each and a shared one, 6 frames: fewer than can be asked for, so that processes also block for ever on `sem_pf` |
| `pclock_starves` | violation: finding 1 | 3 processes, 1 semaphore, 1 device |
| `procq_slots` | violation: finding 2 | see `MCProcQueueSlots.cfg` |
| `memory_shared` | violation: finding 3 | the instance of `memory` |
| `inherited_vectors` | violation: finding 4 | the instance of `machine` without time |
| `cpu_time_lost` | violation: finding 5 | the instance of `machine` |

`OffspringDead` of `tests` says that `p4` and its second incarnation are dead when `p5` V's `blkp4`. `intp1.c:510` itself
is only "reasonably sure" of it: `p5` waits for half a clock interval, and enough preemptions
in a row could keep `p4` from its end. One preemption does not.

Symmetry is used where all the constants of a set are used alike and no liveness is checked: the processes in `asl_links`.
Deadlock checking is on in `procq_links`, `asl_links` and `tests`. It is off in the runs of `Nucleus`
and `Machine`, whose machine halts, of
`Cron`, where everybody ends, of `Memory`, where the frames run out, and in the violation run of `ProcQueue`. In `nucleus`, `MaxVal` bounds the V's of
programs only (guard of `Semop` and `StartIO`).

**Fairness** (`FairSpec` of `Nucleus`). The quantum of a process passes while that process has
the CPU, and `schedule()` gives each process a fresh one: weak fairness of
`TimerExpires` for each process separately, *not* across processes. The same while
the CPU idles. A pending clock interrupt and the interrupt of a busy device are taken
although SYS3 masks interrupts for a while: strong fairness. SYS3 itself goes on:
weak fairness of its steps. Nothing is assumed of programs: they need not call V,
block or terminate. One that calls SYS4 halts the machine for everybody: `Stopped` in the three properties. A program that runs for ever with interrupts masked is not
modelled for these properties. `FairSpec` of `Cron` rests on `RoundRobin`: a process that
is ready goes on, so cron outside SYS7, a started `delay` and a started `terminate` are weakly fair,
and time passes. Of the pseudo-clock and the terminals only `Interrupt` is fair: as long as cron waits for the one or a T-process for the other, one of them
comes. With nobody in terminal I/O that is the pseudo-clock: while cron is in SYS7 each other process can call `delay` or fault for a new frame only so
often before it waits for cron or for ever, so in the end the CPU is idle, where nothing reloads the timer, or runs a process that does not block, and its quanta expire. A T-process need not call anything, and a terminal need not answer.
`ShutsDown` needs no more than that, since dead T-processes do no I/O.
`Memory` has the same fairness for a handler that has begun.

### Findings

1. `pclock_starves`. `schedule()` reloads the interval timer whenever a process is
   dispatched, and `PSEUDO_CLOCK` counts only timers that have run out. A process
   whose device waits are shorter than a quantum stops the pseudo-clock, and with it
   every process blocked by SYS7, cron included: cron ends a delay only after its SYS7 (`support.c:779`), so a
   T-process that does terminal I/O all the time keeps a delay of another one, long over, from its end,
   although `slsyscall1.c:203` promises a delay "not substantially longer". `intp1.c:15` calls CLOCKINTERVAL the
   "interval to V clock semaphore".
2. `procq_slots`. `removeProc` clears a link of the removed head at the index of the
   *tail's* link. With `<P(s1), P(s2)>` from one process and `<P(s2)>` from another,
   V(s2) removes the first process and clears its place on `s1`; it is never released.
   The suites never wait for a semaphore through different links, so `tests` does not meet it.

3. `memory_shared`. `slmmhandler` does not look again, once it has the lock, whether the page is
   still missing. Two processes that fault on the same page of segment 2 both take a frame;
   the second replaces the first one's, and what has been written there is lost. A page of
   segment 1 has one process, so it cannot happen there.

4. `inherited_vectors`. `resetProcess` clears every field of a freed entry but the six trap
   areas. The next process in the entry has the vectors of its predecessor: its first
   trap goes to a handler of another program, and its own SYS5 counts as a second one and kills it. The suites are
   not affected: `p5`, the only process that specifies vectors, terminates, but its entry is
   not used again by a process that traps.

5. `cpu_time_lost`. `trapproghandler` and `trapmmhandler` restart the clock of the process without charging it first
   (`trap.c:165` and 139). `syscall.c:290` says that SYS6 gives the CPU time "used by the process executing the instruction"; after
   a trap that was passed up it gives less. The suites measure only processes without vectors.

One more disagreement has no run of its own. A vector such as `<P(s), V(s)>` with `s = 0` puts its
caller on the queue of `s`, takes it off again, and then takes it off the ready queue
(`syscall.c:208`): it is on no queue at all, and if it was the last process the nucleus reports a normal
termination, although the comment at `syscall.c:152` has the caller come off the ready queue only if it is stuck on a
semaphore. `POnce` in `NucleusInv` excludes such vectors, so neither `NoLostProcess` nor any other property
of the runs would catch it.

## 4. Proofs

`NucleusProofs` proves `Spec => []Inv` for every number of processes, semaphores,
devices, ticks and every set of vectors, under the named assumptions of `Nucleus`
and `DisciplineAssumption` of `NucleusInv`. It asks two things of programs. No element of a vector uses
a semaphore that an earlier one P's (`POnce`): the vector `<P(s), V(s)>` above shows why. And the
descriptors do not run out, as `insertBlocked` fails silently: either every vector has one P at
most (`SingleP`) and there is a descriptor for every process (both are MAXPROC in the code), or
there are more descriptors than semaphores that anybody waits for (`Awaited`). Without one of them
a process that waits for several semaphores takes several descriptors, and MAXPROC are not
enough for MAXPROC processes. The vectors of the three suites satisfy it, with 19 such semaphores and
20 descriptors; TLC evaluates the assumption in `tests` and in the runs of `MCNucleus`.

For vectors with several P's the theorems are about the queues as `ProcQueueSpec` promises them. The links
of `procq.c` keep that promise exactly as long as no head leaves from behind a tail with another link index
(`LinksRightIffMatched`); where vectors bring that about, finding 2 comes first. With one P to a vector they never do:
`LinksOfTheNucleus` shows that whoever comes on a queue of the nucleus has just those links in use that lead `insertProc`
to the link of that queue, 1 for a semaphore of SYS3 and 0 for the others (`OneLinkPerQueue`), and `UniformMatches` that
queues with one link each are always matched. The step between the two is `findAvailableQueueSlot`, which takes the first idle link.
The case that needs care is a caller of SYS3, which leaves the ready queue (link 0) while it keeps its place on the semaphore (link 1).

None of the safety properties is inductive alone. `Inv` adds: the queues are totally
ordered, so `Front` exists and is unique (`Queues`, from the lemmas of `FifoProofs`);
whoever waits for a device or the pseudo-clock waits for nothing else, and nobody waits for two semaphores
unless there are vectors with two P's (`WaitsFor`), so that an interrupt puts its process on the
ready queue, and a V does unless the process still waits elsewhere (`ReleaseQueues`, `ReleaseBlocked`); what SYS3 has done so far (`CallState`), by which `SemopReturn` takes off the
ready queue only a process that is on a semaphore, though the vector may have V'ed semaphores in between; that the timer also runs for
those who wait for the pseudo-clock (`ClockRuns`), which `IdleIsWakeable` needs; who
waits for which device (`DeviceOwner`); and `NoOrphans` in the form in which a step
preserves it (`Descended`: every set that has the root and is closed under children
has all the live processes).

`MemoryProofs` proves, for every number of processes, pages and frames, that `MemInv` is
inductive. `OneOwner` alone is not: it needs that a frame that has been counted is below
`pf_ctr` and one being counted is equal to it (`BelowCounter`), and that only one process is
between the read and the increment (`OneHolder`: `sem_mm` is 1 and free, or has one holder and
counts its waiters). That `pf_ctr` stops at MAXFRAMES, which no line of the code tests, is
`FramesLeft`: the value of `sem_pf`, the frames reserved and not yet counted, and `pf_ctr` add up
to MAXFRAMES.
`WhereTheyWait` and `OneHolder` give `HolderGoesOn` as well, the safety half of `FaultServed`.
For the pages themselves, `Missing` says that the page of a fault in progress is not there. It is inductive for every set of pages with at most one
fault at a time (`MissingNext`), so such pages keep their frames: those of segment 1 always (`PrivatePagesStay`, as only their own
process reaches them, `OwnFaults`), and all of them if no shared page has two faults at a time (`NoPageLost`). That is what finding 3 needs, and no less.

The last part of `NucleusProofs` is first come, first served: no operation on the queues but the end of a quantum puts anybody ahead of
a process that stays where it is. The lemma for each operator (`Keeps`) is about all the queues at once, because a
release takes a process from one queue and puts it on another.

`CronProofs` shows the protocol of `delay`, `terminate` and the daemon for every number of T-processes and any delays.
`DelayInv` relates the semaphore of an entry to the places of the two processes: it is -1 while the T-process
sleeps, 1 if cron has released it before its sleep vector, and 0 otherwise; whoever sleeps has an entry that is set or is
being released, and only its owner ever waits on it (`Place`). That gives `NotForgotten`; with the invariant that cron resets only entries
that are due, `AtLeastThisLong`. `CountInv` is what `active_t_processes` counts, `ShutsDownLast` follows. `CronAwake` needs a
balance (`LastInv`): the value of `wake_up_cron_sem`, plus the early releases, minus the sleepers, is the number of V's
that processes have added which ended as the last one; it is never negative, at least 1 when all have ended, and at
most the number of dead processes, so the semaphore never comes near its bound `MaxVal`.

`MachineProofs` first shows that every action of `Machine` is an action of `Nucleus` or leaves
its variables alone, so `Inv` holds for it as well. On top of it, `CompletionIsMine` needs `IOInv`: a process that has started
an operation owns the registers of its device until SYS8 returns; if the interrupt has come first, what it saved and the
value 1 of the semaphore are for that process alone; a device nobody has started is idle and its semaphore not
positive. `DeviceHandshake` and `DeviceOwner` of `Inv` say who the waiter is. `CpuTimeAccounted` needs `TimeInv`: no process
was started in the future, so a slice is never negative, and a free entry has no times, so that a process created in
it begins at 0; and `DropInv`: an entry of which time was dropped has a vector for such a trap. Both hold for every number of
processes, devices and kinds of trap and for any time.
`VectorsOnlyInherited` confines finding 4: an entry comes to have a vector that its process has not specified only when the process that
had specified it terminates, and no process loses one it has specified.

`ProcQueueProofs` and `AslProofs` prove the two refinements, which all of the above rests on. A mapping that
walks a list says nothing by itself about what the links must be, so each proof has an invariant that says
for every link where it leads, in terms of the queues and not of walks.
`LinkInv`: there are queues and a free list such that every entry's link for a queue leads to the
next entry of that queue, from the last round to the first, the tail is the last, every other link is
clear, and `qcount` is the number of queues. An operation changes links as `Linked` says of the queues
`ProcQueueSpec` leaves, and the walk from the tail meets the entries in order (`WalkMeetsInOrder`), so
the mapping finds just these queues (`MappingFound`) and the step is the promised one.
The invariant has the link of every entry for every queue as data of its own, so the entries of one queue may use different ones.
`TakeHead` then clears the right link of the head if the queue is `Matched`. If it is not, the head keeps the link it had for the queue, and
loses one for another queue or none at all. The other direction of `LinksRightIffMatched` rests on what right links have without the queues being named
(`LinksInRings`, from `LinkInv` by `RingsOfLinks`): an entry has as many links that lead on as `qcount` says, and the link that one of them leads to leads on as well;
each of them is led to by a tail or by a link of another entry (`EveryLinkLedTo`). After an unmatched removal one of the two fails (`UnmatchedBreaks`), so the
links are right in the runs of `MatchedSpec` and in no others.
`ListInv`: the active list leads through the descriptors with a queue that is not empty by address, and
back; the free list through the others, in some order `g` (it is a stack, so the order is that
in which they have come back); a vector has each semaphore its process waits for once. `Follows` is
one definition for both lists, of the members and a key by which they are ordered, and the lemmas for
putting in (`FollowsInsert`) and taking out (`FollowsRemove`) serve `insertActive`, `detach`, `allocate` and
`returnToFreeList` alike. What `outBlocked` has done after some turns is `Mid`: the descriptors below the one
it is at have lost the process, the others are as before, and `NextSame` shows that the list, from which descriptors
have gone meanwhile, still leads to the next one of the list it began with.
What a walk computes is a recursive function over `0 .. N`: `Iterates` shows that there is one, `UpTo` is
the induction over its places. Both are lemmas about sets of numbers in `FifoProofs`.

`TreeProofs` is about the tree of processes as `syscall.c` keeps it. `TreeInv` gives every entry a rank,
the order of creation, and says that the list of an entry leads through its children by rank (`InLine`), that
who has no parent has no sibling, and that a parent is live. `createproc` gives the new entry a rank above
the last one's (`InLineAppend`); `killproc` takes the caller out of the list of its parent
(`InLineSkip`) and resets the family. A walk (`Reached`) is the least set that
is closed under its links (`ReachedIsHull`, by well-founded induction on what it has not met), so it covers
a line that it enters at the head (`InLineCovers`), and a list has just the children
(`ListIsKids`). The other half needs `Descended` of `Inv`: an entry is not a descendant of itself
(`ParentOutside`), so the walk of `killprocrecurse`, which follows the siblings of the children and not those
of the caller, stays in the subtree (`FamilyIsSubtree`). Then every step of the
suites is a step of `Machine` (`TestsRunOnMachine`): a call, a trap of a kind that has a vector, a load in one of the two modes, an interrupt. What is
proved of `Machine` and of `Nucleus` holds for the suites, for any number of entries and any bounds; for SYS6 that gives
`ReadsOwnTime`: a process without vectors has no time dropped, and the SYS handler charges it before `getcputime` looks (`Sys6Reads`).

| Theorem | Property |
|---|---|
| `NucleusInvariant` | `Inv` |
| `TypeCorrect` | `TypeOK` |
| `SemaphoresCorrect` | `Accounting` |
| `ProcessesNotLost` | `NoLostProcess` |
| `OnePlaceEach` | `ReadyOrBlocked` |
| `KillTakesTheFamily` | `NoOrphans` |
| `DeadlockDetectionCorrect` | `HonestHalt` |
| `SleepEnds` | `IdleIsWakeable` |
| `QuantumRuns` | `Preemptible` |
| `DeviceHandshakeCorrect` | `DeviceHandshake` |
| `DescriptorsCorrect` | `DescriptorsSuffice` |
| `MachineIsNucleus` (Machine) | `Spec` of `Nucleus` |
| `CompletionsCorrect` (Machine) | `CompletionIsMine` |
| `TimesCorrect` (Machine) | `CpuTimeAccounted` |
| `MachineTypes` (Machine) | `MachineTypeOK` |
| `VectorsOnlyInherited` (Machine) | `VectorsLeftBehind` |
| `FirstComeFirstServed` | `NoOvertaking` |
| `LinksOfTheNucleus` (one P to a vector) | `OneLinkPerQueue` |
| `NucleusHoldsInTests` (TestPrograms) | `NucleusHolds` |
| `TestsRunOnMachine` (TestPrograms) | `MachineSpec` |
| `TestsRunOnNucleus` (TestPrograms) | `Spec` of `Nucleus` |
| `TestsGetTheirOwn` (TestPrograms) | `ReadsOwnTime`, `CompletionIsMine` |
| `TestsEndClean` (TestPrograms) | `CleanEnd`, of `EndsNormally` |
| `CronTypes` (Cron) | `TypeOK` |
| `DelaysRemembered` (Cron) | `NotForgotten` |
| `CronNotNeeded` (Cron) | `CronAwake` |
| `EndsLast` (Cron) | `ShutsDownLast` |
| `LongEnough` (Cron) | `AtLeastThisLong` |
| `FramesInBounds` (Memory) | `TypeOK` |
| `FramesNotShared` (Memory) | `OneOwner` |
| `NoDeadlockOnTheLock` (Memory) | `HolderGoesOn` |
| `PrivatePagesStay` (Memory) | `Stay`, for the pages of segment 1 |
| `NoPageLost` (Memory, one fault at a time on a page) | `PageStays` |
| `LinksAlwaysRight` (ProcQueue, matched removals) | `LinkInv` |
| `LinksImplementFifo` (ProcQueue, matched removals) | `ImplementsFifo` |
| `LinksTypeCorrect` (ProcQueue, matched removals) | `TypeOK` |
| `QcountCorrect` (ProcQueue, matched removals) | `QcountCounts` |
| `NoLinkLeaks` (ProcQueue, matched removals) | `LinksInUse` |
| `LinksRightIffMatched` (ProcQueue) | `LinkInv` exactly with matched removals |
| `UniformMatches` (ProcQueue, one link for each queue) | `MatchedSpec` |
| `ListsAlwaysRight` (Asl) | `ListInv` |
| `ListsImplementQueues` (Asl) | `ImplementsQueues` |
| `ListsTypeCorrect` (Asl) | `TypeOK` |
| `SortedAlways` (Asl) | `SortedBothWays` |
| `NoDescriptorLost` (Asl) | `DescriptorsConserved` |
| `VectorsTrue` (Asl) | `SemvecTrue` |

Only model-checked: the liveness properties and `FaultServed` (beyond the prover), and what the suites show
(`TestsPass`, `OffspringDead`, and of `EndsNormally` that there is no deadlock, are about these programs and this instance: the place of every process
in its text, and how often it is preempted).

## 5. Plan

Done: `Nucleus` with its proofs; `ProcQueue` and `Asl` with the proofs of their refinements; `Cron`; `Memory` with its proofs;
`DeviceIO`, `Traps` and their composition `Machine` with its proofs; `ProcTree` with its proofs and the nucleus test suites.

Nothing of the plan is left that the provers can reach: the liveness properties, and what depends on the texts of the suites, stay with TLC.

Two hazards have no property; `PROJECT.json` says why for each: the sum of clock values in `delay`
(`slsyscall1.c:225`), for `Cron` counts what is left and not the clock, and the frames that are never given back
(`page.c:108`), which is what the code says.

## 6. Not modelled

- Start-up (`p1`, `p1a` and `tprocess` of `support.c`, `bootcode.c`, `init` beyond the initial states): straight-line code that fills
  segment tables, page tables and trap areas once, before anything else runs. Its result is the `Init` of the modules.
- The copying of characters in SYS9 and SYS10: data without control. The device register and SYS8 they use are in `Nucleus`
  and `DeviceIO`.
- The queue drivers `queues/p1test*.c` and the user programs `support/*/t*.c`: one sequence of calls each, which
  `ProcQueue`, `Asl`, `Cron` and `Memory` make in every order.
- `slsyscall2.c` (empty stubs), the STLD stubs and trap area layout of `trap.c` (assembly and addresses), `myprint` (runs before HALT only),
  `pagein` (halts; never called).
