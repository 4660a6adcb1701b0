--------------------------- MODULE MachineProofs ----------------------------
(***************************************************************************)
(* The machine is a nucleus, so that the invariant of NucleusProofs holds  *)
(* for it too; on top of it, what SYS8 and SYS6 return is right, for every *)
(* number of processes, devices and kinds of traps.                        *)
(***************************************************************************)
EXTENDS Machine, NucleusProofs

-----------------------------------------------------------------------------
(* Every handler of the machine is one of the nucleus, or does not touch    *)
(* its state.                                                               *)
LEMMA MachineStep == [MachineNext]_machineVars => [Next]_vars
PROOF
<1> SUFFICES ASSUME [MachineNext]_machineVars PROVE Next \/ UNCHANGED vars
  OBVIOUS
<1> USE DEF Next
<1>1. CASE SYS1 \/ SYS3 \/ SYS3Step \/ SYS3Ends \/ SYS4 \/ SYS7
  BY <1>1 DEF SYS1, SYS3, SYS3Step, SYS3Ends, SYS4, SYS7
<1>2. CASE SYS6 \/ Run
  BY <1>2 DEF SYS6, Run
<1>3. CASE \E d \in Dev : SYS8(d) \/ Start(d) \/ Device(d)
  BY <1>3 DEF SYS8, Start, Device, WaitOp, StartOp, CompleteOp
<1>4. CASE \E k \in Kind : SYS5(k) \/ PassUpSys(k) \/ PassUpTrap(k)
  BY <1>4 DEF SYS5, PassUpSys, PassUpTrap
<1>5. CASE Die(Subtree(Caller))
  BY <1>5 DEF Die, KillProc
<1>6. CASE \E u \in BOOLEAN : Load(u)
  BY <1>6 DEF Load
<1>7. CASE Timer \/ Clock
  BY <1>7 DEF Timer, Clock
<1>8. CASE UNCHANGED machineVars
  BY <1>8 DEF machineVars
<1> QED BY <1>1, <1>2, <1>3, <1>4, <1>5, <1>6, <1>7, <1>8 DEF MachineNext

(* The machine implements the nucleus: the completion status, the vectors   *)
(* and the times change nothing in who runs and who waits.                  *)
THEOREM MachineIsNucleus == MachineSpec => Spec
PROOF
<1>1. MachineInit => Init
  BY DEF MachineInit
<1> QED BY <1>1, MachineStep, PTL DEF MachineSpec, Spec

-----------------------------------------------------------------------------
(* SYS8.                                                                   *)

(* A process that has started an operation owns the registers of its device *)
(* until SYS8 returns; if the interrupt comes first, what it saves and the  *)
(* value 1 of the semaphore stay for that process.                          *)
IOInv ==
  /\ IOTypeOK /\ CompletionIsMine
  /\ \A p \in Proc : io[p] # None => want[p] = Registers(io[p]) /\ got[p] = None
  /\ \A d \in Dev \ orphaned :
       /\ val[d] <= 1
       /\ (\A p \in Proc : io[p] # d) => val[d] <= 0 /\ d \notin busy
       /\ d \in busy => val[d] <= 0
       /\ d \notin busy => \A p \in Proc : io[p] = d => stat[d] = Registers(d)

LEMMA IOInitially == MachineInit => IOInv
PROOF
<1> SUFFICES ASSUME MachineInit PROVE IOInv
  OBVIOUS
<1>1. IOTypeOK /\ (\A p \in Proc : want[p] = None /\ got[p] = None /\ io[p] = None)
  BY DEF MachineInit, IOInit, IOTypeOK, Completion, Init
<1>2. \A d \in Dev : val[d] = 0 /\ d \notin busy
  BY Disjoint DEF MachineInit, Init
<1>3. CompletionIsMine
  BY <1>1 DEF CompletionIsMine
<1>4. \A p \in Proc, d \in Dev : io[p] # d
  BY <1>1, Disjoint, ProcAssumption
<1> QED BY <1>1, <1>2, <1>3, <1>4 DEF IOInv

(* A step that leaves the devices and their semaphores alone.              *)
LEMMA IOUntouched ==
  ASSUME IOInv, UNCHANGED ioVars, UNCHANGED devVars, \A d \in Dev : val'[d] = val[d]
  PROVE  IOInv'
PROOF BY DEF IOInv, IOTypeOK, CompletionIsMine, Answered, Registers, ioVars, devVars

LEMMA StartOpIO == ASSUME NEW d \in Dev, Inv, IOInv, StartOp(d) PROVE IOInv'
PROOF
<1>1. /\ Caller \in Proc /\ io \in [Proc -> Dev \cup {None}] /\ None \notin Dev
      /\ val' = val /\ io[Caller] = None /\ d \notin busy
      /\ (\A p \in Proc : io[p] # d)
      /\ io' = [io EXCEPT ![Caller] = d] /\ busy' = busy \cup {d}
  BY Disjoint, FrontOfQueue, ProcAssumption
  DEF StartOp, StartIO, Inv, TypeOK, Preemptible, Caller
<1>2. /\ op' = [op EXCEPT ![d] = 1 - @] /\ want' = [want EXCEPT ![Caller] = <<d, 1 - op[d]>>]
      /\ got' = [got EXCEPT ![Caller] = None] /\ stat' = stat /\ orphaned' = orphaned
  BY DEF StartOp
<1>3. IOTypeOK'
  BY <1>1, <1>2 DEF IOInv, IOTypeOK, Completion
<1>4. /\ io'[Caller] = d /\ want'[Caller] = <<d, op'[d]>> /\ got'[Caller] = None
      /\ \A p \in Proc : p # Caller =>
           io'[p] = io[p] /\ want'[p] = want[p] /\ got'[p] = got[p]
      /\ \A e \in Dev : e # d => op'[e] = op[e] /\ (e \in busy' <=> e \in busy)
  BY <1>1, <1>2 DEF IOInv, IOTypeOK
<1>5. CompletionIsMine'
  BY <1>1, <1>2, <1>4 DEF IOInv, CompletionIsMine, Answered
<1>6. \A p \in Proc : io'[p] # None => want'[p] = Registers(io[p])' /\ got'[p] = None
  BY <1>1, <1>4 DEF IOInv, Registers
<1>7. ASSUME NEW e \in Dev \ orphaned
      PROVE  /\ val'[e] <= 1
             /\ (\A p \in Proc : io'[p] # e) => val'[e] <= 0 /\ e \notin busy'
             /\ e \in busy' => val'[e] <= 0
             /\ e \notin busy' => \A p \in Proc : io'[p] = e => stat'[e] = Registers(e)'
  <2>1. CASE e = d
    BY <1>1, <1>2, <1>4, <2>1 DEF IOInv
  <2>2. CASE e # d
    BY <1>1, <1>2, <1>4, <2>2 DEF IOInv, Registers
  <2> QED BY <2>1, <2>2
<1> QED BY <1>2, <1>3, <1>5, <1>6, <1>7 DEF IOInv

LEMMA WaitOpIO == ASSUME NEW d \in Dev, Inv, IOInv, WaitOp(d) PROVE IOInv'
PROOF
<1>1. /\ Caller \in Proc /\ io \in [Proc -> Dev \cup {None}] /\ None \notin Dev
      /\ d \in Semaphore /\ val \in [Semaphore -> Int] /\ val[d] \in Int
      /\ val' = [val EXCEPT ![d] = @ - 1] /\ io[Caller] = d /\ busy' = busy
      /\ io' = IF val[d] > 0 THEN [io EXCEPT ![Caller] = None] ELSE io
      /\ \A p \in Proc : io[p] = d => p = Caller
  BY Disjoint, FrontOfQueue, ProcAssumption
  DEF WaitOp, WaitForIO, IntsemopLock, Inv, TypeOK, Preemptible, Caller, DeviceOwner
<1>2. /\ got' = IF val[d] > 0 THEN [got EXCEPT ![Caller] = stat[d]] ELSE got
      /\ op' = op /\ stat' = stat /\ want' = want /\ orphaned' = orphaned
  BY DEF WaitOp
<1>3. IOTypeOK'
  BY <1>1, <1>2 DEF IOInv, IOTypeOK
<1>4. /\ val'[d] = val[d] - 1
      /\ \A e \in Dev : e # d => val'[e] = val[e]
      /\ \A p \in Proc : p # Caller => io'[p] = io[p] /\ got'[p] = got[p]
      /\ val[d] > 0 => io'[Caller] = None /\ got'[Caller] = stat[d]
      /\ ~(val[d] > 0) => io' = io /\ got' = got
  BY <1>1, <1>2, Disjoint DEF IOInv, IOTypeOK
<1>5. want[Caller] = <<d, op[d]>> /\ got[Caller] = None
  BY <1>1 DEF IOInv, Registers
<1>6. d \notin orphaned /\ val[d] > 0 => d \notin busy /\ stat[d] = want[Caller]
  BY <1>1, <1>5 DEF IOInv, Registers
<1>7. CompletionIsMine'
  BY <1>1, <1>2, <1>4, <1>5, <1>6 DEF IOInv, CompletionIsMine, Answered
<1>8. \A p \in Proc : io'[p] # None => want'[p] = Registers(io[p])' /\ got'[p] = None
  BY <1>1, <1>2, <1>4 DEF IOInv, Registers
<1>9. ASSUME NEW e \in Dev \ orphaned
      PROVE  /\ val'[e] <= 1
             /\ (\A p \in Proc : io'[p] # e) => val'[e] <= 0 /\ e \notin busy'
             /\ e \in busy' => val'[e] <= 0
             /\ e \notin busy' => \A p \in Proc : io'[p] = e => stat'[e] = Registers(e)'
  <2>1. CASE e = d
    BY <1>1, <1>2, <1>4, <1>6, <2>1 DEF IOInv, Registers
  <2>2. CASE e # d
    BY <1>1, <1>2, <1>4, <2>2 DEF IOInv, Registers
  <2> QED BY <2>1, <2>2
<1> QED BY <1>2, <1>3, <1>7, <1>8, <1>9 DEF IOInv

LEMMA CompleteOpIO == ASSUME NEW d \in Dev, Inv, IOInv, CompleteOp(d) PROVE IOInv'
PROOF
<1>0. DeviceInterrupt(d)
  BY DEF CompleteOp
<1>1. /\ io \in [Proc -> Dev \cup {None}] /\ None \notin Dev
      /\ d \in Semaphore /\ val \in [Semaphore -> Int] /\ val[d] \in Int
      /\ val' = [val EXCEPT ![d] = @ + 1] /\ d \in busy /\ busy' = busy \ {d}
      /\ io' = [p \in Proc |-> IF val[d] = -1 /\ p \in q[d].mem THEN None ELSE io[p]]
  BY <1>0, Disjoint, ProcAssumption DEF DeviceInterrupt, Inv, TypeOK
<1>2. /\ op' = op /\ want' = want /\ orphaned' = orphaned
      /\ \/ /\ val[d] = -1 /\ stat' = stat
            /\ got' = [got EXCEPT ![Front(q[d])] = Registers(d)]
         \/ /\ val[d] # -1 /\ got' = got
            /\ stat' = [stat EXCEPT ![d] = Registers(d)]
  BY DEF CompleteOp
<1>3. Registers(d) \in Completion
  BY DEF Registers, Completion, IOInv, IOTypeOK
<1>4. IOTypeOK'
  BY <1>2, <1>3 DEF IOInv, IOTypeOK
<1>5. val'[d] = val[d] + 1 /\ \A e \in Dev : e # d => val'[e] = val[e]
  BY <1>1, Disjoint
<1>6. CASE val[d] = -1
  <2>1. PICK p \in Proc : q[d].mem = {p}
    BY <1>0, <1>6, DeviceQueues
  <2>2. p = Front(q[d]) /\ io[p] = d
    BY <2>1, FrontOfQueue, Disjoint DEF Inv, DeviceOwner
  <2>3. \A r \in Proc : io[r] = d => r = p
    BY <1>1, <2>2 DEF Inv, DeviceOwner
  <2>4. /\ io'[p] = None /\ got'[p] = Registers(d) /\ want[p] = Registers(d) /\ stat' = stat
        /\ \A r \in Proc : r # p => io'[r] = io[r] /\ got'[r] = got[r]
    BY <1>1, <1>2, <1>6, <2>1, <2>2 DEF IOInv, IOTypeOK
  <2>5. CompletionIsMine'
    BY <1>1, <1>2, <2>4 DEF IOInv, CompletionIsMine, Answered
  <2>6. \A r \in Proc : io'[r] # None => want'[r] = Registers(io[r])' /\ got'[r] = None
    BY <1>2, <2>4 DEF IOInv, Registers
  <2>7. ASSUME NEW e \in Dev \ orphaned
        PROVE  /\ val'[e] <= 1
               /\ (\A r \in Proc : io'[r] # e) => val'[e] <= 0 /\ e \notin busy'
               /\ e \in busy' => val'[e] <= 0
               /\ e \notin busy' => \A r \in Proc : io'[r] = e => stat'[e] = Registers(e)'
    <3>1. CASE e = d
      BY <1>1, <1>5, <1>6, <2>3, <2>4, <3>1
    <3>2. CASE e # d
      BY <1>1, <1>2, <1>5, <2>2, <2>4, <3>2 DEF IOInv, Registers
    <3> QED BY <3>1, <3>2
  <2> QED BY <1>2, <1>4, <2>5, <2>6, <2>7 DEF IOInv
<1>7. CASE val[d] # -1
  <2>1. io' = io /\ got' = got /\ stat' = [stat EXCEPT ![d] = Registers(d)]
    BY <1>1, <1>2, <1>7
  <2>2. CompletionIsMine'
    BY <1>2, <2>1 DEF IOInv, CompletionIsMine, Answered
  <2>3. \A r \in Proc : io'[r] # None => want'[r] = Registers(io[r])' /\ got'[r] = None
    BY <1>2, <2>1 DEF IOInv, Registers
  <2>4. stat'[d] = Registers(d) /\ \A e \in Dev : e # d => stat'[e] = stat[e]
    BY <2>1 DEF IOInv, IOTypeOK
  <2>5. ASSUME NEW e \in Dev \ orphaned
        PROVE  /\ val'[e] <= 1
               /\ (\A r \in Proc : io'[r] # e) => val'[e] <= 0 /\ e \notin busy'
               /\ e \in busy' => val'[e] <= 0
               /\ e \notin busy' => \A r \in Proc : io'[r] = e => stat'[e] = Registers(e)'
    <3>1. CASE e = d
      BY <1>1, <1>2, <1>5, <2>1, <2>4, <3>1 DEF IOInv, Registers
    <3>2. CASE e # d
      BY <1>1, <1>2, <1>5, <2>1, <2>4, <3>2 DEF IOInv, Registers
    <3> QED BY <3>1, <3>2
  <2> QED BY <1>2, <1>4, <2>2, <2>3, <2>5 DEF IOInv
<1> QED BY <1>6, <1>7

LEMMA DieIO == ASSUME NEW K \in SUBSET Proc, Inv, IOInv, Kill(K), AbandonOps(K) PROVE IOInv'
PROOF
<1>1. /\ io \in [Proc -> Dev \cup {None}] /\ None \notin Dev
      /\ busy' = busy /\ val' = GiveBack(K)
      /\ io' = [p \in Proc |-> IF p \in K THEN None ELSE io[p]]
  BY Disjoint, ProcAssumption DEF Kill, Inv, TypeOK
<1>2. /\ op' = op /\ stat' = stat
      /\ got' = [p \in Proc |-> IF p \in K THEN None ELSE got[p]]
      /\ want' = [p \in Proc |-> IF p \in K THEN None ELSE want[p]]
      /\ orphaned' = orphaned \cup ({io[p] : p \in K} \ {None})
  BY DEF AbandonOps
<1>3. IOTypeOK'
  BY <1>1, <1>2 DEF IOInv, IOTypeOK
<1>4. CompletionIsMine'
  BY <1>1, <1>2 DEF IOInv, CompletionIsMine, Answered
<1>5. \A p \in Proc : io'[p] # None => want'[p] = Registers(io[p])' /\ got'[p] = None
  BY <1>1, <1>2 DEF IOInv, Registers
<1>6. ASSUME NEW e \in Dev \ orphaned'
      PROVE  e \notin orphaned /\ val'[e] = val[e] /\ \A p \in K : io[p] # e
  <2>1. e \notin orphaned /\ \A p \in K : io[p] # e
    BY <1>1, <1>2
  <2>2. q[e].mem \cap K = {}
    BY <2>1 DEF Inv, DeviceOwner
  <2>3. e \in Semaphore /\ val[e] \in Int
    BY Disjoint DEF Inv, TypeOK
  <2>4. val'[e] = val[e] + Cardinality({})
    BY <1>1, <2>2, <2>3 DEF GiveBack
  <2> QED BY <2>1, <2>3, <2>4, FS_EmptySet
<1> QED BY <1>1, <1>2, <1>3, <1>4, <1>5, <1>6 DEF IOInv, Registers

(* The subtree of the caller is a set of table entries. *)
LEMMA SubtreeEntries == Subtree(Caller) \subseteq Proc
PROOF BY DEF Subtree

LEMMA IONext == Inv /\ IOInv /\ [MachineNext]_machineVars => IOInv'
PROOF
<1> SUFFICES ASSUME Inv, IOInv, [MachineNext]_machineVars PROVE IOInv'
  OBVIOUS
<1>1. CASE SYS1 \/ SYS3 \/ SYS3Ends \/ SYS4
  <2>1. UNCHANGED ioVars /\ UNCHANGED devVars /\ val' = val
    BY <1>1 DEF SYS1, SYS3, SYS3Ends, SYS4, CreateProc, Semop, SemopReturn, NotUsed
  <2> QED BY <2>1, IOUntouched
<1>2. CASE SYS3Step
  <2>1. /\ UNCHANGED ioVars /\ UNCHANGED devVars
        /\ i <= Len(vec) /\ val' = [val EXCEPT ![vec[i].sem] = @ + vec[i].op]
    BY <1>2 DEF SYS3Step, SemopStep
  <2>2. vec \in Seq(Vpop) /\ i \in Nat \ {0} /\ val \in [Semaphore -> Int]
    BY DEF Inv, TypeOK
  <2>3. vec[i] \in Vpop
    BY <2>1, <2>2
  <2>4. \A d \in Dev : val'[d] = val[d]
    BY <2>1, <2>2, <2>3, Disjoint DEF Vpop
  <2> QED BY <2>1, <2>4, IOUntouched
<1>3. CASE SYS7 \/ Clock
  <2>1. /\ UNCHANGED ioVars /\ UNCHANGED devVars
        /\ \/ val' = [val EXCEPT ![PClock] = @ - 1]
           \/ val' = [val EXCEPT ![PClock] = @ + 1]
           \/ val' = val
    BY <1>3 DEF SYS7, Clock, WaitForPClock, ClockInterrupt, IntsemopLock
  <2>2. val \in [Semaphore -> Int]
    BY DEF Inv, TypeOK
  <2>3. \A d \in Dev : val'[d] = val[d]
    BY <2>1, <2>2, Disjoint
  <2> QED BY <2>1, <2>3, IOUntouched
<1>4. CASE \/ SYS6 \/ Run \/ UNCHANGED machineVars \/ \E u \in BOOLEAN : Load(u)
           \/ \E k \in Kind : SYS5(k) \/ PassUpSys(k) \/ PassUpTrap(k)
  <2>1. UNCHANGED ioVars /\ UNCHANGED vars
    BY <1>4 DEF SYS6, Run, machineVars, Load, SYS5, PassUpSys, PassUpTrap
  <2> QED BY <2>1, IOUntouched DEF vars, devVars
<1>5. CASE Timer
  <2>1. UNCHANGED ioVars /\ UNCHANGED devVars /\ val' = val
    BY <1>5 DEF Timer, TimerExpires
  <2> QED BY <2>1, IOUntouched
<1>6. CASE \E d \in Dev : SYS8(d) \/ Start(d) \/ Device(d)
  BY <1>6, WaitOpIO, StartOpIO, CompleteOpIO DEF SYS8, Start, Device
<1>7. CASE Die(Subtree(Caller))
  BY <1>7, DieIO, SubtreeEntries DEF Die
<1> QED BY <1>1, <1>2, <1>3, <1>4, <1>5, <1>6, <1>7 DEF MachineNext

(* SYS8 returns the completion of the operation that its caller started,    *)
(* for any number of processes and devices, wherever the interrupt comes    *)
(* and whoever uses the device before and after.                            *)
THEOREM CompletionsCorrect == MachineSpec => []CompletionIsMine
PROOF
<1>1. Inv /\ IOInv /\ [MachineNext]_machineVars => IOInv'
  BY IONext
<1>2. IOInv => CompletionIsMine
  BY DEF IOInv
<1> QED
  BY IOInitially, <1>1, <1>2, MachineIsNucleus, NucleusInvariant, PTL DEF MachineSpec

-----------------------------------------------------------------------------
(* SYS6.                                                                   *)

(* The clock of a process was last started in the past, and an entry that   *)
(* is free has no time.                                                     *)
TimeInv ==
  /\ now \in Nat /\ start \in [Proc -> Nat] /\ total \in [Proc -> Nat]
  /\ used \in [Proc -> Nat] /\ lost \in [Proc -> Nat]
  /\ NothingMissing
  /\ \A p \in Proc : start[p] <= now
  /\ \A p \in Proc \ live : total[p] = 0 /\ used[p] = 0 /\ lost[p] = 0

LEMMA CallerLive == ASSUME Inv, cpu \in {"run", "semop"} PROVE Caller \in Proc /\ Caller \in live
PROOF
<1>1. Caller \in q[RQ].mem /\ Caller \in Proc
  BY FrontOfQueue, Disjoint DEF Inv, Preemptible, Caller
<1> QED BY <1>1, Disjoint DEF Inv, NoLostProcess

(* Whoever is loaded starts with nothing to be charged. *)
LEMMA StartedSlices ==
  ASSUME Inv', now \in Nat, now' = now, NEW s \in [Proc -> Nat], \A p \in Proc : s[p] <= now,
         start' = Started(s)
  PROVE  /\ start' \in [Proc -> Nat]
         /\ \A p \in Proc : start'[p] <= now' /\ Slice(p)' = 0
PROOF
<1>1. CASE cpu' = "run"
  <2>1. Front(q'[RQ]) \in Proc
    <3>1. Queues(q') /\ q'[RQ].mem # {}
      BY <1>1 DEF Inv, Preemptible
    <3> QED BY <3>1, FrontOfQueue, Disjoint
  <2>2. start' = [s EXCEPT ![Front(q'[RQ])] = now]
    BY <1>1 DEF Started
  <2> QED BY <1>1, <2>1, <2>2 DEF Slice, Caller
<1>2. CASE cpu' # "run"
  BY <1>2 DEF Started, Slice
<1> QED BY <1>1, <1>2

(* A handler that charges its caller, and may create processes.            *)
LEMMA ChargeTime ==
  ASSUME Inv, TimeInv, Inv', cpu = "run", Charge, live \subseteq live' PROVE TimeInv'
PROOF
<1>1. Caller \in Proc /\ Caller \in live
  BY CallerLive
<1>2. /\ total' = [total EXCEPT ![Caller] = @ + now - start[Caller]]
      /\ start' = Started(start) /\ now' = now /\ used' = used /\ lost' = lost
  BY DEF Charge, Charged
<1>3. /\ start' \in [Proc -> Nat]
      /\ \A p \in Proc : start'[p] <= now' /\ Slice(p)' = 0
  BY <1>2, StartedSlices DEF TimeInv
<1>4. now - start[Caller] \in Nat
  BY <1>1 DEF TimeInv
<1>5. total' \in [Proc -> Nat]
  BY <1>1, <1>2, <1>4 DEF TimeInv
<1>6. \A p \in Proc : total'[p] = total[p] + Slice(p)
  BY <1>1, <1>2 DEF TimeInv, Slice
<1>7. \A p \in Proc \ live : Slice(p) = 0 /\ total[p] = 0 /\ used[p] = 0 /\ lost[p] = 0
  BY <1>1 DEF TimeInv, Slice
<1>8. live' \subseteq Proc
  BY DEF Inv, TypeOK
<1>9. NothingMissing'
  <2> SUFFICES ASSUME NEW p \in live' PROVE total'[p] + Slice(p)' + lost'[p] = used'[p]
    BY DEF NothingMissing
  <2>1. CASE p \in live
    <3>1. total[p] + Slice(p) + lost[p] = used[p]
      BY <2>1 DEF TimeInv, NothingMissing
    <3>2. total'[p] \in Nat /\ lost[p] \in Nat
      BY <1>5, <1>8 DEF TimeInv
    <3> QED BY <1>2, <1>3, <1>6, <1>8, <3>1, <3>2
  <2>2. CASE p \notin live
    BY <1>2, <1>3, <1>6, <1>7, <1>8, <2>2
  <2> QED BY <2>1, <2>2
<1>10. \A p \in Proc \ live' : total'[p] = 0 /\ used'[p] = 0 /\ lost'[p] = 0
  BY <1>2, <1>6, <1>7
<1> QED BY <1>2, <1>3, <1>5, <1>9, <1>10 DEF TimeInv

(* A handler that starts when nobody is to be charged. *)
LEMMA ResumeTime ==
  ASSUME Inv, TimeInv, Inv', cpu # "run", Resume, live' = live PROVE TimeInv'
PROOF
<1>1. /\ start' = Started(start) /\ now' = now /\ total' = total /\ used' = used /\ lost' = lost
  BY DEF Resume
<1>2. /\ start' \in [Proc -> Nat]
      /\ \A p \in Proc : start'[p] <= now' /\ Slice(p)' = 0
  BY <1>1, StartedSlices DEF TimeInv
<1>3. \A p \in live : Slice(p) = 0 /\ p \in Proc
  BY DEF Slice, Inv, TypeOK
<1> QED BY <1>1, <1>2, <1>3 DEF TimeInv, NothingMissing

(* A step that has nothing to do with times. *)
LEMMA SameTime ==
  ASSUME TimeInv, UNCHANGED timeVars, live' = live,
         cpu' = cpu, cpu = "run" => Caller' = Caller
  PROVE  TimeInv'
PROOF
<1>1. \A p : Slice(p)' = Slice(p)
  BY DEF Slice, timeVars
<1> QED BY <1>1 DEF TimeInv, NothingMissing, timeVars

LEMMA RunTime == ASSUME Inv, TimeInv, TimePasses, UNCHANGED vars PROVE TimeInv'
PROOF
<1>1. /\ now' = now + 1 /\ start' = start /\ total' = total /\ lost' = lost
      /\ used' = IF cpu = "run" THEN [used EXCEPT ![Caller] = @ + 1] ELSE used
      /\ live' = live /\ cpu' = cpu /\ Caller' = Caller /\ live \subseteq Proc
  BY DEF TimePasses, vars, Caller, Inv, TypeOK
<1>2. cpu = "run" => Caller \in Proc /\ Caller \in live
  BY CallerLive
<1>3. /\ used' \in [Proc -> Nat] /\ \A p \in Proc \ live : used'[p] = used[p]
      /\ \A p \in Proc : used'[p] = IF cpu = "run" /\ p = Caller THEN used[p] + 1 ELSE used[p]
  BY <1>1, <1>2 DEF TimeInv
<1>4. ASSUME NEW p \in live PROVE total'[p] + Slice(p)' + lost'[p] = used'[p]
  <2>1. /\ p \in Proc /\ total[p] \in Nat /\ lost[p] \in Nat /\ start[p] \in Nat /\ now \in Nat
        /\ total[p] + Slice(p) + lost[p] = used[p]
    BY <1>1, <1>4 DEF TimeInv, NothingMissing
  <2>2. CASE cpu = "run" /\ p = Caller
    BY <1>1, <1>3, <2>1, <2>2 DEF Slice
  <2>3. CASE ~(cpu = "run" /\ p = Caller)
    BY <1>1, <1>3, <2>1, <2>3 DEF Slice
  <2> QED BY <2>2, <2>3
<1> QED BY <1>1, <1>3, <1>4 DEF TimeInv, NothingMissing

LEMMA PassUpTime ==
  ASSUME Inv, TimeInv, Inv', NEW k, TrapPassUp(k), cpu = "run", UNCHANGED vars PROVE TimeInv'
PROOF
<1>1. /\ lost' = [lost EXCEPT ![Caller] = @ + now - start[Caller]]
      /\ start' = Started(start) /\ now' = now /\ total' = total /\ used' = used
      /\ live' = live /\ live \subseteq Proc
  BY DEF TrapPassUp, vars, Inv, TypeOK
<1>2. Caller \in Proc /\ Caller \in live
  BY CallerLive
<1>3. /\ start' \in [Proc -> Nat]
      /\ \A p \in Proc : start'[p] <= now' /\ Slice(p)' = 0
  BY <1>1, StartedSlices DEF TimeInv
<1>4. lost' \in [Proc -> Nat] /\ \A p \in Proc : lost'[p] = lost[p] + Slice(p)
  BY <1>1, <1>2 DEF TimeInv, Slice
<1>5. \A p \in Proc \ live : Slice(p) = 0
  BY <1>2 DEF Slice
<1>6. NothingMissing'
  <2> SUFFICES ASSUME NEW p \in live PROVE total[p] + Slice(p)' + lost'[p] = used[p]
    BY <1>1 DEF NothingMissing
  <2>1. total[p] + Slice(p) + lost[p] = used[p] /\ p \in Proc
    BY <1>1 DEF TimeInv, NothingMissing
  <2>2. total[p] \in Nat /\ lost[p] \in Nat /\ Slice(p) \in Int
    BY <2>1 DEF TimeInv, Slice
  <2> QED BY <1>3, <1>4, <2>1, <2>2
<1> QED BY <1>1, <1>3, <1>4, <1>5, <1>6 DEF TimeInv

(* killproc: the times of the family are cleared, the caller's among them.  *)
LEMMA DieTime ==
  ASSUME Inv, TimeInv, Inv', NEW K \in SUBSET Proc, Caller \in K, Kill(K), Free(K) PROVE TimeInv'
PROOF
<1>1. /\ live' = live \ K /\ live \subseteq Proc /\ now' = now
      /\ total' = Cleared(total, K) /\ used' = Cleared(used, K) /\ lost' = Cleared(lost, K)
      /\ start' = Started(Cleared(start, K))
  BY DEF Kill, Free, Inv, TypeOK
<1>2. ASSUME NEW f \in [Proc -> Nat]
      PROVE  /\ Cleared(f, K) \in [Proc -> Nat]
             /\ \A p \in Proc : Cleared(f, K)[p] = IF p \in K THEN 0 ELSE f[p]
  BY DEF Cleared
<1>3. /\ Cleared(start, K) \in [Proc -> Nat] /\ now \in Nat
      /\ \A p \in Proc : Cleared(start, K)[p] <= now
  BY <1>2 DEF TimeInv
<1>4. /\ start' \in [Proc -> Nat]
      /\ \A p \in Proc : start'[p] <= now' /\ Slice(p)' = 0
  BY <1>1, <1>3, StartedSlices
<1>5. /\ total' \in [Proc -> Nat] /\ used' \in [Proc -> Nat] /\ lost' \in [Proc -> Nat]
      /\ \A p \in Proc \ K : total'[p] = total[p] /\ used'[p] = used[p] /\ lost'[p] = lost[p]
      /\ \A p \in K : total'[p] = 0 /\ used'[p] = 0 /\ lost'[p] = 0
  BY <1>1, <1>2 DEF TimeInv
<1>6. \A p \in live' : Slice(p) = 0 /\ p \in Proc \ K /\ p \in live
  BY <1>1 DEF Slice
<1>7. NothingMissing'
  BY <1>4, <1>5, <1>6 DEF TimeInv, NothingMissing
<1> QED BY <1>1, <1>3, <1>4, <1>5, <1>7 DEF TimeInv

LEMMA TimeNext == Inv /\ TimeInv /\ Inv' /\ [MachineNext]_machineVars => TimeInv'
PROOF
<1> SUFFICES ASSUME Inv, TimeInv, Inv', [MachineNext]_machineVars PROVE TimeInv'
  OBVIOUS
<1>1. CASE SYS1 \/ SYS3 \/ SYS4 \/ SYS7 \/ \E d \in Dev : SYS8(d)
  <2>1. cpu = "run" /\ Charge /\ live \subseteq live'
    BY <1>1 DEF SYS1, SYS3, SYS4, SYS7, SYS8, WaitOp, CreateProc, Semop, NotUsed, WaitForPClock,
                WaitForIO, procVars, SysTrap
  <2> QED BY <2>1, ChargeTime
<1>2. CASE SYS6 \/ \E k \in Kind : SYS5(k) \/ PassUpSys(k)
  <2>1. cpu = "run" /\ Charge /\ live' = live
    BY <1>2 DEF SYS6, SYS5, PassUpSys, SysTrap, SpecTrapVec, SysPassUp, vars
  <2> QED BY <2>1, ChargeTime
<1>3. CASE \E k \in Kind : PassUpTrap(k)
  BY <1>3, PassUpTime DEF PassUpTrap
<1>4. CASE SYS3Ends
  <2>1. cpu # "run" /\ Resume /\ live' = live
    BY <1>4 DEF SYS3Ends, SemopReturn, SemopResumes, procVars
  <2> QED BY <2>1, ResumeTime
<1>5. CASE Clock
  <2>1. ClockTimes /\ cpu \in {"run", "idle"} /\ live' = live
    BY <1>5 DEF Clock, ClockInterrupt, procVars
  <2>2. cpu = "run" <=> q[RQ].mem # {}
    BY <2>1 DEF Inv, Preemptible, IdleIsWakeable
  <2> QED BY <2>1, <2>2, ChargeTime, ResumeTime DEF ClockTimes
<1>6. ASSUME NEW d \in Dev, Device(d) PROVE TimeInv'
  <2>1. /\ DeviceInterrupt(d) /\ DeviceTimes /\ cpu \in {"run", "idle"} /\ live' = live
        /\ q[RQ].mem # {} => cpu' = cpu
    BY <1>6 DEF Device, CompleteOp, DeviceInterrupt, procVars
  <2>2. CASE q[RQ].mem # {}
    <3>1. Caller' = Caller
      BY <2>1, <2>2, DeviceQueues
    <3> QED BY <2>1, <2>2, <3>1, SameTime DEF DeviceTimes
  <2>3. CASE q[RQ].mem = {}
    <3>1. cpu # "run"
      BY <2>3 DEF Inv, Preemptible
    <3> QED BY <2>1, <2>3, <3>1, ResumeTime DEF DeviceTimes
  <2> QED BY <2>2, <2>3
<1>7. CASE SYS3Step
  <2>1. UNCHANGED timeVars /\ cpu' = cpu /\ cpu = "semop" /\ live' = live
    BY <1>7 DEF SYS3Step, SemopStep, procVars, trapVars
  <2> QED BY <2>1, SameTime
<1>8. CASE (\E u \in BOOLEAN : Load(u)) \/ (\E d \in Dev : Start(d)) \/ Timer
           \/ UNCHANGED machineVars
  <2>1. UNCHANGED timeVars /\ cpu' = cpu /\ Caller' = Caller /\ live' = live
    BY <1>8 DEF Load, LoadState, Start, StartOp, StartIO, Timer, TimerExpires, machineVars,
                trapVars, vars, procVars, Caller
  <2> QED BY <2>1, SameTime
<1>9. CASE Run
  BY <1>9, RunTime DEF Run
<1>10. CASE Die(Subtree(Caller))
  <2>1. Caller \in Proc /\ Kill(Subtree(Caller)) /\ Free(Subtree(Caller))
    BY <1>10, CallerLive DEF Die, Kill
  <2>2. Caller \in Subtree(Caller)
    BY <2>1 DEF Subtree
  <2> QED BY <2>1, <2>2, SubtreeEntries, DieTime
<1> QED BY <1>1, <1>2, <1>3, <1>4, <1>5, <1>6, <1>7, <1>8, <1>9, <1>10 DEF MachineNext

LEMMA TimeInitially == MachineInit => TimeInv
PROOF
<1> SUFFICES ASSUME MachineInit PROVE TimeInv
  OBVIOUS
<1>1. /\ now = 0 /\ start = [p \in Proc |-> 0] /\ total = start /\ used = start /\ lost = start
      /\ live \subseteq Proc
  BY ProcAssumption DEF MachineInit, TrapInit, Init
<1>2. \A p \in live : total[p] = 0 /\ Slice(p) = 0 /\ lost[p] = 0 /\ used[p] = 0
  BY <1>1 DEF Slice
<1> QED BY <1>1, <1>2 DEF TimeInv, NothingMissing

(* Time is dropped only for an entry that has a vector for it, and a vector *)
(* stays until the entry is in nobody's use.                                *)
DropInv == \A p \in Proc : lost[p] > 0 => Drops(p)

LEMMA DropNext ==
  Inv /\ TimeInv /\ DropInv /\ [MachineNext]_machineVars => DropInv'
PROOF
<1> SUFFICES ASSUME Inv, TimeInv, DropInv, [MachineNext]_machineVars PROVE DropInv'
  OBVIOUS
<1> USE DEF DropInv, Drops
<1>1. CASE UNCHANGED <<lost, vector>>
  BY <1>1
<1>2. ASSUME NEW k \in Kind, PassUpTrap(k) PROVE DropInv'
  <2>1. /\ Caller \in Proc /\ k \in vector[Caller] \cap {"prog", "mm"} /\ vector' = vector
        /\ lost' = [lost EXCEPT ![Caller] = @ + now - start[Caller]]
    BY <1>2, CallerLive, TrapAssumption DEF PassUpTrap, TrapPassUp
  <2>2. \A p \in Proc : p # Caller => lost'[p] = lost[p]
    BY <2>1 DEF TimeInv
  <2> QED BY <2>1, <2>2
<1>3. ASSUME NEW k \in Kind, SYS5(k) PROVE DropInv'
  <2>1. lost' = lost /\ vector' = [vector EXCEPT ![Caller] = @ \cup {k}]
    BY <1>3 DEF SYS5, SpecTrapVec, Charge
  <2>2. \A p \in Proc : vector[p] \subseteq vector'[p] \/ vector'[p] = vector[p]
    BY <2>1
  <2> QED BY <2>1, <2>2
<1>4. CASE Die(Subtree(Caller))
  <2>1. vector' = vector /\ lost' = [p \in Proc |-> IF p \in Subtree(Caller) THEN 0 ELSE lost[p]]
    BY <1>4 DEF Die, Free, Cleared
  <2> QED BY <2>1
<1>5. ASSUME NEW k \in Kind, PassUpSys(k) PROVE DropInv'
  BY <1>1, <1>5 DEF PassUpSys, SysPassUp, Charge
<1>6. CASE SYS1 \/ SYS3 \/ SYS3Step \/ SYS3Ends \/ SYS4 \/ SYS6 \/ SYS7
  BY <1>1, <1>6 DEF SYS1, SYS3, SYS3Step, SYS3Ends, SYS4, SYS6, SYS7, SysTrap, SemopResumes,
    Charge, Resume, trapVars, timeVars
<1>7. CASE Run \/ Timer \/ Clock \/ (\E u \in BOOLEAN : Load(u)) \/ UNCHANGED machineVars
  BY <1>1, <1>7 DEF Run, Timer, Clock, Load, LoadState, TimePasses, ClockTimes, Charge, Resume,
    trapVars, timeVars, machineVars
<1>8. CASE \E d \in Dev : SYS8(d) \/ Start(d) \/ Device(d)
  BY <1>1, <1>8 DEF SYS8, Start, Device, SysTrap, DeviceTimes, Charge, Resume, trapVars, timeVars
<1> QED BY <1>2, <1>3, <1>4, <1>5, <1>6, <1>7, <1>8 DEF MachineNext

LEMMA DropInvariant == MachineSpec => [](Inv /\ TimeInv /\ DropInv)
PROOF
<1>1. MachineInit => DropInv
  BY DEF MachineInit, TrapInit, DropInv
<1> QED
  BY TimeInitially, TimeNext, <1>1, DropNext, MachineIsNucleus, NucleusInvariant, PTL
  DEF MachineSpec

(* The time SYS6 returns is the time its caller has had the CPU, less what  *)
(* passed-up program and memory traps dropped, for any number of processes, *)
(* whoever was preempted, blocked or killed in between; and nothing is      *)
(* dropped of a process whose entry has no vector for such a trap.          *)
THEOREM TimesCorrect == MachineSpec => []CpuTimeAccounted
PROOF
<1>1. Inv /\ TimeInv /\ DropInv => CpuTimeAccounted
  BY DEF Inv, TypeOK, TimeInv, DropInv, CpuTimeAccounted
<1> QED BY <1>1, DropInvariant, PTL

-----------------------------------------------------------------------------
(* Types.                                                                  *)

ModeType ==
  /\ user \subseteq Proc
  /\ vector \in [Proc -> SUBSET Kind] /\ specified \in [Proc -> SUBSET Kind]

LEMMA ModeNext == Inv /\ ModeType /\ [MachineNext]_machineVars => ModeType'
PROOF
<1> SUFFICES ASSUME Inv, ModeType, [MachineNext]_machineVars PROVE ModeType'
  OBVIOUS
<1> USE DEF ModeType
<1>1. CASE UNCHANGED <<user, vector, specified>>
  BY <1>1
<1>2. ASSUME NEW k \in Kind, SYS5(k) \/ PassUpSys(k) \/ PassUpTrap(k) PROVE ModeType'
  BY <1>2 DEF SYS5, PassUpSys, PassUpTrap, SpecTrapVec, SysPassUp, TrapPassUp
<1>3. ASSUME NEW u \in BOOLEAN, Load(u) PROVE ModeType'
  BY <1>3, CallerLive DEF Load, LoadState
<1>4. CASE Die(Subtree(Caller))
  BY <1>4 DEF Die, Free
<1>5. CASE \/ SYS1 \/ SYS3 \/ SYS3Step \/ SYS3Ends \/ SYS4 \/ SYS6 \/ SYS7 \/ Run \/ Timer \/ Clock
           \/ (\E d \in Dev : SYS8(d) \/ Start(d) \/ Device(d)) \/ UNCHANGED machineVars
  BY <1>1, <1>5 DEF SYS1, SYS3, SYS3Step, SYS3Ends, SYS4, SYS6, SYS7, SYS8, Run, Timer, Clock,
    Start, Device, SysTrap, SemopResumes, TimePasses, ClockTimes, DeviceTimes, trapVars, machineVars
<1> QED BY <1>2, <1>3, <1>4, <1>5 DEF MachineNext

(* Registers, vectors, modes and times keep their types: in particular the  *)
(* times SYS6 adds up never run backwards.                                  *)
THEOREM MachineTypes == MachineSpec => []MachineTypeOK
PROOF
<1>1. MachineInit => ModeType
  BY DEF MachineInit, TrapInit, ModeType
<1>2. Inv /\ IOInv /\ TimeInv /\ ModeType => MachineTypeOK
  BY DEF Inv, IOInv, TimeInv, ModeType, MachineTypeOK, TrapTypeOK
<1> QED
  BY <1>1, <1>2, IOInitially, TimeInitially, IONext, TimeNext, ModeNext,
     MachineIsNucleus, NucleusInvariant, PTL DEF MachineSpec

-----------------------------------------------------------------------------
(* Trap vectors.                                                           *)

(* A process has the vectors it has specified, a free entry's has none.     *)
SpecifiedInv == \A p \in Proc : /\ specified[p] \subseteq vector[p]
                                /\ p \notin live => specified[p] = {}

NoVectorComes ==
  \A p \in Proc : /\ LeftBehind(p)' \subseteq LeftBehind(p) \/ p \in live \ live'
                  /\ specified'[p] \subseteq vector'[p]

LEMMA VectorNext ==
  Inv /\ ModeType /\ SpecifiedInv /\ [MachineNext]_machineVars => SpecifiedInv' /\ NoVectorComes
PROOF
<1> SUFFICES ASSUME Inv, ModeType, SpecifiedInv, [MachineNext]_machineVars
             PROVE  SpecifiedInv' /\ NoVectorComes
  OBVIOUS
<1> USE DEF SpecifiedInv, NoVectorComes, LeftBehind
<1>1. CASE UNCHANGED <<vector, specified, live>>
  BY <1>1
<1>2. ASSUME NEW k \in Kind, SYS5(k) PROVE SpecifiedInv' /\ NoVectorComes
  <2>1. Caller \in Proc /\ Caller \in live /\ live' = live
    BY <1>2, CallerLive DEF SYS5, vars
  <2>2. /\ vector'[Caller] = vector[Caller] \cup {k}
        /\ specified'[Caller] = specified[Caller] \cup {k}
        /\ \A p \in Proc : p # Caller => vector'[p] = vector[p] /\ specified'[p] = specified[p]
    BY <1>2, <2>1 DEF SYS5, SpecTrapVec, ModeType
  <2> QED BY <2>1, <2>2
<1>3. CASE Die(Subtree(Caller))
  <2>1. /\ live' = live \ Subtree(Caller) /\ vector' = vector
        /\ specified' = [p \in Proc |-> IF p \in Subtree(Caller) THEN {} ELSE specified[p]]
    BY <1>3 DEF Die, Kill, Free
  <2>2. \A p \in Proc : /\ p \in Subtree(Caller) => specified'[p] = {}
                        /\ p \notin Subtree(Caller) => specified'[p] = specified[p]
    BY <2>1
  <2> QED BY <2>1, <2>2
<1>4. CASE SYS1
  <2>1. UNCHANGED <<vector, specified>> /\ live \subseteq live'
    BY <1>4 DEF SYS1, CreateProc, SysTrap
  <2> QED BY <2>1
<1>5. CASE \E k \in Kind : PassUpSys(k) \/ PassUpTrap(k)
  BY <1>1, <1>5 DEF PassUpSys, PassUpTrap, SysPassUp, TrapPassUp, vars
<1>6. CASE \E u \in BOOLEAN : Load(u)
  BY <1>1, <1>6 DEF Load, LoadState, vars
<1>7. CASE SYS3 \/ SYS3Step \/ SYS3Ends \/ SYS4 \/ SYS6 \/ SYS7
  <2>1. UNCHANGED <<vector, specified>>
    BY <1>7 DEF SYS3, SYS3Step, SYS3Ends, SYS4, SYS6, SYS7, SysTrap, SemopResumes, trapVars
  <2>2. UNCHANGED live
    BY <1>7 DEF SYS3, SYS3Step, SYS3Ends, SYS4, SYS6, SYS7, Semop, SemopStep, SemopReturn,
                NotUsed, WaitForPClock, procVars, vars
  <2> QED BY <1>1, <2>1, <2>2
<1>8. CASE Run \/ Timer \/ Clock \/ UNCHANGED machineVars
  BY <1>1, <1>8 DEF Run, Timer, Clock, TimePasses, ClockTimes, TimerExpires, ClockInterrupt,
                    procVars, vars, trapVars, machineVars
<1>9. CASE \E d \in Dev : SYS8(d) \/ Start(d) \/ Device(d)
  <2>1. PICK d \in Dev : SYS8(d) \/ Start(d) \/ Device(d)
    BY <1>9
  <2>2. UNCHANGED <<vector, specified>>
    BY <2>1 DEF SYS8, Start, Device, SysTrap, DeviceTimes, trapVars
  <2>3. UNCHANGED live
    BY <2>1 DEF SYS8, Start, Device, WaitOp, StartOp, CompleteOp, WaitForIO, StartIO,
                DeviceInterrupt, procVars
  <2> QED BY <1>1, <2>2, <2>3
<1> QED BY <1>2, <1>3, <1>4, <1>5, <1>6, <1>7, <1>8, <1>9 DEF MachineNext

(* A trap of a process goes to a handler of another program only if the     *)
(* entry of the process has been freed by one that had specified it: no     *)
(* call, trap or interrupt in between gives a process a vector, and none    *)
(* takes one away that the process has specified.                           *)
THEOREM VectorsOnlyInherited == MachineSpec => VectorsLeftBehind
PROOF
<1>1. MachineInit => ModeType /\ SpecifiedInv
  BY DEF MachineInit, TrapInit, ModeType, SpecifiedInv
<1>2. Inv /\ ModeType /\ SpecifiedInv /\ [MachineNext]_machineVars =>
        [NoVectorComes]_<<vars, trapVars>>
  BY VectorNext
<1>3. Inv /\ ModeType /\ SpecifiedInv /\ [MachineNext]_machineVars => SpecifiedInv' /\ ModeType'
  BY VectorNext, ModeNext
<1> QED BY <1>1, <1>2, <1>3, MachineIsNucleus, NucleusInvariant, PTL
        DEF MachineSpec, VectorsLeftBehind, NoVectorComes
=============================================================================
