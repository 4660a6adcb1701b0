------------------------------ MODULE Machine -------------------------------
(***************************************************************************)
(* The nucleus with the completion status of DeviceIO and with the modes,  *)
(* vectors and times of Traps: each handler with everything it does to the *)
(* process that is interrupted and to the process that is loaded.  What    *)
(* the programs do is left open here; TestPrograms fills it in.            *)
(***************************************************************************)
EXTENDS DeviceIO, Traps

machineVars == <<vars, ioVars, trapVars>>

MachineTypeOK == TypeOK /\ IOTypeOK /\ TrapTypeOK

MachineInit == Init /\ IOInit /\ TrapInit

-----------------------------------------------------------------------------
(* System calls, from supervisor mode. *)
SYS1      == CreateProc /\ SysTrap /\ UNCHANGED ioVars
SYS3      == Semop /\ SysTrap /\ UNCHANGED ioVars
SYS3Step  == SemopStep /\ UNCHANGED <<ioVars, trapVars>>
SYS3Ends  == SemopReturn /\ SemopResumes /\ UNCHANGED ioVars
SYS4      == NotUsed /\ SysTrap /\ UNCHANGED ioVars
SYS5(k)   == cpu = "run" /\ UNCHANGED <<vars, ioVars>> /\ SpecTrapVec(k)
SYS6      == cpu = "run" /\ UNCHANGED <<vars, ioVars>> /\ SysTrap
SYS7      == WaitForPClock /\ SysTrap /\ UNCHANGED ioVars
SYS8(d)   == WaitOp(d) /\ SysTrap

(* killproc, for the family K of the caller. *)
Die(K) == Kill(K) /\ MayDie /\ AbandonOps(K) /\ Free(K)

(* Traps that are passed up. *)
PassUpSys(k)  == cpu = "run" /\ UNCHANGED <<vars, ioVars>> /\ SysPassUp(k)
PassUpTrap(k) == cpu = "run" /\ UNCHANGED <<vars, ioVars>> /\ TrapPassUp(k)

(* What a program does by itself. *)
Load(u)   == cpu = "run" /\ UNCHANGED <<vars, ioVars>> /\ LoadState(u)
Start(d)  == StartOp(d) /\ UNCHANGED trapVars
Run       == TimePasses /\ UNCHANGED <<vars, ioVars>>

(* Interrupts. *)
Timer     == TimerExpires /\ UNCHANGED <<ioVars, trapVars>>
Clock     == ClockInterrupt /\ ClockTimes /\ UNCHANGED ioVars
Device(d) == CompleteOp(d) /\ DeviceTimes

MachineNext ==
  \/ SYS1 \/ SYS3 \/ SYS3Step \/ SYS3Ends \/ SYS4 \/ SYS6 \/ SYS7
  \/ \E d \in Dev : SYS8(d) \/ Start(d) \/ Device(d)
  \/ \E k \in Kind : SYS5(k) \/ PassUpSys(k) \/ PassUpTrap(k)
  \/ Die(Subtree(Caller))
  \/ \E u \in BOOLEAN : Load(u)
  \/ Run \/ Timer \/ Clock

MachineSpec == MachineInit /\ [][MachineNext]_machineVars
=============================================================================
