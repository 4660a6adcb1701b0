SPECIFICATION FairSpec
CONSTANTS
  MAXTPROC = 3
  Proc = {1, 2, 3}
  Private = {boot, data}
  Shared = {common}
  Boot = boot
  MAXFRAMES = 6
  sem_mm = sem_mm
  sem_pf = sem_pf
  None = None
CHECK_DEADLOCK FALSE
INVARIANTS TypeOK OneOwner
PROPERTY FaultServed
