SPECIFICATION MachineSpec
CONSTANTS
  p1 = p1
  p2 = p2
  s1 = s1
  d1 = d1
  Proc = {p1, p2}
  Root = p1
  Sem = {s1}
  Dev = {d1}
  PClock = PClock
  RQ = RQ
  None = None
  Vectors <- MCVectors
  InitVal <- MCInitVal
  NumDesc = 3
  Ticks = 1
  MaxVal = 1
  MaxTime = 1
  Kind = {"prog"}
CHECK_DEADLOCK FALSE
INVARIANTS MachineTypeOK CompletionIsMine CpuTimeAccounted
