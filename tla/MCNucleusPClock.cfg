SPECIFICATION FairSpec
CONSTANTS
  p1 = p1
  p2 = p2
  p3 = p3
  s1 = s1
  s2 = s2
  d1 = d1
  Proc = {p1, p2, p3}
  Root = p1
  Sem = {s1}
  Dev = {d1}
  PClock = PClock
  RQ = RQ
  None = None
  Vectors <- PClockVectors
  InitVal <- MCInitVal
  NumDesc = 3
  Ticks = 2
  MaxVal = 1
CHECK_DEADLOCK FALSE
PROPERTY PClockWakes
