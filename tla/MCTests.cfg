SPECIFICATION TestSpec
CONSTANTS
  Proc = {e1, e2, e3, e4, e5, e6, e7, e8, e9, e10, e11, e12, e13, e14, e15, e16, e17, e18, e19, e20}
  Root = e1
  Sem <- MCSem
  Dev = {printer0}
  PClock = PClock
  RQ = RQ
  None = None
  Vectors <- MCVectors
  InitVal <- MCInitVal
  NumDesc = 20
  Ticks = 2
  MaxVal = 10
  MaxTime = 2
  Kind = {"prog", "mm", "sys"}
  Rounds = 2
  Turns = 1
  MaxAsync = 1
INVARIANTS TestsPass OffspringDead EndsNormally NucleusHolds
PROPERTY ReadsOwnTime
