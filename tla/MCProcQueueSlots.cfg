SPECIFICATION SemopSpec
CONSTANTS
  RQ = RQ
  s1 = s1
  s2 = s2
  MAXPROC = 2
  SEMMAX = 3
  Queue = {RQ, s1, s2}
  SlotOf <- AnySlotOf
  Any = Any
CHECK_DEADLOCK FALSE
INVARIANT QcountCounts
