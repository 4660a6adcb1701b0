SPECIFICATION MatchedSpec
CONSTANTS
  RQ = RQ
  s1 = s1
  MAXPROC = 3
  SEMMAX = 2
  Queue = {RQ, s1}
  SlotOf <- AnySlotOf
  Any = Any
INVARIANTS TypeOK QcountCounts LinksInUse
PROPERTY ImplementsFifo
