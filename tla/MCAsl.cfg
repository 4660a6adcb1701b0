SPECIFICATION Spec
CONSTANTS
  Proc = {p1, p2}
  Addr = {1, 2, 3, 4}
  NumDesc = 3
  SEMMAX = 2
  ENULL = ENULL
SYMMETRY Symmetric
INVARIANTS TypeOK SortedBothWays DescriptorsConserved SemvecTrue
PROPERTY ImplementsQueues
