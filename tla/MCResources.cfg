SPECIFICATION ResourcesSpec
CONSTANTS
  Suppressors = {s1, s2, s3, s4}
  Sessions = {call1, call2, call3}
  Size = 2
  Nobody = Nobody
  Warmer = Warmer
  Closer = Closer
  Chunks = 3
  Reports = 3
  PipeCap = 1
  LineCap = 2
  Files = {f1, f2}
  Workers = 1
  MaxVersion = 2
  MaxRuns = 2
  Writers = {w1}
  CDRs = {c1, c2}
  WALFiles = {l1, l2, l3}
  None = None
INVARIANTS PoolInv ClosedLeavesNothing DecodeInv BatchInv WALInv
PROPERTIES ImplementsLease EveryCallReturns FilesEnd DestinationsTrue
CHECK_DEADLOCK FALSE
