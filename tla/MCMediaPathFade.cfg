CONSTANTS
  Half = 6
  MaxDrift = 3
  MaxDepth = 3
  InitDepth = 2
  MinAdapt = 1
  MaxAdapt = 2
  AdaptPeriod = 1
  Window = 2
  Payloads = {l1, l2}
  Peak = 10
  Legs = {l1, l2}
  NoFrame = NoFrame
  LossCap = 3
  MaxGap = 2
  Loss = Loss
SPECIFICATION MediaSpec
INVARIANT BurstFades
