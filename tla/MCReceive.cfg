SPECIFICATION ReceiveSpec
CONSTANTS
  Half = 7
  MaxDrift = 4
  MaxDepth = 4
  InitDepth = 2
  MinAdapt = 1
  MaxAdapt = 3
  AdaptPeriod = 2
  Window = 2
  Payloads = {l1, l2}
  Peak = 4
  Legs = {l1, l2}
  NoFrame = NoFrame
  LossCap = 4
  MaxGap = 2
  Loss = Loss
  Budget = 2
INVARIANTS JitterInv
PROPERTIES ReceiveGetsOn DueKeptBurstFades
CHECK_DEADLOCK FALSE
