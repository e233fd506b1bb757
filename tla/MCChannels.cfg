SPECIFICATION ChannelsSpec
CONSTANTS
  Loop = loop
  FeedSize = 2
  MaxFrames = 5
  Stoppers = {s1, s2}
  Audio = audio
  EventsSize = 2
  MaxEvents = 4
  SilenceFrames = 3
  Closers = {c1, c2}
  Producers = {a, b}
  Capacity = 2
  MaxItems = 2
  MaxBackoff = 2
  MaxBreaks = 1
  NoFrame = NoFrame
  Conns = {k1, k2}
  FrameUnits = 2
  MessageUnits = {1, 3, 4}
  MaxUnits = 5
  NoConn = NoConn
  Losses = {0, 4, 8}
  Jitters = {10, 50}
  Estimates <- MCEstimates
  Stops = {t1, t2}
  MaxSamples = 2
  Starters = {d1, d2}
  Manual = Manual
  MaxFaults = 1
INVARIANTS FeedInv TurnInv ClientInv BridgeInv MonitorInv ServerInv
PROPERTIES EventAfterUtterance ChannelsEnd
CHECK_DEADLOCK FALSE
