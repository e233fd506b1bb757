SPECIFICATION FairProxySpec
CONSTANTS
  Ids = {i1, i2}
  Handlers = {h1, h2}
  Calls = {k1}
PROPERTY LoopsEnd
CHECK_DEADLOCK FALSE
