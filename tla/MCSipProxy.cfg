SPECIFICATION FairProxySpec
CONSTANTS
  Ids = {i1, i2}
  Handlers = {h1, h2, h3}
  Calls = {k1}
INVARIANTS ProxyInv
PROPERTIES RequestAnswered
CHECK_DEADLOCK FALSE
