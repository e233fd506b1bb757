CONSTANTS
  Suppressors = {s1, s2}
  Sessions = {c1, c2, c3}
  Size = 2
  Nobody = Nobody
  Warmer = Warmer
  Closer = Closer
CHECK_DEADLOCK FALSE
SPECIFICATION SDKSpec
PROPERTY NewSessionServed
