SPECIFICATION WALSpec
CONSTANTS
  Writers = {w1}
  CDRs = {c1, c2}
  WALFiles = {l1, l2, l3}
  None = None
PROPERTY RemovedOnceFlushed
CHECK_DEADLOCK FALSE
