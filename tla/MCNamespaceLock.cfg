CONSTANTS
  Call = {c1, c2, c3, c4}
  Namespace = {n1, n2}
  None = None
SPECIFICATION FairSpec
CHECK_DEADLOCK FALSE
INVARIANTS
  TypeOK
  MutualExclusion
  Fifo
  NoLeak
PROPERTIES
  EveryCallServed
