CONSTANTS
  Session = {s1, s2}
  File = {f1}
  Worker = {w1, w2}
  Modes = {"multipart", "blocks", "proxy"}
  TotalParts = 1
  Limit = 1
  MaxCalls = 6
  MaxFaults = 2
  None = None
SYMMETRY Symmetry
SPECIFICATION Spec
INVARIANTS TypeOK OneVersion VersionHasObject QuotaBounded
CHECK_DEADLOCK FALSE
