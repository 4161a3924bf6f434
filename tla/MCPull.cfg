CONSTANTS
  k1 = k1
  k2 = k2
  R1 = R1
  R2 = R2
  None = None
  Key <- MCKey
  Resource <- MCResource
  resourceOf <- MCResourceOf
  Field = {f1, f2}
  Ops = {"insert", "merge", "delete"}
  Reuse = FALSE
  Writer = {w1}
  Reservation = {1}
  Limit = 2
  MaxIterations = 2
  MaxSeq = 3
  MaxUpsets = 2
SPECIFICATION Spec
CHECK_DEADLOCK FALSE
INVARIANTS
  TypeOK
  NothingSkipped
  
  CaughtUpIsEqual
