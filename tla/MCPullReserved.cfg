CONSTANTS
  k1 = k1
  k2 = k2
  R1 = R1
  R2 = R2
  None = None
  Key <- MCKey
  Resource <- MCResource
  resourceOf <- MCResourceOf
  Field = {f1}
  Ops = {"insert", "merge"}
  Reuse = FALSE
  Writer = {w1, w2}
  Reservation = {1, 2}
  Limit = 2
  MaxIterations = 2
  MaxSeq = 3
  MaxUpsets = 0
SPECIFICATION Spec
CHECK_DEADLOCK FALSE
INVARIANTS
  NothingSkipped
