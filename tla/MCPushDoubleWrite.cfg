CONSTANTS
  r1 = r1
  r2 = r2
  ins = ins
  mrg = mrg
  rep = rep
  del = del
  bad = bad
  forb = forb
  k1 = k1
  k2 = k2
  R1 = R1
  R2 = R2
  None = None
  Request = {r1, r2}
  Mutation <- MCMutation
  Key <- MCKey
  Resource <- MCResource
  resourceOf <- MCResourceOf
  operation <- MCOperation
  key <- MCKeyOf
  Propagated <- MCPropagated
  Creating = {}
  Invalid = {bad}
  Forbidden = {forb}
  Batches <- MCBatches
  MaxFaults = 1
  MaxCrashes = 1
SPECIFICATION Spec
CHECK_DEADLOCK FALSE
INVARIANTS
  NoDoubleWrite
