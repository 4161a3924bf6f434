CONSTANTS
  c1 = c1
  c2 = c2
  c3 = c3
  p1 = p1
  p2 = p2
  None = None
  Call <- MCCall
  Process <- MCProcess
  processOf <- MCProcessOf
  Adapter <- MCCall
  adapterOf <- MCOwnAdapter
  Mode = "strict"
  Counts = {1, 2}
  OneAtATime = FALSE
  MaxAttempts = 2
  MaxFlips = 1
  MaxFaults = 0
  MaxRestarts = 0
SPECIFICATION Spec
CHECK_DEADLOCK FALSE
INVARIANTS
  UniqueSeq
