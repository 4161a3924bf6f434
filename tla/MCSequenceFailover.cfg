CONSTANTS
  c1 = c1
  c2 = c2
  c3 = c3
  p1 = p1
  p2 = p2
  None = None
  Call <- MCCall
  Process <- MCProcess
  processOf <- MCProcessOf
  Adapter <- MCProcess
  adapterOf <- MCAdapterOf
  Mode = "strict"
  Counts = {2}
  OneAtATime = TRUE
  MaxAttempts = 2
  MaxFlips = 2
  MaxFaults = 1
  MaxRestarts = 1
SPECIFICATION FairSpec
CHECK_DEADLOCK FALSE
INVARIANTS
  NumbersFollowTime
  HighWaterPersisted
PROPERTIES
  EveryCallEnds
