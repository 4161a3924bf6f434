CONSTANTS
  None = None
  Intervals = {TRUE, FALSE}
  Batch = 2
  OnlineAtLoad = {TRUE, FALSE}
  MaxWrites = 2
  MaxPending = 1
  MaxStarts = 2
  MaxStops = 1
  MaxFlips = 1
  MaxFaults = 2
  MaxUpsets = 1
  MaxSoon = 2
SPECIFICATION FairSpec
CHECK_DEADLOCK FALSE
INVARIANTS
  TypeOK
  
  

  
