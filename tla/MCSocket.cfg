CONSTANTS
  Conn = {s1, s2}
  None = None
  Limit = 1
  MaxChanges = 2
  MaxUpsets = 2
  MaxEvents = 2
SPECIFICATION FairSpec
CHECK_DEADLOCK FALSE
INVARIANTS
  TypeOK
  FencedStaysOut
  ConnectedIsCurrent
  
PROPERTIES
  StaysConnected
