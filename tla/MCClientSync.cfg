CONSTANTS
  Table = {A}
  Mine = {A}
  Theirs = {A}
  None = None
  Batch = 2
  MaxWrites = 2
  MaxForeign = 2
  MaxChanges = 2
  MaxFaults = 1
  MaxCrashes = 1
  MaxClones = 1
SPECIFICATION Spec
CHECK_DEADLOCK FALSE
INVARIANTS
  TypeOK
  NothingSkipped
  CaughtUpIsCurrent
  
  AckedIsSettled
