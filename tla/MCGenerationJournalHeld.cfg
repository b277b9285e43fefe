SPECIFICATION FairSpec
CONSTANTS
  a = a
  b = b
  Nobody = Nobody
  Process = {a, b}
  MaxPhases = 2
  Windows = {1}
  MaxWrites = 1
  MaxFaults = 0
PROPERTIES HeldIsReleased
CHECK_DEADLOCK FALSE
