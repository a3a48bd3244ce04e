\* The durations of the code, in passes of five seconds.
SPECIFICATION Spec
CONSTANTS
  StaleAfter = 6
  Grace = 9
  Spacing = 12
  MaxRestarts = 5
  LoadTime = 3
  THERM_STEP3 = 3
  MaxReboots = 0
  MaxStrays = 0
INVARIANT
  RestartsAlwaysBounded
CHECK_DEADLOCK FALSE
