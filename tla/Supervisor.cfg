\* The durations of the code, in passes of five seconds.
SPECIFICATION Spec
CONSTANTS
  StaleAfter = 6
  Grace = 9
  Spacing = 12
  MaxRestarts = 5
  LoadTime = 3
  THERM_STEP3 = 3
  MaxReboots = 1
  MaxStrays = 1
INVARIANTS
  TypeOK
  RestartsBounded
PROPERTIES
  LoadsUndisturbed
  SourceReported
CHECK_DEADLOCK FALSE
