\* A polling consumer and no restarts.
SPECIFICATION Spec
CONSTANTS
  Readers = {r}
  MaxAttempts = 2
  MaxFrames = 5
  MaxCrashes = 0
INVARIANT
  ConsumedOnce
CHECK_DEADLOCK FALSE
