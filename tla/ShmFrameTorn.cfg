\* The header's promise without the exception for restarts.
SPECIFICATION Spec
CONSTANTS
  Readers = {r}
  MaxAttempts = 2
  MaxFrames = 5
  MaxCrashes = 1
INVARIANT
  NeverTorn
CHECK_DEADLOCK FALSE
