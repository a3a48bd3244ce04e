SPECIFICATION Spec
CONSTANTS
  Readers = {r}
  MaxAttempts = 2
  MaxFrames = 5
  MaxCrashes = 2
INVARIANTS
  TypeOK
  NoTornSnapshot
  FreshSnapshot
  NeverOlder
  RealInputIsPublished
PROPERTIES
  ReadableAgain
  ImplementsChannel
CHECK_DEADLOCK FALSE
