SPECIFICATION Spec
CONSTANTS
  MaxOutages = 1
  InitiallyReachable = {0, 1}
  FirstCap = 1024
  BodyLimit = 65536
  Chunks = {1, 1023, 1024, 30000, 32767}
  MaxChunks = 4
INVARIANTS
  TypeOK
  UsesAreLive
  BodyFits
  StatusHonest
PROPERTIES
  StopCompletes
  Reconnects
\* After the end of the process nothing is left to happen.
CHECK_DEADLOCK FALSE
