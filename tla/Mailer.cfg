SPECIFICATION Spec
CONSTANTS
  Kinds = {alarm, watchdog, thermal}
  MAILQ_CAP = 2
  Debounce = 2
  GuardDebounce = 1
  KIND_FLOOR = 3
  SendTimeout = 1
  MaxPersons = 1
INVARIANTS
  TypeOK
  JpegsOwned
PROPERTIES
  DebounceKept
  DetectionLeaves
  StopCompletes
CHECK_DEADLOCK FALSE
