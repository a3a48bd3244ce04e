SPECIFICATION Spec
CONSTANTS
  Kinds = {alarm, watchdog}
  MAILQ_CAP = 2
  Debounce = 3
  GuardDebounce = 1
  KIND_FLOOR = 4
  SendTimeout = 1
  MaxPersons = 2
PROPERTY
  WorstObservationSent
CHECK_DEADLOCK FALSE
