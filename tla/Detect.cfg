SPECIFICATION Spec
CONSTANTS
  MaxPersons = 2
  Rings = {1, 2}
  GuardDefault = FALSE
  MaxRows = 3
  MaxFaults = 2
INVARIANTS
  TypeOK
  RingKeepsNewest
  StatsAgree
PROPERTIES
  ConfirmedChange
  RowTellsAlarm
  SceneReported
CHECK_DEADLOCK FALSE
