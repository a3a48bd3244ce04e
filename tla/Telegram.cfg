SPECIFICATION Spec
CONSTANTS
  Kinds = {alarm}
  TGQ_CAP = 3
  RESERVED_FOR_ALERTS = 2
  TG_ATTEMPTS = 2
  Batch = 2
  MaxUpdates = 3
  MaxCrashes = 1
INVARIANTS
  TypeOK
  AlertsKeepRoom
  ActsOnAll
  StoppedIsEmpty
PROPERTIES
  HandledInOrder
  StaleSkipped
  CommandHandled
  StopCompletes
CHECK_DEADLOCK FALSE
