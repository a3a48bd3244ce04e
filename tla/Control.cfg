SPECIFICATION Spec
CONSTANTS
  TopLevel = 1
  Clients = {c1}
  ApiFps = {}
  ApiWidth = {160}
  ApiNetInput = {0}
  MaxSeq = 2
  MaxRestarts = 1
INVARIANTS
  TypeOK
  Settled
PROPERTIES
  Converges
  BoxesFit
CHECK_DEADLOCK FALSE
