SPECIFICATION Spec
CONSTANTS
  p1 = p1
  p2 = p2
  Process <- MCProcess
  Home <- MCHome
  Call = {1, 2, 3}
  Level <- MCLevel
  Life <- MCLife
  Limit = 1
  None = None
  MaxSerial = 1
  MaxEvents = 1
INVARIANTS
  TypeOK
  WaitsForRunning
PROPERTIES
  TokenWithinPermissions
  ReturnedTokenWorks
CHECK_DEADLOCK FALSE
