SPECIFICATION Spec
CONSTANTS
  k1 = k1
  k2 = k2
  v1 = v1
  v2 = v2
  Absent = Absent
  Key <- MCKey
  Value <- MCValue
  Handler = {h1}
  Mutations <- MCSequential
  RollbackKeys <- MCKey
  Rollbacks = {"env"}
  Faults = {"throw"}
  MaxPits = 4
INVARIANTS
  TypeOK
  KeyLivesOnce
PROPERTY RollbackRestores
CHECK_DEADLOCK FALSE
