SPECIFICATION Spec
CONSTANTS
  k1 = k1
  k2 = k2
  v1 = v1
  v2 = v2
  Absent = Absent
  Key <- MCKey
  Value <- MCValue
  Handler = {h1}
  Mutations <- MCNameTaken
  RollbackKeys <- MCNone
  Rollbacks = {}
  Faults = {}
  MaxPits = 2
INVARIANT KeyLivesOnce
CHECK_DEADLOCK FALSE
