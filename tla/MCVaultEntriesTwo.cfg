SPECIFICATION Spec
CONSTANTS
  k1 = k1
  k2 = k2
  v1 = v1
  v2 = v2
  Absent = Absent
  Key <- MCKey
  Value <- MCValue
  Handler = {h1, h2}
  Mutations <- MCOverlapping
  RollbackKeys <- MCNone
  Rollbacks = {"env"}
  Faults = {"throw", "list", "crash"}
  MaxPits = 3
SYMMETRY HandlerSymmetry
INVARIANT HistoryTellsVault
CHECK_DEADLOCK FALSE
