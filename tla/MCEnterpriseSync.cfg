SPECIFICATION FairSpec
CONSTANTS
  Executors = {e1, e2}
  t1 = t1
  t2 = t2
  k1 = k1
  k2 = k2
  n1 = n1
  n2 = n2
  v1 = v1
  v2 = v2
  Scenes <- MCScenes
  Keys = {k1, k2}
  Names = {n1, n2}
  Values = {v1, v2}
  Absent = Absent
  Faults = {"throw", "reply", "list", "db", "crash"}
  MaxFaults = 1
  MaxChanges = 1
INVARIANTS TypeOK RefusedWritesNothing
PROPERTIES VerdictStands SuccessIsInForce RunsEnd
CHECK_DEADLOCK FALSE
