SPECIFICATION Spec
CONSTANTS
  k1 = k1
  k2 = k2
  v1 = v1
  v2 = v2
  Absent = Absent
  NotOpen = NotOpen
  Key <- MCKey
  Value <- MCValue
  Writer = {w1}
  PitId = {p1, p2}
  Batches <- MCBatches
  MaxTime = 1
INVARIANT PitDiffIsExact
CHECK_DEADLOCK FALSE
