SPECIFICATION Spec
CONSTANTS
  k1 = k1
  k2 = k2
  v1 = v1
  v2 = v2
  Absent = Absent
  NotOpen = NotOpen
  Key <- MCKey
  Value <- MCValue
  Writer = {w1, w2}
  PitId = {p1, p2, p3}
  Batches <- MCBatches
  MaxTime = 2
SYMMETRY IdSymmetry
INVARIANTS
  ReplayIsNewestChange
  RangeDiffIsExact
  TimelineHeadIsCurrent
  PagesCoverWindow
PROPERTY SettledPastIsFinal
CHECK_DEADLOCK FALSE
