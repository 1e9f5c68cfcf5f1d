SPECIFICATION Spec
CONSTANTS
  own = own
  dev = dev
  u1 = u1
  u2 = u2
  n1 = n1
  e1 = e1
  e2 = e2
  Handler = {h1}
  User <- MCUser
  Email <- MCEmail
  Role <- MCRole
  Own = own
  Team = Team
  NoRole = NoRole
  Nothing = Nothing
  Absent = Absent
  Founding <- MCOneRole
  Founders <- MCFounders
  Ops = {"updateRole"}
  Limit = 3
  BatchSize = 2
  MaxCalls = 2
  MaxFaults = 0
  Faults = {}
INVARIANTS
  FlagsReachHolders
CHECK_DEADLOCK FALSE
