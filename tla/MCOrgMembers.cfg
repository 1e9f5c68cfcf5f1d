SPECIFICATION Spec
CONSTANTS
  own = own
  dev = dev
  u1 = u1
  u2 = u2
  n1 = n1
  e1 = e1
  e2 = e2
  Handler = {h1, h2}
  User <- MCUser
  Email <- MCEmail
  Role <- MCRole
  Own = own
  Team = Team
  NoRole = NoRole
  Nothing = Nothing
  Absent = Absent
  Founding <- MCFounding
  Founders <- MCFounders
  Ops <- MCOps
  Limit = 3
  BatchSize = 2
  MaxCalls = 2
  MaxFaults = 2
  Faults = {"fail", "reply", "crash"}
SYMMETRY HandlerSymmetry
INVARIANTS
  TypeOK
  DriftHasCause
PROPERTIES
  LastAdminLeavesUnguarded
  LimitPassedByRace
CHECK_DEADLOCK FALSE
