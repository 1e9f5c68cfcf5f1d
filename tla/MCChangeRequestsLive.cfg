SPECIFICATION FairSpec
CONSTANTS
  k1 = k1
  k2 = k2
  v1 = v1
  v2 = v2
  dev = dev
  mgr = mgr
  adm = adm
  Absent = Absent
  NoRequest = NoRequest
  NoUser = NoUser
  NoItem = NoItem
  Key <- MCKey
  Value <- MCValue
  User <- MCUser
  Editors <- MCEditors
  Managers <- MCManagers
  Admins <- MCAdmins
  DirectContents <- MCDirect
  Snapshots <- MCSnapshots
  Request = {r1}
  Handler = {h1, h2}
  Faults = {"throw"}
  MaxAttempts = 3
PROPERTY ClaimResolves
CHECK_DEADLOCK FALSE
