SPECIFICATION Spec
CONSTANTS
  c1 = c1
  c2 = c2
  w1 = w1
  w2 = w2
  h1 = h1
  h2 = h2
  a1 = a1
  g1 = g1
  k1 = k1
  k2 = k2
  Call = {c1, c2}
  Worker = {w1, w2}
  HostOf <- MCHostOf
  CloudKey = {a1}
  ProviderOf <- MCProviderOf
  Kek = {k1, k2}
  Dek = {d1}
  NoKek = NoKek
  Root = Root
  Absent = Absent
  Ops <- MCAllOps
  MaxCalls = 3
  MaxJobs = 2
  MaxFaults = 2
SYMMETRY Symmetry
CHECK_DEADLOCK FALSE
INVARIANT PendingIsRoot
