SPECIFICATION CacheSpec
CONSTANTS
  Caller = {h1, h2}
  CacheFaults = {}
INVARIANT ProtectedIsSeen
CHECK_DEADLOCK FALSE
