SPECIFICATION CacheFairSpec
CONSTANTS
  Caller = {h1, h2}
  CacheFaults = {"cache", "fga", "crash"}
INVARIANTS
  CacheTypeOK
  StaleHasCause
PROPERTY Converges
CHECK_DEADLOCK FALSE
