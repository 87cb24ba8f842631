CONSTANTS
  Callers = {c1, c2}
  Closers = {}
  Pools = {k1, k2}
  PoolMax = 1
  MaxRetries = 1
  AutoMigrate = TRUE
  EarlyClose = FALSE
  Cancels = TRUE
  NoPool = NoPool
  NoTask = NoTask
SPECIFICATION Spec
SYMMETRY Symmetry
INVARIANT PoolNotLeaked
