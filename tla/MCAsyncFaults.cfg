CONSTANTS
  Callers = {c1, c2}
  Closers = {x1}
  Pools = {k1, k2, k3}
  PoolMax = 2
  MaxRetries = 1
  AutoMigrate = TRUE
  EarlyClose = TRUE
  Cancels = TRUE
  NoPool = NoPool
  NoTask = NoTask
SPECIFICATION Spec
SYMMETRY Symmetry
INVARIANT ReadyHasPool
