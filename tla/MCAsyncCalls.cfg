CONSTANTS
  Callers = {c1, c2, c3}
  Closers = {x1}
  Pools = {k1, k2}
  PoolMax = 2
  MaxRetries = 1
  AutoMigrate = TRUE
  EarlyClose = FALSE
  Cancels = FALSE
  NoPool = NoPool
  NoTask = NoTask
SPECIFICATION FairSpec
INVARIANTS TypeOK SlotsConserved PoolNotLeaked PoolStays OneEvent ReleasedByClose
PROPERTY AllReturn
