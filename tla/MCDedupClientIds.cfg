CONSTANTS
  Procs = {p1, p2}
  Ids = {i1, i2}
  Checksums = {1, 2}
  MaxBatch = 2
  MaxRetries = 1
  ClientIds = TRUE
  NoSum = NoSum
  NoProc = NoProc
SPECIFICATION FairSpec
INVARIANTS IInv PutStoredOnce
PROPERTY CallsReturn
