CONSTANTS
  SyncProcs = {s1}
  AsyncProcs = {a1}
  Ids = {i1, i2}
  Sums = {c1, c2}
  MaxBatch = 2
  MaxRetries = 1
  Chunks = 2
  Modes = {"classic", "dedup"}
  NoSum = NoSum
  NoProc = NoProc
SPECIFICATION Spec
SYMMETRY Symmetry
INVARIANT StreamOwnBytes
