CONSTANTS
  Procs = {p1, p2}
  Ids = {i1, i2}
  Sums = {1}
  MaxBatch = 2
  MaxRetries = 1
  PoolMax = 2
  Chunks = 2
  Modes = {"classic", "dedup"}
  NoSum = 0
  NoProc = NoProc
SPECIFICATION Spec
SYMMETRY Symmetry
INVARIANTS TypeOK PoolClean RefCountExact StreamsWhole CloseStops
PROPERTIES Refinement
