CONSTANTS
  Procs = {p1, p2}
  Ids = {i1, i2, i3}
  Checksums = {1, 2}
  MaxBatch = 2
  MaxRetries = 1
  ClientIds = FALSE
  NoSum = NoSum
  NoProc = NoProc
SPECIFICATION Spec
SYMMETRY Symmetry
INVARIANTS RefCountExact NoDanglingRef BlobLocksAcyclic
PROPERTY Refinement
