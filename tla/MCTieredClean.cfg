CONSTANTS
  Writers = {w1, w2}
  Readers = {r1}
  Ids = {i1, i2}
  MaxBatch = 2
  MaxRetries = 1
  Chunks = 2
  Faults = {}
  CallerTx = FALSE
  NoProc = NoProc
SPECIFICATION Spec
SYMMETRY Symmetry
INVARIANTS OrphansAccounted DeleteRemovesObjects GetFindsStored
