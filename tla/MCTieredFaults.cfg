CONSTANTS
  Writers = {w1, w2}
  Readers = {}
  Ids = {i1, i2}
  MaxBatch = 2
  MaxRetries = 1
  Chunks = 2
  Faults = {"lost_ack", "disconnect", "error", "upload", "crash"}
  CallerTx = TRUE
  NoProc = NoProc
SPECIFICATION Spec
SYMMETRY Symmetry
INVARIANTS NoLostBytes IInv
PROPERTY Refinement
