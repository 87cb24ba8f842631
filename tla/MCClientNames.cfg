CONSTANTS
  SyncClients = {z1}
  AsyncClients = {a1}
  Commands = {k1}
  Ids = {i1, i2}
  Contents = {b1, b2}
  MaxBatch = 2
  MaxBusy = 1
  Hooks = {{}, {"before_put", "before_get"}}
  Invalid = Invalid
  Malformed = Malformed
SPECIFICATION Spec
SYMMETRY Symmetry
INVARIANT DeletedSaysSo
