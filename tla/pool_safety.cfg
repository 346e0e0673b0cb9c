\* Three clients share one token; a worker serves two sessions.
CONSTANTS
  Clients = {c1, c2, c3}
  Closers = {k1, k2}
  Creator = new
  Workers = {w1, w2, w3}
  NoWorker = NoWorker
  MaxProcesses = 1
  MinProcesses = 1
  MaxCheckouts = 2
SPECIFICATION Spec
SYMMETRY Symmetry
INVARIANTS
  TypeOK
  SlotAccounting
  ExclusiveOwnership
  NoOrphan
  RegistryExact
  SessionIsolation
  RecycleLimit
  ProcessBound
PROPERTIES LeaseSpec
