\* One client releases its worker while Close drains.
CONSTANTS
  Clients = {c1, c2}
  Closers = {k1}
  Creator = new
  Workers = {w1, w2, w3}
  NoWorker = NoWorker
  MaxProcesses = 1
  MinProcesses = 1
  MaxCheckouts = 2
SPECIFICATION Spec
INVARIANTS NoWorkerOutlivesPool
