\* Two clients compete for one token; two goroutines may call Close at any time.
CONSTANTS
  Clients = {c1, c2}
  Closers = {k1, k2}
  Creator = new
  Workers = {w1, w2}
  NoWorker = NoWorker
  MaxProcesses = 1
  MinProcesses = 1
  MaxCheckouts = 0
SPECIFICATION FairSpec
PROPERTIES
  CloseEnds
  WaiterServed
