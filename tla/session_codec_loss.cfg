\* A host value cannot be encoded.
CONSTANTS
  Callers = {g1, g2}
  Runs = {r1, r2}
  NoRun = NoRun
  MaxStep = 2
  Mishaps = {"codec"}
SPECIFICATION Spec
INVARIANTS NoFeedAbandoned
