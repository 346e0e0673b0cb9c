\* A print callback fails during a feed; no dump is loaded.
CONSTANTS
  Callers = {g1, g2}
  Runs = {r1, r2}
  NoRun = NoRun
  MaxStep = 2
  Mishaps = {"print"}
SPECIFICATION FeedsOnly
INVARIANTS HostKnowsSuspension
