\* One feed with up to two futures; the callbacks need not return.
CONSTANTS
  Callers = {g1, g2}
  Runs = {r1}
  NoRun = NoRun
  MaxStep = 3
  Mishaps = {}
SPECIFICATION FairSpec
PROPERTIES
  CloseWakesWaiter
  ReadyFutureResumes
