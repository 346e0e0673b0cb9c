\* Two installers find the stale lock file of a crashed process.
CONSTANTS
  Installers = {i1, i2}
  Forced = {}
  NoOne = NoOne
  Past = Past
SPECIFICATION Spec
INVARIANTS ReturnedIsInstalled
