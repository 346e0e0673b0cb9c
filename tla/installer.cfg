\* Two installers, one forced; lock files get old, and one may be left from a crash.
CONSTANTS
  Installers = {i1, i2}
  Forced = {i1}
  NoOne = NoOne
  Past = Past
SPECIFICATION FairSpec
INVARIANTS
  OneHolder
  KeptWhileLocksHold
PROPERTIES
  PublishesVerified
  InstallEnds
