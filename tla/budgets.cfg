\* A REPL in up to three sessions of up to two feeds each.
CONSTANTS
  Micro = 2
  Delays = {1, 6}
  Options <- MCOptions
  DefaultSuspensions = 2
  DefaultCap = 4
  MaxTicks = 7
  MaxSessions = 3
  MaxFeeds = 2
SPECIFICATION Spec
INVARIANTS
  TypeOK
  SuspensionsCounted
  SleepPaidFor
  LimitsInherited
CHECK_DEADLOCK FALSE
