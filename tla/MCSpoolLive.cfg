CONSTANTS
  NULL = NULL
  MaxInt = 1023
  Runs <- MCRuns
  MaxRuns = 2
  Procs = {p1, p2}
  DrainRows = 1
  MaxAge = 2
  MaxSize = 1
  BackoffBase = 1
  BackoffMax = 2
  AttemptCap = 1
  Second = 1
  Faults = {"readerr", "stop"}
SPECIFICATION SpoolFairSpec
INVARIANT DropsAccounted
PROPERTY EveryRowLeaves
