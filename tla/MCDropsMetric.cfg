CONSTANTS
  NULL = NULL
  MaxInt = 1023
  Runs <- MCRuns
  MaxRuns = 4
  Procs = {p1}
  DrainRows = 2
  MaxAge = 1
  MaxSize = 4
  BackoffBase = 1
  BackoffMax = 1
  AttemptCap = 1
  Second = 1
  Faults = {"dberr"}
  Malformed = {}
  Conns = {c1}
  Targets = {t1, t2}

SPECIFICATION Spec
INVARIANT DropsMetricWithinDrops
