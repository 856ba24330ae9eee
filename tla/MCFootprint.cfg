CONSTANTS
  NULL = NULL
  MaxInt = 1023
  Runs <- MCRuns
  MaxRuns = 3
  Procs = {p1}
  DrainRows = 2
  MaxAge = 3
  MaxSize = 1
  BackoffBase = 1
  BackoffMax = 2
  AttemptCap = 1
  Second = 1
  Faults = {}
SPECIFICATION SpoolSpec
PROPERTY StopsWhenRestFits
