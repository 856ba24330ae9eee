CONSTANTS
  NULL = NULL
  MaxInt = 1023
  Runs <- MCRuns
  MaxRuns = 2
  Procs = {p1}
  DrainRows = 2
  MaxAge = 1
  MaxSize = 2
  BackoffBase = 1
  BackoffMax = 1
  AttemptCap = 1
  Second = 1
  Faults = {"dberr"}
  MaxFailures = 1
  Malformed = {}
  Conns = {c1, c2}
  Targets = {t1}
SYMMETRY MCSymmetry
SPECIFICATION HostSpec
INVARIANTS PowerTypeOK OnlyUnflushedLost ResultsCountedOnce
PROPERTY ImplementsHostLedger
