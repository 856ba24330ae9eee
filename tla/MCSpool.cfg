CONSTANTS
  NULL = NULL
  MaxInt = 63
  Runs <- MCRuns
  MaxRuns = 4
  Procs = {p1}
  DrainRows = 2
  MaxAge = 5
  MaxSize = 3
  BackoffBase = 1
  BackoffMax = 4
  AttemptCap = 2
  Second = 2
  Faults = {"stop"}
SPECIFICATION SpoolSpec
INVARIANTS WindowIsCappedPower SpoolTypeOK ReportsNeverRegress
PROPERTIES BackoffHonoured RetentionDropsOnlyExcess RetentionSuffices
