CONSTANTS
  NULL = NULL
  MaxInt = 1023
  Runs <- MCRuns
  MaxRuns = 2
  Procs = {p1}
  DrainRows = 1
  MaxAge = 1
  MaxSize = 2
  BackoffBase = 1
  BackoffMax = 1
  AttemptCap = 1
  Second = 1
  Faults = {"stop", "timeout", "dberr", "credential", "crash"}
  Malformed = {1}
  Conns = {c1, c2}
  Targets = {t1, t2}
SYMMETRY MCSymmetry
SPECIFICATION Spec
INVARIANTS DeliveryTypeOK NoSilentLoss AcceptedMeansStored ResultsCountedOnce ReportsAreGenuine
PROPERTY ImplementsLedger
