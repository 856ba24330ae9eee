CONSTANTS
  NULL = NULL
  Runs <- MCRuns
  MaxRuns = 2
  Conns = {c1}
  Targets = {t1, t2}
  Browsers = {b1}
  Buffer = 1
  MaxOld = 1
SPECIFICATION FairSpec
INVARIANT PollsAreAnswered
