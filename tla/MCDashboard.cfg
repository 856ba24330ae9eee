CONSTANTS
  NULL = NULL
  Runs <- MCRuns
  MaxRuns = 2
  Conns = {c1, c2}
  Targets = {t1}
  Browsers = {b1, b2}
  Buffer = 1
  MaxOld = 1
SPECIFICATION FairSpec
INVARIANTS DashboardTypeOK EventsAreNews SameOrder OnlyFullChannelsMiss
PROPERTIES RequestsFinish ClientsLeave
