CONSTANTS
  None = None
  Tickets = {t1, t2}
  IPs = {i1}
  Handlers = {h1, h2, h3}
  TTL = 2
  Window = 2
  Block = 2
  Limit = 3
SPECIFICATION FairSpec
INVARIANTS TicketsTypeOK AdmittedOnce FewFailures GaugeIsExact
PROPERTIES BlockRunsItsTime TicketsLeave
