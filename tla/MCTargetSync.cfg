CONSTANTS
  None = None
  Nodes = {h1}
  Addresses = {a1}
  Secrets = {s1}
  Admins = {o1, o2}
  MaxRequests = 2
  DBErrors = TRUE
  Self = self
  MaxRestarts = 1
SPECIFICATION FairSpec
INVARIANTS SyncTypeOK HubsHaveAddresses StaleListHasReason
PROPERTIES CacheCatchesUp PostsResume ChangeIsBumped
