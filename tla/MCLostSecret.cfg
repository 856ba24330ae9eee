CONSTANTS
  None = None
  Nodes = {h1}
  Addresses = {a1}
  Secrets = {s1, s2}
  Admins = {o1, o2}
  MaxRequests = 4
  DBErrors = FALSE
SYMMETRY MCSymmetry
SPECIFICATION RegistrySpec
CHECK_DEADLOCK FALSE
PROPERTY PatchKeepsSecret
