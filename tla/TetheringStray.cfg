SPECIFICATION Spec
CONSTANTS
  Call = {c1, c2}
  Radio = {1}
  Overlap = TRUE
  Faults = {}
  None = None
INVARIANTS
  OffReachesNetworkManager
