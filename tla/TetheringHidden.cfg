SPECIFICATION Spec
CONSTANTS
  Call = {c1}
  Radio = {1}
  Overlap = FALSE
  Faults = {"reply"}
  None = None
INVARIANTS
  RunningHotspotReported
