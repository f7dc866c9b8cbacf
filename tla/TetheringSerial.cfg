SPECIFICATION Spec
CONSTANTS
  Call = {c1, c2, c3, c4}
  Radio = {1, 2}
  Overlap = FALSE
  Faults = {"reply"}
  None = None
INVARIANTS
  SignalAgreement
  ReportedHotspotRuns
PROPERTIES
  DisableCleansUp
