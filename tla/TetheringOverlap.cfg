SPECIFICATION Spec
CONSTANTS
  Call = {c1, c2, c3}
  Radio = {1}
  Overlap = TRUE
  Faults = {"call", "radio"}
  None = None
INVARIANTS
  StartingUnderWay
PROPERTIES
  SwitchSpec
