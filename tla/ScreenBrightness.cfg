SPECIFICATION Spec
CONSTANTS
  Call = {c1, c2}
  NaN = NaN
  Requested <- MCRequested
  MaxLevel = 30
INVARIANT TypeOK
INVARIANT BrightnessAgrees
PROPERTY DarkOnlyOnRequest
CHECK_DEADLOCK FALSE
