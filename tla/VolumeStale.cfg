SPECIFICATION Spec
CONSTANTS
  Call = {c1}
  Requested <- MCRequested
  Level = {40, 150}
  MaxExternal = 2
PROPERTY StateTracksSink
