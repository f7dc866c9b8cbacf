SPECIFICATION Spec
CONSTANTS
  Call = {c1, c2}
  Requested <- MCRequested
  Level = {40, 150}
  MaxExternal = 2
INVARIANT TypeOK
INVARIANT DriftIsSeen
PROPERTY SinkAnnounced
PROPERTY AloneTracksSink
