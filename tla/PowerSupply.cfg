SPECIFICATION Spec
CONSTANTS
  NumDevices = 3
  Battery = {2, 3}
  Reading <- MCReading
  MaxChanges = 2
  MaxFailures = 1
INVARIANTS
  SteadyIsReported
  SignalIsState
  NoPhantom
PROPERTIES
  EventuallyReported
