SPECIFICATION Spec
CONSTANTS
  Id = {a1, a2}
  Dirs = 2
  Settings = {plain, custom}
  Default = plain
  None = None
  MaxSessions = 2
  MaxChanges = 2
SYMMETRY Apps
INVARIANT TypeOK
INVARIANT AshShowsEveryApp
INVARIANT ScanAgreesWithFindApp
INVARIANT NotFoundOnlyIfRemoved
PROPERTY NothingLost
CHECK_DEADLOCK FALSE
