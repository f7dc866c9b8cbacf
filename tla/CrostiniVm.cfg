SPECIFICATION Spec
CONSTANTS
  Start = {s1, s2}
  Stop = {p1}
  user = user
  penguin = penguin
  Vm = Vm
  User = {user}
  Reserved = {Vm, penguin}
  guest = guest
  Name = {guest}
  Placeholder = Placeholder
  None = None
  Requests <- MCRequests
  MaxChanges = 1
INVARIANT AnnouncedIsRunning
INVARIANT ToldAgrees
INVARIANT KnownUserNamed
INVARIANT RescanSeesChanges
PROPERTY RunningIsTold
CHECK_DEADLOCK FALSE
