SPECIFICATION Spec
CONSTANTS
  u1 = u1
  u2 = u2
  j1 = j1
  j2 = j2
  NoJob = NoJob
  Users = {u1, u2}
  Jobs = {j1, j2}
  Waiters = {u1}
  CancelModes = {TRUE, FALSE}
  StopModes = {TRUE, FALSE}
  Reincarnates = TRUE
  JobsWait = TRUE
  MaxDeaths = 2
INVARIANT OneJobOnConnection
INVARIANT FirstComeFirstServed
PROPERTY NoRestart
PROPERTY ImplementsService
SYMMETRY Symmetry
