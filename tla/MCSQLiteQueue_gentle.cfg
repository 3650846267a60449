SPECIFICATION FairSpec
CONSTANTS
  u1 = u1
  u2 = u2
  j1 = j1
  j2 = j2
  NoJob = NoJob
  Users = {u1, u2}
  Jobs = {j1, j2}
  Waiters = {u1}
  CancelModes = {FALSE}
  StopModes = {TRUE}
  Reincarnates = TRUE
  JobsWait = FALSE
  MaxDeaths = 2
INVARIANT CancelledAsReported
INVARIANT NoLeakedTransaction
PROPERTY SurvivesReincarnation
PROPERTY EveryJobFinishes
