CONSTANTS
  Pipelines = {i1, i2}
  Procs = {b1, b2}
  MaxConcurrent = 1
  MaxFaults = 1
  Stops = {b1}
  Records = {TRUE, FALSE}
SPECIFICATION FairSpec
CHECK_DEADLOCK FALSE
INVARIANTS  PullRequestRecorded
PROPERTIES PendingIsTaken RunningSettles
