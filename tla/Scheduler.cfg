CONSTANTS
  a = a
  b = b
  p1 = p1
  p2 = p2
  Schedules = {a, b}
  Procs = {p1, p2}
  Jobs = {1, 2}
  MaxConcurrent = 1
  Period = 2
  ClaimExtension = 1
  Timeout = 1
  FailureLimit = 1
  MaxFaults = 1
  Toggles = {a}
  Stops = {p1, p2}
SPECIFICATION FairSpec
CHECK_DEADLOCK FALSE
CONSTRAINT Bounded
INVARIANTS
  SchedulerInv
PROPERTIES
  ClaimedIsDue
  RunsAgain
