CONSTANTS
  j1 = j1  j2 = j2  NoJob = NoJob
  own = own  new = new
  Jobs = {j1, j2}
  Paths = {own, new}
  Tracked = {own}
  Writes <- OneWrites
  Workers = 2
  MaxIterations <- OneIterates
  MaxCoverage = 3
  TargetCoverage = 3
  Tolerance = 1
  ConvergenceThreshold = 2
  ConvergenceWindow = 2
  MaxFaults = 1
SPECIFICATION FairSpec
CHECK_DEADLOCK FALSE
  
PROPERTIES JobSettles
