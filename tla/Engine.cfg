CONSTANTS
  s1 = s1  s2 = s2  s3 = s3  r1 = r1  r2 = r2  None = None
  Sessions = {s1, s2, s3}
  Repos = {r1, r2}
  RepoOf <- TwoOnOne
  Proposes <- LastIsIdle
  MaxCachedRepos = 1
  MaxIterations <- FirstRetries
  Cancellable = {s2}
  MaxFaults = 1
SPECIFICATION FairSpec
CHECK_DEADLOCK FALSE
INVARIANTS EngineInv
 
