CONSTANTS
  t1 = t1
  t2 = t2
  w1 = w1
  w2 = w2
  fix = fix
  doc = doc
  NoTask = NoTask
  Tasks = {t1, t2}
  Agents = {1, 2, 3}
  Workers = {w1}
  Words = {fix, doc}
  FromAgent <- MCFrom
  ToAgent <- MCToSame
  Priority <- MCPriority
  Description <- TwoDescriptions
  Role <- MCRole
  MaxDepth <- MCDepth
  OldSessions <- OldTwo
  MaxTasks = 2
  MaxSessions = 1
  MaxAgentsPerPoll = 1
  MaxRows = 4
  MaxFaults = 0
  Cancels = {t1}
  Others = {t1}
  DelegateFrom = {1, 2}
  Summaries = {FALSE}
SPECIFICATION FairSpec
CHECK_DEADLOCK FALSE
INVARIANTS
  BlockersFinished
  DoneIsWitnessed
PROPERTIES
  TerminalIsFinal
  ClaimedSettles
  UnblockedIsClaimed
