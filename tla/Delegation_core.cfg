CONSTANTS
  t1 = t1
  t2 = t2
  w1 = w1
  w2 = w2
  fix = fix
  doc = doc
  NoTask = NoTask
  Tasks = {t1, t2}
  Agents = {1, 2, 3}
  Workers = {w1, w2}
  Words = {fix}
  FromAgent <- MCFrom
  ToAgent <- MCToSame
  Priority <- MCPriority
  Description <- MCDescription
  Role <- MCRole
  MaxDepth <- MCDepth
  OldSessions <- OldTwo
  MaxTasks = 2
  MaxSessions = 2
  MaxAgentsPerPoll = 1
  MaxRows = 4
  MaxFaults = 1
  Cancels = {}
  Others = {}
  DelegateFrom = {0, 1, 2}
  Summaries = {TRUE, FALSE}
SYMMETRY Symmetry
SPECIFICATION Spec
CHECK_DEADLOCK FALSE
INVARIANTS
  ExecutedOnce
  NoLostWakeup
  QueueInv
