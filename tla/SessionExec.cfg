CONSTANTS
  s1 = s1
  s2 = s2
  Sessions = {s1, s2}
  Interactive = {s1}
  MaxAsk = 2
  MaxFaults = 2
  Cancels = {s1, s2}
  Answers = {s1}
SPECIFICATION FairSpec
CHECK_DEADLOCK FALSE
CONSTRAINT Bounded
INVARIANTS
  WatchInv
  SessionInv
  CancelWins
PROPERTY
  ImplementsLife
  SessionEnds
