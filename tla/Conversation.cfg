CONSTANTS
  m1 = m1  m2 = m2  m3 = m3  u1 = u1  u2 = u2  a = a  b = b
  Messages = {m1, m2, m3}
  Users = {u1, u2}
  Agents = {a, b}
  NoAgent = NoAgent
  Configs <- Answers
  UserOf <- Authors
  Names <- Named
  OverSlack = TRUE
  InThread = {m2, m3}
  WorkRequests = {m3}
  Owner = u1
  MaxHandlers = 2
  MessagesPerMinute = 1
  Minute = 1
  Idle = 1
  MaxHistoryKeys = 1
  MaxMessagesPerAgent = 2
  MaxTime = 2
SPECIFICATION FairSpec
CHECK_DEADLOCK FALSE
INVARIANTS  RateHolds 
 
