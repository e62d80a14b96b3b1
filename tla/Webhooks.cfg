CONSTANTS
  d1 = d1  d2 = d2  d3 = d3  ip1 = ip1  ip2 = ip2
  Jobs = {d1, d2, d3}
  Requests = {d1, d2, d3}
  ServiceOf <- MixedServices
  Address <- TwoAddresses
  PoolSize = 1
  ForwardSize = 1
  MaxGlobal = 2
  MaxPerIP = 1
  MaxWindows = 1
  Stopping = {"diagnosis", "router"}
  MaxFaults = 1
  MaxEvents = 1
SPECIFICATION FairSpec
CHECK_DEADLOCK FALSE
INVARIANTS WebhookInv 
PROPERTIES ForwardedIsSettled ApprovalStands
