CONSTANTS
  c1 = c1
  c2 = c2
  None = None
  Client <- TwoClients
  MaxStarts = 2
  MaxPower = 2
  MaxRequests = 1
SPECIFICATION FairSpec
INVARIANTS NothingDangles
PROPERTIES ClosingEnds
CHECK_DEADLOCK FALSE
