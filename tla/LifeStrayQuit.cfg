CONSTANTS
  c1 = c1
  c2 = c2
  None = None
  Client <- OneClient
  MaxStarts = 2
  MaxPower = 2
  MaxRequests = 1
SPECIFICATION Spec
INVARIANT EndsWhenAsked
CHECK_DEADLOCK FALSE
