CONSTANTS
  Conn = {c1, c2}
  None = None
  Addresses <- TwoServers
  Listening <- AtSecond
  ScreenFaults <- Unavailable
  MaxFaults = 1
SPECIFICATION FairSpec
INVARIANTS NeverStranded Watched NoneLost
PROPERTIES Reconnects
CHECK_DEADLOCK FALSE
