CONSTANTS
  Conn = {c1, c2}
  None = None
  Addresses <- OneServer
  Listening <- AtFirst
  ScreenFaults = {}
  MaxFaults = 1
SPECIFICATION Spec
INVARIANT NoCrash
CHECK_DEADLOCK FALSE
