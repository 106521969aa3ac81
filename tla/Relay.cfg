CONSTANTS
  MaxConns = 2
  Networks <- EitherPace
  None = None
SPECIFICATION FairSpec
PROPERTIES MeetsAsSpecified SessionLasts MeetAgain
CHECK_DEADLOCK FALSE
