CONSTANTS
  Timer = {t1, t2}
  Duration <- OneOrTwo
  MaxClock = 3
  MaxAge = 3
  MaxBacklog = 2
  MaxPosts = 1
  Endless = FALSE
SPECIFICATION FairTimers
INVARIANTS NeverEarly
PROPERTIES TimersObey DueIsServed
CHECK_DEADLOCK FALSE
