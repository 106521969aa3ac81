CONSTANTS
  main = main
  sockets = sockets
  Thread = {main, sockets}
  Main = main
  MaxEvents = 2
  Quitting <- None
  Immediate <- None
SPECIFICATION FairSpec
PROPERTY EventReaches
CHECK_DEADLOCK FALSE
