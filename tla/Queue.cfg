CONSTANTS
  main = main
  sockets = sockets
  Thread = {main, sockets}
  Main = main
  MaxEvents = 3
  Quitting <- MCQuitting
  Immediate <- MCImmediate
SPECIFICATION FairSpec
INVARIANTS IdsMatch HandledOnce
PROPERTIES LateEventReaches
CHECK_DEADLOCK FALSE
