CONSTANTS
  Caller = {main}
  Service = service
  NoOne = nobody
  s1 = s1
  l1 = l1
  Socket = {s1, l1}
  Kind <- PlainKinds
  AcceptFails = FALSE
  ListenErrors = FALSE
SPECIFICATION FairSpec
PROPERTIES CallReturns ServiceLoops KeepsListening
CHECK_DEADLOCK TRUE
