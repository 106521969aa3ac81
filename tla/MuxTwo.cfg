CONSTANTS
  Caller = {main, other}
  Service = service
  NoOne = nobody
  s1 = s1
  l1 = l1
  Socket = {s1, l1}
  Kind <- MixedKinds
  AcceptFails = TRUE
  ListenErrors = TRUE
SPECIFICATION Spec
INVARIANTS LockersAgree EntriesMatchJobs ClosedNotServed
CHECK_DEADLOCK FALSE
