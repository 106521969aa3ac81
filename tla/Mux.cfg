CONSTANTS
  Caller = {main}
  Service = service
  NoOne = nobody
  s1 = s1
  l1 = l1
  Socket = {s1, l1}
  Kind <- MixedKinds
  AcceptFails = TRUE
  ListenErrors = TRUE
SPECIFICATION ThreadsSpec
INVARIANTS LockersAgree EntriesMatchJobs ClosedNotServed
PROPERTIES ThreadsGoOn
CHECK_DEADLOCK FALSE
