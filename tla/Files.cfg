SPECIFICATION FairSpec
CONSTANTS
  Machine = {a, b}
  Own = {1, 2}
  MaxActs = 2
  MaxFaults = 1
  MaxSaved = 3
  MaxInbox = 1
INVARIANTS RightFiles
PROPERTIES NoEcho CopiesArrive
CHECK_DEADLOCK FALSE
