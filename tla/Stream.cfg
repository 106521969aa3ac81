SPECIFICATION FairStreamSpec
CONSTANTS
  MaxIn = 4
  MaxOut = 2
  MaxInput = 1
  Record = 3
INVARIANTS InputHandled SentInOrder
PROPERTIES Delivered NothingHangs
CHECK_DEADLOCK FALSE
