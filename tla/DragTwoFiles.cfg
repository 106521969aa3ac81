SPECIFICATION DragSpec
CONSTANTS
  p1 = p1
  p2 = p2
  nameless = nameless
  Dragger = {p1}
  MaxDrags = 1
  MaxFiles = 2
  MaxThreads = 2
  MaxSize = 1
  Window = 1
  MaxFailures = 0
  Nameless = nameless
INVARIANT FilesInOrder
CHECK_DEADLOCK FALSE
