SPECIFICATION FairDragSpec
CONSTANTS
  p1 = p1
  p2 = p2
  nameless = nameless
  Dragger = {p1}
  MaxDrags = 3
  MaxFiles = 1
  MaxThreads = 2
  MaxSize = 1
  Window = 1
  MaxFailures = 1
  Nameless = nameless
INVARIANTS DragsApart
PROPERTIES ThreadsEnd Lands
CHECK_DEADLOCK FALSE
