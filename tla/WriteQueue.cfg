SPECIFICATION FairSpec
CONSTANTS
  Streams  = {s1, s2}
  Limit    = 1
  MaxFrame = 2
  MaxPush  = 4
INVARIANTS SendQueueBounded FramesKept
PROPERTIES TasksWake
CHECK_DEADLOCK FALSE
