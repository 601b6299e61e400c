SPECIFICATION LogFairSpec
CONSTANTS
  Followers = {f1}
  Capacity = 3
  QueueLen = 1
  MaxSize = 4
  MaxLines = 4
INVARIANTS RingIsNewest ReleasedOnce ClosedEndsStreams
PROPERTIES GoroutinesEnd
