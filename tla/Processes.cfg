SPECIFICATION FairSpec
CONSTANTS
  Runs = {r1, r2}
  Pids = {p1}
  None = None
  Stranger = Stranger
  PidReuse = TRUE
  MaxCrashes = 1
  Followers = {}
  Capacity = 1
  QueueLen = 1
  MaxSize = 1
  MaxLines = 1
INVARIANTS RunningIsRecorded StopMeansDead DeadMeansExited
PROPERTIES LogClosed
