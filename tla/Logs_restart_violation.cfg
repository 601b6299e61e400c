SPECIFICATION Spec
CONSTANTS
  Runs = {r1, r2}
  Pids = {p1, p2}
  None = None
  Stranger = Stranger
  PidReuse = FALSE
  MaxCrashes = 0
  Followers = {}
  Capacity = 1
  QueueLen = 1
  MaxSize = 1
  MaxLines = 1
PROPERTIES RunningOutputKept
