SPECIFICATION FairSpec
CONSTANTS
  Links = {k1}
  Spaces = {s1}
  Ports = {p1}
  Procs = {q1, q2}
  NoPort = NoPort
  FixedPort = FixedPort
  NoProc = NoProc
  NoSpace = NoSpace
  NoLink = NoLink
  TTLs = {1, 2}
  URLs = {NoPort}
  MaxTime = 2
  MaxFaults = 1
  MaxCancels = 1
  MaxCrashes = 1
  MaxStops = 0
PROPERTIES ExpiredCollected MutexReleased OperationAdvances
