SPECIFICATION Spec
CONSTANTS
  Links = {k1, k2}
  Spaces = {s1}
  Ports = {p1, p2}
  Procs = {q1, q2}
  NoPort = NoPort
  FixedPort = FixedPort
  NoProc = NoProc
  NoSpace = NoSpace
  NoLink = NoLink
  TTLs = {1, 2}
  URLs = {NoPort}
  MaxTime = 2
  MaxFaults = 0
  MaxCancels = 1
  MaxCrashes = 0
  MaxStops = 0
SYMMETRY Symmetry
INVARIANTS FailedStartStops
