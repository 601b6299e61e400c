SPECIFICATION Spec
CONSTANTS
  Links = {k1, k2}
  Spaces = {s1}
  Ports = {p1, p2}
  Procs = {q1, q2}
  NoPort = NoPort
  FixedPort = FixedPort
  NoProc = NoProc
  NoSpace = NoSpace
  NoLink = NoLink
  TTLs = {1}
  URLs = {NoPort}
  MaxTime = 1
  MaxFaults = 3
  MaxCancels = 1
  MaxCrashes = 1
  MaxStops = 1
SYMMETRY Symmetry
CONSTRAINT ThreeMishaps
INVARIANTS TypeOK RouteRecoverable NoOrphan
PROPERTIES HandleKept RouteGoneBeforeStop  StopLeavesOnlyExpired LeaseContract
