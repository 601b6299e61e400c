SPECIFICATION Spec
CONSTANTS
  Links = {l1, l2}
  Upstreams = {u1, u2}
  Foreign = {f1}
  Fallback = Fallback
  None = None
  Attempts = 1
  MaxFaults = 0
  MaxEdits = 1
PROPERTIES OnlyOwnWrites
