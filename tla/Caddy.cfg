SPECIFICATION FairSpec
CONSTANTS
  Links = {l1, l2}
  Upstreams = {u1, u2}
  Foreign = {f1}
  Fallback = Fallback
  None = None
  Attempts = 1
  MaxFaults = 1
  MaxEdits = 1
INVARIANTS TypeOK OwnedBeforeFallback
PROPERTIES OwnWritesUntilEdited RollbackRestores ProxyKept CallReturns CallAdvances
