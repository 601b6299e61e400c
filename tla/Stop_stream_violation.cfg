SPECIFICATION Spec
CONSTANTS
  Mutations = {}
  Streams = {s1}
  Free = Free
  Cleanup = Cleanup
  Stopper = Stopper
INVARIANTS SweepHasTime
CHECK_DEADLOCK FALSE
