SPECIFICATION FairDaemonSpec
CONSTANTS
  Mutations = {m1, m2}
  Streams = {s1}
  Free = Free
  Cleanup = Cleanup
  Stopper = Stopper
  Openers = {d1, d2}
  Newest = 3
  Nobody = Nobody
  Self = d1
  Version <- Releases
INVARIANTS StartTypeOK SweptIsFinal NoLostWakeup CleanStop NothingHeld
PROPERTIES StopReturns StartReturns OpensOwnSchema
CHECK_DEADLOCK FALSE
