SPECIFICATION FairSpec
CONSTANTS
  one = one
  two = two
  user = user
  retry = retry
  Items = {one, two}
  Stoppers = {user, retry}
  MayCancel = TRUE
CHECK_DEADLOCK FALSE
INVARIANTS TypeOK SettledOnceOrFailed StopLeavesNothingRunning FailureSurfaces
PROPERTIES StopTerminates HeldItemsSettled KeepsThePromise
