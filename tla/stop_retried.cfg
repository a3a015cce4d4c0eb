SPECIFICATION Spec
CONSTANTS
  one = one
  two = two
  user = user
  retry = retry
  Items = {one}
  Stoppers = {user, retry}
  MayCancel = TRUE
CHECK_DEADLOCK FALSE
INVARIANT ReturnedStopEndsHandlers
