SPECIFICATION LoopFairSpec
CONSTANTS
  opening = opening
  put = put
  serve = serve
  NoCall = NoCall
  MayClose = TRUE
  Calls = {opening, serve}
  Blocking = {opening}
  Makers = {opening, serve}
  Discarding = {opening}
CHECK_DEADLOCK FALSE
INVARIANTS CancelReachesTheCall CancelledExactlyWhenAsked HandleHasOneFate
PROPERTIES CancelReturnsAtOnce AwaitsAsPoolTakesThem
