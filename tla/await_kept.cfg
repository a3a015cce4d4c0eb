SPECIFICATION FairSpec
CONSTANTS
  opening = opening
  put = put
  serve = serve
  NoCall = NoCall
  MayClose = FALSE
  Calls = {opening, put}
  Blocking = {opening, put}
  Makers = {opening}
  Discarding = {opening}
CHECK_DEADLOCK FALSE
INVARIANT NoHandleLeaked
PROPERTIES KeepsThePromise CancelledCallEnds
