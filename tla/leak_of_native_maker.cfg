SPECIFICATION Spec
CONSTANTS
  opening = opening
  put = put
  serve = serve
  NoCall = NoCall
  MayClose = FALSE
  Calls = {serve}
  Blocking = {}
  Makers = {serve}
  Discarding = {}
CHECK_DEADLOCK FALSE
INVARIANT NoHandleLeaked
