SPECIFICATION Spec
CONSTANTS
  opening = opening
  put = put
  serve = serve
  NoCall = NoCall
  MayClose = TRUE
  Calls = {opening}
  Blocking = {opening}
  Makers = {opening}
  Discarding = {opening}
CHECK_DEADLOCK FALSE
INVARIANT NoHandleLeaked
