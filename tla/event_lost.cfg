SPECIFICATION FairSpec
CONSTANTS
  iterating = iterating
  polling = polling
  Readers = {iterating}
  Iterators = {iterating}
  Capacity = 2
  MaxEvents = 2
  MaxCancels = 1
  MaxUnread = 0
CHECK_DEADLOCK FALSE
INVARIANT EachEventHeardOrCounted
