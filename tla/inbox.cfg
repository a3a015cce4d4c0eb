SPECIFICATION FairSpec
CONSTANTS
  iterating = iterating
  polling = polling
  Readers = {iterating, polling}
  Iterators = {iterating}
  Capacity = 2
  MaxEvents = 4
  MaxCancels = 2
  MaxUnread = 1
CHECK_DEADLOCK FALSE
INVARIANTS TypeOK HeardOnceInOrder LossAccountedFor EndIsLast
PROPERTY IterationEnds
