SPECIFICATION FairSpec
CONSTANTS
  owner = owner
  iterating = iterating
  Tasks = {owner, iterating}
  Owner = owner
  Readers = {owner, iterating}
  Iterators = {iterating}
  MaxWrites = 1
  MaxFrames = 2
  MaxCancels = 2
CHECK_DEADLOCK FALSE
INVARIANTS TypeOK WritesLandInOrder FramesReadOnce FreedOnce
PROPERTIES LeavingFrees IterationEnds
