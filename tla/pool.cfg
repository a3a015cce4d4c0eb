SPECIFICATION FairSpec
CONSTANTS
  opening = opening
  first = first
  second = second
  leaver = leaver
  other = other
  Ops = {opening, first, second}
  Opening = opening
  Closers = {leaver, other}
  Reported <- Told
CHECK_DEADLOCK FALSE
INVARIANTS TypeOK ReleasedOnce
PROPERTIES  EndsWithPool
