SPECIFICATION FairSpec
CONSTANTS
  main = main
  worker = worker
  first = first
  connect = connect
  publishGroup = publishGroup
  Threads = {main, worker}
  Keys = {first}
  NoKey = NoKey
  NoText = NoText
  NoThread = NoThread
  NoFile = NoFile
  Unset = Unset
  Files <- SomeFiles
  Packaged <- Ours
  FUNCTIONS <- Functions
  ABI_VERSION = 1
  WIRE_VERSION <- OurWire
CHECK_DEADLOCK FALSE
INVARIANTS TypeOK OneFitLibrary FreedExactlyOnce FreedMeansClosed
PROPERTIES LockReleased LoadIsRetried NoKeyLeaked
