SPECIFICATION Spec
CONSTANTS
  blob = blob
  Blobs = {blob}
  Words <- SomeWords
  Width = 4
  Payloads <- SomePayloads
  Documents <- SomeDocuments
  Depth <- Depths
  MaxDepth = 3
CHECK_DEADLOCK FALSE
INVARIANTS RefusedExactly ArrivesAsSent
PROPERTY SentBackUnchanged
