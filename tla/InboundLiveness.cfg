CONSTANTS
  big = big
  small = small
  empty = empty
  r1 = r1
  r2 = r2
  Files <- MCAllFiles
  NumChunks <- MCNumChunks
  Requests <- MCRequests
  Handlers = {"put", "complete"}
  Hashed <- MCSmall
  MayMismatch = {}
  ConflictPolicy = "rename"
  FreeClient = FALSE
  Timeouts = FALSE
  Faults = FALSE
SPECIFICATION FairSpec
INVARIANT
  AllSavedSettles
PROPERTY
  EveryUploadCompletes
CHECK_DEADLOCK FALSE
