CONSTANTS
  big = big
  small = small
  empty = empty
  r1 = r1
  r2 = r2
  Files <- MCWithEmpty
  NumChunks <- MCNumChunks
  Requests <- MCRequests
  Handlers = {"put", "complete", "fail", "retry", "offer", "reject", "crash"}
  Hashed = {}
  MayMismatch = {}
  ConflictPolicy = "skip"
  FreeClient = TRUE
  Timeouts = TRUE
  Faults = TRUE
SPECIFICATION Spec
SYMMETRY RequestSymmetry
INVARIANTS
  RecordedChunksStored
  CompletedMeansDelivered
CHECK_DEADLOCK FALSE
