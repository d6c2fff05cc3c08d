CONSTANTS
  big = big
  small = small
  empty = empty
  r1 = r1
  r2 = r2
  Files <- MCFiles
  NumChunks <- MCNumChunks
  Requests <- MCRequests
  Handlers <- HandlerNames
  Hashed <- MCSmall
  MayMismatch <- MCSmall
  ConflictPolicy = "skip"
  FreeClient = TRUE
  Timeouts = TRUE
  Faults = FALSE
SPECIFICATION Spec
SYMMETRY RequestSymmetry
INVARIANTS
  TypeOK
  SavedIsWhole
  RecordedChunksStored
  CompletedMeansDelivered
  CompletedMeansVerified
  RestartLeavesNoZombie
  CountsNeverAhead
PROPERTIES
  StagedFilesAreFinal
  DeliversBatch
CHECK_DEADLOCK FALSE
