CONSTANTS
  big = big
  small = small
  empty = empty
  r1 = r1
  r2 = r2
  Files <- MCFiles
  NumChunks <- MCNumChunks
  Requests <- MCRequests
  Handlers = {"put", "complete", "cancel"}
  Hashed <- MCSmall
  MayMismatch = {}
  ConflictPolicy = "rename"
  FreeClient = FALSE
  Timeouts = FALSE
  Faults = FALSE
SPECIFICATION Spec
PROPERTY
  TerminalIsFinal
CHECK_DEADLOCK FALSE
