CONSTANTS
  big = big
  empty = empty
  r1 = r1
  r2 = r2
  Files <- MCFiles
  Size <- MCSize
  ChunkSize = 2
  PhoneChunk = 2
  Batches <- MCBatches
  Puts <- MCPuts
SPECIFICATION FairSpec
INVARIANTS
  TypeOK
  DeliveredWhole
  CompletedIsRecorded
  SettledLeavesNothing
PROPERTIES
  SendsBatch
  OfferSettles
