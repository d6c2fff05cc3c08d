CONSTANTS
  a1 = a1
  a2 = a2
  b1 = b1
  c1 = c1
  fa = fa
  fb = fb
  fc = fc
  Requests <- MCRequests
  Files <- MCFiles
  FileOf <- MCFileOf
  MaxChunks = 1
  MaxFiles = 2
  MaxGlobal = 2
SPECIFICATION FairSpec
INVARIANTS
  TypeOK
  Budgets
  Accounting
  NoLostWakeup
PROPERTY
  EveryRequestAnswered
CHECK_DEADLOCK FALSE
