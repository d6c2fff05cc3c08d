CONSTANTS
  p1 = p1
  ui = ui
  Conns <- PhoneAndUI
  Local <- TheUI
  RegisterCap = 2
  UnregisterCap = 4
  MissedPongsThreshold = 1
  BroadcastCap = 2
  InboxCap = 1
  MaxSent = 3
SPECIFICATION MessagesSpec
INVARIANTS
  MessagesTypeOK
  NothingMissed
  QueuedOnlyWhileOffline
  OpenWhileRegistered
  LeavingIsCovered
