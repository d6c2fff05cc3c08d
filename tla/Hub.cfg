CONSTANTS
  p1 = p1
  p2 = p2
  Conns <- TwoPhones
  Local <- NoUI
  RegisterCap = 2
  UnregisterCap = 4
  MissedPongsThreshold = 1
SPECIFICATION FairSpec
INVARIANTS
  TypeOK
  TimerMeansNoPhone
  PresenceIsReal
  NeverStuck
PROPERTIES
  PhoneAwayIsNoticed
  RevokedSessionsEnd
