SPECIFICATION FairSpec
CONSTANTS
  Desktop = {d1}
  Session = {s1, s2}
  Window = {w1, w2}
  NoWindow = NoWindow
  MaxViewers = 1
  CloseGrace = 1
  HeartbeatGrace = 2
  RenewHold = 2
  OpenHold = 3
  SessionTime = 3
  MaxMessages = 2
  MaxUpsets = 1
INVARIANTS  HoldsHaveSessions
PROPERTY HoldsAreLifted
CHECK_DEADLOCK FALSE
