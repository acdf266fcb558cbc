SPECIFICATION MessagesSpec
CONSTANTS
  Messages = {m1, m2}
  Requests = {r1, r2}
  MaxTime = 1
  None = None
  N = 2
  Attachments = {2}
  MaxStamp = 2
  Sockets = {d1, s1}
  Devices = {d1}
  Limit = 1
  MaxEvents = 2
SYMMETRY Symmetry
INVARIANT UnreadMatchesReceipts
INVARIANT RecoveryComplete
PROPERTY ReceiptsOnlyAdvance
CHECK_DEADLOCK FALSE
