SPECIFICATION NewsSpec
CONSTANTS
  Calls = {c1}
  Parties = {p1, p2}
  Requests = {r1, r2}
  CALL_RING_TIMEOUT_MS = 1
  MaxTime = 1
  None = None
INVARIANT StampsAgree
INVARIANT EndIsTold
INVARIANT LastWordIsTrue
PROPERTY KeepsPromise
PROPERTY RingingEnds
CHECK_DEADLOCK FALSE
