SPECIFICATION Spec
CONSTANTS
  Parties = {p1, p2}
  Requests = {r1, r2}
  Keys = {k1}
  MaxMessages = 2
  None = None
INVARIANT SendersMayEdit
