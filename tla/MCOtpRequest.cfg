SPECIFICATION AskSpec
CONSTANTS
  CodeRequests = {r1, r2}
  Details = {d1, d2}
  COOLDOWN = 2
  TTL = 2
  DAY = 3
  DAILY_LIMIT = 2
  MaxTime = 4
  Null = Null
SYMMETRY Symmetry
INVARIANT SendsBounded
INVARIANT TextsMatchCodes
