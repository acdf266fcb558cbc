SPECIFICATION FairSpec
CONSTANTS
  Requests = {r1, r2}
  MaxOtps = 2
  MaxAttempts = 3
  None = None
INVARIANT ConsumedIffSignedIn
INVARIANT SignUpNeverOverwrites
INVARIANT AttemptsBounded
PROPERTY SuspendedAccountIsFrozen
PROPERTY EveryVerifyAnswered
