SPECIFICATION Spec
CONSTANTS
  Users = {u1}
  Tokens = {t1, t2, t3, t4}
  Requests = {r1, r2}
  None = None
SYMMETRY Symmetry
INVARIANT ChainSound
INVARIANT LiveSessionsBoundedByForks
PROPERTY EndedFamilyStaysEnded
PROPERTY SuspensionHolds
