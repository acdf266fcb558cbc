SPECIFICATION Spec
CONSTANTS
  Inviters = {i1, i2}
  Links = {n1, n2, n3}
  Requests = {r1, r2}
  None = None
SYMMETRY Symmetry
INVARIANT SingleUse
INVARIANT LiveLinksBounded
PROPERTY DeadLinksStayDead
