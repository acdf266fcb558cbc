SPECIFICATION FilesSpec
CONSTANTS
  Requests = {r1, r2}
  Files = {f1, f2, f3}
  Statuses = {s1, s2}
  Messages = {m1}
  None = None
  Absent = Absent
  Handlers = {r1, r2}
  CoverKeys = {f1, f2, f3}
  MaxViews = 2
  Null = Null
SYMMETRY Symmetry
INVARIANT NamedFilesAreStored
INVARIANT SentMessagesHaveFiles
INVARIANT LeaksHaveCauses
INVARIANT FilesMatchWhenCalm
PROPERTY LegalWhenCalm
CHECK_DEADLOCK FALSE
