SPECIFICATION Spec
CONSTANTS
  p = p
  a = a
  b = b
  e1 = e1
  People = {p, a, b}
  Events = {e1}
  Poster <- MCPoster
  Conversations <- MCConversations
  Blocks <- MCBlocks
  Requests = {r1}
  None = None
  Unread = Unread
  Keys = {a}
  Max = 2
  Window = 2
  Second = 2
INVARIANT WritersWereEntitled
INVARIANT BlocksSilence
INVARIANT EventTalksIncludeTheOrganizer
INVARIANT WindowIsExact
