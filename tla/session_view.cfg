\* One session watched, with a stream that breaks and a channel that overflows.
CONSTANTS
  s1 = s1
  s2 = s2
  m1 = m1
  t1 = t1
  c1 = c1
  None = None
  First = s1
  Sessions = {s1, s2}
  Messages = {m1}
  Tools = {t1}
  Children = {c1}
  PageLimit = 2
  ReplayLimit = 4
  HubBuffer = 2
  Past <- Opened
  Prompt <- OneByOne
  MaxFaults = 1
SPECIFICATION Spec
INVARIANTS ShownIsPrefix StatusMatchesLog QuietShowsAll
CHECK_DEADLOCK FALSE
