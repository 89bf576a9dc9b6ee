SPECIFICATION FairSpec
CONSTANTS
  m1 = m1
  m2 = m2
  a1 = a1
  c1 = c1
  i1 = i1
  primary = primary
  sub = sub
  Worker = Worker
  None = None
  Messages = {m1}
  Results = {}
  Confirmations = {}
  Interrupts = {i1}
  Threads = {primary, sub}
  Primary = primary
  ThreadOf <- OneThread
  Tools = {}
  ChanCap = 1
  HistoryLimit = 20
  MaxOpen = 1
  MaxFaults = 0
PROPERTIES
  RecoverSparesLiveTurn
