SPECIFICATION FairSpec
CONSTANTS
  m1 = m1
  m2 = m2
  a1 = a1
  c1 = c1
  i1 = i1
  primary = primary
  sub = sub
  Worker = Worker
  None = None
  Messages = {m1, m2}
  Results = {a1}
  Confirmations = {}
  Interrupts = {}
  Threads = {primary, sub}
  Primary = primary
  ThreadOf <- TwoThreads
  Tools = {t1}
  ChanCap = 1
  HistoryLimit = 9
  MaxOpen = 1
  MaxFaults = 0
INVARIANTS
  TypeOK
  LogClosesTurns
PROPERTIES
  IdleCoversOpenTools
  InputIsHeard
