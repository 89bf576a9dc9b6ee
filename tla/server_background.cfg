CONSTANTS
  Parts = {"wakeups", "evals", "dreams", "runtimes"}
  None = None
  Sessions = {s1}
  Callers = {q1, q2}
  Ids = {1, 2, 3}
  Cap = 1
  Batch = 2
  MaxTime = 1
  MaxFaults = 1
  Trials = {1, 2}
  TaskOf <- Tasks
  LastMessage = 1
  MaxCrashes = 1
  Paths = {p1, p2}
  Contents = {small, big, blank}
  Large = {big}
  Blank = blank
  MaxStores = 2
  MaxEdits = 1
  Conns = {1, 2, 3}
SPECIFICATION Spec
INVARIANTS WakeupsDelivered CapOverrun CompletedCopies
PROPERTIES EveryRunEnds ComesOnline
CHECK_DEADLOCK FALSE
