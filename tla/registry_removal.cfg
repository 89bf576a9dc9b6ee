SPECIFICATION FairSpec
CONSTANTS
  Posts = {p1, p2}
  Wakes = {w1}
  Stops = {s1}
  Archives = {a1}
  Deletes = {d1}
  Lanes = {1, 2, 3}
  ChanCap = 1
  Gone = {{p2, s1}, {w1, d1}}
  None = None
INVARIANTS NoOrphanLane RemovalQuiesces
PROPERTIES RemoveReturns
