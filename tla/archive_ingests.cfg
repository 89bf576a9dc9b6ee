SPECIFICATION Spec
CONSTANTS
  Posts = {p1, p2}
  Wakes = {}
  Stops = {}
  Archives = {a1}
  Deletes = {}
  Lanes = {1, 2}
  ChanCap = 1
  Gone = {{}}
  None = None
INVARIANTS ArchiveStopsIngestion
