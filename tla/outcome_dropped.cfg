SPECIFICATION Spec
CONSTANTS
  o1 = o1
  o2 = o2
  Definers = {o1, o2}
  Stops = {}
  Editors = {e1}
  Max <- MaxOfTwo
  MaxCrash = 0
  None = None
CHECK_DEADLOCK FALSE
INVARIANTS VerdictSparesNext
