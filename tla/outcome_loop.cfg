SPECIFICATION FairSpec
CONSTANTS
  o1 = o1
  o2 = o2
  Definers = {o1, o2}
  Stops = {s1}
  Editors = {}
  Max <- MaxOfTwo
  MaxCrash = 1
  None = None
CHECK_DEADLOCK FALSE
INVARIANTS EvaluationsAreSound RecordsAreLogged
PROPERTIES OutcomeIsJudged
