SPECIFICATION Spec
CONSTANTS
  Tools = {t1}
  t1 = t1
  MaxCalls = 2
  Texts <- MCTexts
  MinOverlap = 2
  Windows = {2}
  MaxLoops = 4
  MaxNudges = 2
  MaxAttempts = 3
  None = None
INVARIANTS
  ToolMessagesFollowTurn
CHECK_DEADLOCK FALSE
