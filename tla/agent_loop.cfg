SPECIFICATION FairSpec
CONSTANTS
  Tools = {t1}
  t1 = t1
  MaxCalls = 2
  Texts <- MCTexts
  MinOverlap = 2
  Windows = {0, 2, 3}
  MaxLoops = 4
  MaxNudges = 2
  MaxAttempts = 3
  None = None
INVARIANTS
  ExchangeIsValid
  
  AnswerIsNew
 
CHECK_DEADLOCK FALSE
