SPECIFICATION FairSpec
CONSTANTS
  Off = Off
  NoOne = NoOne
  Service = Service
  DefaultHeader = DefaultHeader
  own_header = own_header
  j = j
  w = w
  t1 = t1
  t2 = t2
  t3 = t3
  t4 = t4
  TopK = 2
  MaxChars = 5
  Users = {u1, u2}
  Requests = {r1, r2}
  Tasks = {k1, k2}
  Setups <- MCSetups
  Messages <- MCMessages
  r1 = r1
  r2 = r2
  k1 = k1
  k2 = k2
  Replies <- MCReplies
  MaxGens = 1
CHECK_DEADLOCK FALSE
INVARIANTS CallsAreOwn CompiledAsConfigured  RepliedIsLearned
PROPERTIES RecallIsBest HarvestEnds
