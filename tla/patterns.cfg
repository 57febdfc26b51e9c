SPECIFICATION FairSpec
CONSTANTS
  Agents <- AllAgents
  Pattern <- OnePerPattern
  MaxDepth <- Limits
  Debaters = 3
  Rounds = 2
  Branches = 3
  Depth = 2
  TopK = 2
  Scores = {0, 1}
  Remotes = 3
  MaxReplans = 1
  MaxSteps = 2
  PlanLengths = {1, 3}
  MaxEvents = 3
CHECK_DEADLOCK FALSE
INVARIANTS CompletedIsQuiet TranscriptInOrder DepthBounded 
PROPERTY RunEnds
