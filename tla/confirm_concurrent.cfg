SPECIFICATION Spec
CONSTANTS
  Runs = {r1, r2}
  Calls = {c1, c2}
  NoCall = NoCall
  MaxLoops = 1
  MaxReply = 2
  MaxReloads = 1
  OneAtATime = FALSE
  Faults = {"prelude", "provider", "tool"}
SYMMETRY Symmetric
INVARIANTS TypeOK WorkingMeansRunning 
PROPERTY PromptNeedsConsent
