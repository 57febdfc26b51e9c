SPECIFICATION Spec
CONSTANTS
  Runs = {r1, r2, r3}
  Calls = {c1}
  NoCall = NoCall
  MaxLoops = 1
  MaxReply = 1
  MaxReloads = 0
  OneAtATime = TRUE
  Faults = {}
SYMMETRY Symmetric
PROPERTY RefusedNeverRuns
