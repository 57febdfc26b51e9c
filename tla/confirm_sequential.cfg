SPECIFICATION Spec
CONSTANTS
  Runs = {r1, r2, r3}
  Calls = {c1, c2}
  NoCall = NoCall
  MaxLoops = 2
  MaxReply = 2
  MaxReloads = 0
  OneAtATime = TRUE
  Faults = {"prelude", "provider"}
SYMMETRY Symmetric
INVARIANT AtMostOnce
PROPERTIES  DeniedNeverRuns
