SPECIFICATION FairSpec
CONSTANTS
  Runs = {r1, r2}
  Calls = {c1}
  NoCall = NoCall
  MaxLoops = 2
  MaxReply = 1
  MaxReloads = 1
  OneAtATime = TRUE
  Faults = {"prelude", "provider", "tool", "restart"}
PROPERTIES ConsentFollowsQuestion RunsEnd
