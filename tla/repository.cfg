SPECIFICATION Spec
CONSTANTS
  Requests = {r1, r2, r3}
  Slugs = {a, b}
  Contexts = {x}
  None = None
  MaxLive = 2
SYMMETRY Symmetric
CHECK_DEADLOCK FALSE
INVARIANTS OwnOrder ViewIsCausal SoleWriterIsKept HistoryIsPrior
