SPECIFICATION FairSpec
CONSTANTS
  Routes <- BothRoutes
  Faults <- ReportedFaults
  MaxProgress = 2
INVARIANTS  RowMatchesOutcome ReplyIsSettled
PROPERTY StreamEnds
