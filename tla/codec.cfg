SPECIFICATION FairSpec
CONSTANTS
  Names <- Pool
  LegalChars <- Accepted
  MaxLen = 4
  Radix = 3
  MaxTools = 3
  NoJob = NoJob
INVARIANTS RoundTrip WireIsLegal WireNamesStable
PROPERTIES RegistrationEnds
