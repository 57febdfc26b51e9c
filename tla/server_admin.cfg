SPECIFICATION FairSpec
CONSTANTS
  Slugs = {a, b}
  Requests = {q1, q2, q3}
  Runs = {u1}
  Vacant = Vacant
CHECK_DEADLOCK FALSE
INVARIANTS RegistryAgrees 
PROPERTIES  RequestsEnd
