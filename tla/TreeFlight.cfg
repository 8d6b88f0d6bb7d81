SPECIFICATION FlightFairSpec
CONSTANTS
  Scope = {s1, s2, s3}
  None = None
  Timeouts = TRUE
  Transient = TRUE
  Evictions = TRUE
INVARIANTS
  DescribedOnce
  WaitersServed
  FlightsForgotten
PROPERTIES
  EveryoneAnswers
CHECK_DEADLOCK FALSE
