SPECIFICATION FairSpec
CONSTANTS
  MaxLen <- MCMaxLen
  MaxErrors = 2
  Jobs <- MCJobs
INVARIANTS
  Delivery
PROPERTIES
  Promise
  Termination
CHECK_DEADLOCK FALSE
