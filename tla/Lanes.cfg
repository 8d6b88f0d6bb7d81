SPECIFICATION FairSpec
CONSTANTS
  MaxLen <- MCMaxLen
  MaxErrors = 1
  Jobs <- MCJobs
  Lane = {l1, l2}
  Window = 3
INVARIANTS
  WindowBound
  ChunksAccounted
PROPERTIES
  Promise
  Termination
CHECK_DEADLOCK FALSE
