\* Three requests over a server found running: two stops that race, a start
\* that cancels, an explicit build; one edit; one failure or restart.
CONSTANTS
  s1 = s1
  s2 = s2
  Scope <- MCScope
  None = None
  MaxRequests = 3
  MaxEdits = 1
  MaxMishaps = 1
  Manual = TRUE
SYMMETRY Symmetry
SPECIFICATION Spec
INVARIANTS
  OutputSafe
  CancelHolds
  WorkEnds
PROPERTIES
  OutputAdvances
CHECK_DEADLOCK FALSE
