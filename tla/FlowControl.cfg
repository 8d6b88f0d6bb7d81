SPECIFICATION FairSpec
CONSTANTS
  Programs <- MCPrograms
  Nodes <- MCNodes
  MaxDepth <- MCMaxDepth
  Budget = TRUE
INVARIANTS
  RunsAsMeant
  FramesExact
PROPERTIES
  StopsAtOnce
  Termination
CHECK_DEADLOCK FALSE
