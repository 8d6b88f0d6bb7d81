\* Two conversations, two runtimes, three texts.
CONSTANTS
  a = a
  b = b
  broken = broken
  k1 = k1
  k2 = k2
  r1 = r1
  r2 = r2
  NoCode = NoCode
  Talks <- MCTalks
  Runtimes <- MCRuntimes
  Codes <- MCCodes
  Valid <- MCValid
  Format <- MCFormat
  MaxRequests = 3
  MaxStudio = 1
SPECIFICATION Spec
SYMMETRY Symmetry
INVARIANTS
  OneCopy
PROPERTIES
  EditsKnown
  PromotionsSound
CHECK_DEADLOCK FALSE
