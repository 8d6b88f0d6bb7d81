\* A minute is two ticks; a request may take one; runs of one Flow in every
\* form, given by a source, a definition or both, over two heads and one compiled plan.
CONSTANTS
  p = p
  q = q
  f = f
  one = one
  two = two
  def = def
  Blank = Blank
  None = None
  Project <- MCProject
  Request <- MCRequest
  Interval = 2
  HeadLimit = 2
  PlanLimit = 1
  MaxTime = 5
  MaxDelay = 1
  MaxRuns = 3
  MaxWrites = 1
SPECIFICATION Spec
INVARIANTS
  CachesKept
  OwnPlan
  StaleAtMostTwice
  ToldIsSeen
CHECK_DEADLOCK FALSE
