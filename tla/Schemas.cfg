SPECIFICATION FairSpec
CONSTANTS
  r1 = r1
  r2 = r2
  u1 = u1
  u2 = u2
  Readers <- MCReaders
  Updaters <- MCUpdaters
  Mixes <- MCMixes
INVARIANTS
  AnswersCurrent
  MemoCurrent
PROPERTIES
  EveryoneAnswers
CHECK_DEADLOCK FALSE
