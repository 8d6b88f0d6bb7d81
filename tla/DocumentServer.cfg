CONSTANTS
  Caller = {a, b}
  MaxServers = 3
  Asks = {"describe", "mutate with key", "generate"}
  MaxQuestions = 2
  MaxMishaps = 2
SYMMETRY Callers
SPECIFICATION Spec
INVARIANTS
  AnswersOwn
  CompanionShared
  EffectsOnce
PROPERTIES
  RejectionStands
CHECK_DEADLOCK FALSE
