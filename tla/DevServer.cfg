CONSTANTS
  Scopes = {s1, s2}
  MaxEntries = 4
  MaxProcesses = 3
  MaxCalls = 2
  MaxHitches = 1
SYMMETRY Renamings
SPECIFICATION DevSpec
INVARIANTS
  ServersAsAsked
  WithinReach
  StateTrue
CHECK_DEADLOCK FALSE
