SPECIFICATION HandlesSpec
CONSTANTS
  MaxHandles = 4
  MaxTasks = 2
INVARIANTS
  HandlesClosed
  ErrorKept
CHECK_DEADLOCK FALSE
