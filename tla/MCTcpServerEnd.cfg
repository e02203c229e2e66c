SPECIFICATION SafeSpec
CONSTANTS
  MaxThreads = 1
  MaxConns = 1
  MaxFds = 1
  IdRange = 1
  Starters = {main}
  baseThread = main
  EndsIdle = FALSE
CHECK_DEADLOCK FALSE
INVARIANT FreedIsRemoved
