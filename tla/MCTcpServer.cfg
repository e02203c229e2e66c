SPECIFICATION Spec
CONSTANTS
  MaxThreads = 2
  MaxConns = 3
  MaxFds = 2
  IdRange = 3
  Starters = {main, other}
  baseThread = main
  EndsIdle = TRUE
CHECK_DEADLOCK FALSE
INVARIANTS TypeOK AcceptsFromFullPool Balanced StoresAll FreedIsRemoved
PROPERTIES EventuallyAccepted ServerEnds IsConnectionTable
