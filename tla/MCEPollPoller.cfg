SPECIFICATION Spec
CONSTANTS
  a = a
  b1 = b1
  b2 = b2
  fdA = fdA
  fdB = fdB
  Channels = {a, b1, b2}
  Fds = {fdA, fdB}
  FdOf <- MCFdOf
  NoChannel = NoChannel
  InitialSize = 1
  RemoveInCallback = FALSE
  RemovesFirst = TRUE
INVARIANTS TypeOK KernelWatchesInterest NoCtlError MapIsNotStale ActiveAreThere
