SPECIFICATION SafeSpec
CONSTANTS
  Users = {u1}
  Messages = {m1, m2}
  HighWaterMark = 3
  MaxIncoming = 1
  ShutdownOutside = TRUE
SYMMETRY Symmetry
PROPERTIES GracefulShutdown
