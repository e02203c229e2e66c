SPECIFICATION SafeSpec
CONSTANTS
  Users = {u1, u2}
  Messages = {m1, m2}
  HighWaterMark = 3
  MaxIncoming = 1
  ShutdownOutside = TRUE
SYMMETRY Symmetry
PROPERTIES GivesUpWriting
