SPECIFICATION Spec
CONSTANTS
  Users = {u1}
  Messages = {m1, m2}
  HighWaterMark = 3
  MaxIncoming = 1
  ShutdownOutside = TRUE
INVARIANTS TypeOK StreamIsIntact WritingIffBuffered BufferedBeforeFin FreedIsRemoved
PROPERTIES  MessagesKeepOrder IsTableConnection ReadToTheEnd EventuallyWritten EventuallyShutDown EventuallyFreed
