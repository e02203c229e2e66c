SPECIFICATION Spec
CONSTANTS
  Byte = {0, 1}
  Zero = 0
  kCheapPrepend = 2
  kInitialSize = 3
  kExtraBufSize = 2
  MaxLen = 3
  MaxReadable = 5
INVARIANTS TypeOK
PROPERTIES IsByteQueue GrowsOnlyWhenFull
