SPECIFICATION FairSpec
CONSTANTS
  Free = Free
  Byte = {b1}
  Writers = {w1, w2}
  AsyncWriter = TRUE
  ChunkSizes = {1, 2}
  MaxIn = 3
  MaxOut = 3
INVARIANTS
  NoUseAfterFree
PROPERTIES
  DriverReturnedOnce
  CallbacksReturn
  OutputCompletes
