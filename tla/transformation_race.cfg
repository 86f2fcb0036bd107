SPECIFICATION Spec
CONSTANTS
  Free = Free
  Byte = {b1}
  Writers = {w1}
  AsyncWriter = TRUE
  ChunkSizes = {1}
  MaxIn = 2
  MaxOut = 2
INVARIANTS
  SanityCheck
