SPECIFICATION Spec
CONSTANTS
  Free = Free
  Byte = {b1, b2}
  Writers = {w1, w2}
  AsyncWriter = FALSE
  ChunkSizes = {1, 2}
  MaxIn = 3
  MaxOut = 4
SYMMETRY MCSymmetry
INVARIANTS
  TypeOK
  NoByteLost
  SanityCheck
PROPERTIES
  ImplementsBodyStream
