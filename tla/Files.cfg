SPECIFICATION Spec
CONSTANTS
  NFds = 2
  BlockSize = 2
  DirSlots = 2
  Staged <- MCStaged
  Names <- MCNames
  Key <- MCKey
  Buffers = {b1, b2, b3}
  Lengths = {0, 1, 2, 9}
INVARIANTS
  OneOwnerPerBuffer
  ReadsStagedBytes
