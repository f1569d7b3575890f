SPECIFICATION Spec
CONSTANTS
  NPages = 12
  PageSize = 4
  MaxEntries = 64
  E820Tables <- MCTables
  LowPages = 1
  KernelStart = 4
  KernelEnd = 4
  UserFirst = 12
  BlobEnd = 12
  UserEnd = 12
  FsEnd = 12
  MaxOrder = 2
  Size <- MCSize
  HeaderSize = 1
  SizeT = 256
  Uint32 = 32
  Requests = {0, 3, 4, 9, 16}
  InitHeaders <- MCHeaders
  ClientData = {}
  MaxLive = 2
INVARIANT SplitHalvesMerge
