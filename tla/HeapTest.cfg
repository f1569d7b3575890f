SPECIFICATION TestSpec
CONSTANTS
  NPages = 107
  PageSize = 4
  MaxEntries = 64
  E820Tables <- MCTables
  LowPages = 1
  KernelStart = 4
  KernelEnd = 4
  UserFirst = 6
  BlobEnd = 7
  UserEnd = 7
  FsEnd = 7
  MaxOrder = 5
  Size <- MCSize
  HeaderSize = 1
  SizeT = 1024
  Uint32 = 256
  Requests = {1, 2, 3, 4, 5, 9, 20, 40, 70}
  OtherRequests = {3, 9}
  InitHeaders <- MCStalePages
  ClientData <- MCClientData
  MaxLive = 107
  SizesA <- MCSizesA
  SizesC <- MCSizesC
  SizeE = 70
  MinFree = 29
  MaxOther = 1
INVARIANTS
  VerdictTruthful
  RepeatSucceeds
PROPERTY LeakOnlyOnNull
