SPECIFICATION Spec
CONSTANTS
  NPages = 13
  PageSize = 4
  MaxEntries = 3
  E820Tables <- MCTables
  LowPages = 1
  KernelStart = 4
  KernelEnd = 9
  UserFirst = 4
  BlobEnd = 5
  UserEnd = 8
  FsEnd = 9
INVARIANTS
  FreeCountExact
  HeldAvoidsReserved
  PagesAreRam
  ReadsInBounds
  FindsFirstRun
PROPERTIES
  ScanEnds
  ImplementsPmm
