SPECIFICATION Spec
CONSTANTS
  Word = 16
  HalfWord = 4
  HeaderSize = 2
  PhentMin = 1
  UserStart = 4
  FaultEntry = 5
  BlobEnd = 6
  UserEnd = 8
  Sizes <- MCSizes
  Places <- MCPlaces
  Phoffs <- MCPhoffs
  Entries <- MCEntries
  UserCells <- MCUserCells
  Offsets <- MCOffsets
  Vaddrs <- MCVaddrs
  Lengths <- MCLengths
INVARIANT ImageIntact
