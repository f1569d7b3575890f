SPECIFICATION Spec
CONSTANTS
  Instants <- MCInstants
  Minute = 3
  CenturyBytes <- MCCenturyBytes
  Writers = {"command", "keyboard"}
  TxDepth = 2
  TimeChars = 2
  KeyChars = 2
  MaxKeys = 2
INVARIANTS
  StableRead
  SpoiledOnlyByInterrupt
  NothingLost
PROPERTY TimeReturns
