CONSTANTS
  Files <- NegativeCountFiles
  HeaderLength <- MCHeaderLength
  TocLength <- MCTocLength
  RecordLength <- MCRecordLength
  UintWord <- MCUintWord
  Nil = Nil
SPECIFICATION Spec
INVARIANT NoPanic
CHECK_DEADLOCK FALSE
