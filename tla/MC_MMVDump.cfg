CONSTANTS
  Files <- PassFiles
  HeaderLength <- MCHeaderLength
  TocLength <- MCTocLength
  RecordLength <- MCRecordLength
  UintWord <- MCUintWord
  Nil = Nil
SPECIFICATION Spec
INVARIANT TypeOK
PROPERTY DumpRefinesSequential
CHECK_DEADLOCK FALSE
