CONSTANTS
  Files <- DuplicateTypeFiles
  HeaderLength <- MCHeaderLength
  TocLength <- MCTocLength
  RecordLength <- MCRecordLength
  UintWord <- MCUintWord
  Nil = Nil
SPECIFICATION Spec
PROPERTY DumpRefinesSequential
CHECK_DEADLOCK FALSE
