CONSTANTS
  Files <- UnknownTypeFiles
  HeaderLength <- MCHeaderLength
  TocLength <- MCTocLength
  RecordLength <- MCRecordLength
  UintWord <- MCUintWord
  Nil = Nil
SPECIFICATION Spec
PROPERTY DumpTerminates
CHECK_DEADLOCK FALSE
