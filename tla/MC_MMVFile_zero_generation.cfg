CONSTANTS
  Layout <- MCLayout
  HeaderLength <- MCHeaderLength
  Size <- MCSize
  PartialLengths <- MCPartialLengths
  Gen = 7
  MaxDumps = 2
  MaxRestarts = 1
SPECIFICATION Spec
INVARIANT DumpAcceptsOnlyPublished
CHECK_DEADLOCK FALSE
