SPECIFICATION Spec
CONSTANTS
  Radix = 2
  Wide = 8
  SeqSpan = 4
  DbSpan = 16
  MinBuf = 60
  HeaderSize = 8
  MaxRows = 2
  Changes <- MCChanges
CHECK_DEADLOCK FALSE
INVARIANT TypeOK
INVARIANT RowsSurvive
INVARIANT KeysInvert
INVARIANT BufferFits
INVARIANT ValuesOrdered
INVARIANT RowidsTellApart
