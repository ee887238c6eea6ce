SPECIFICATION IdnaSpec
CONSTANTS
  Value = {"a", "b"}
  Unset = "unset"
  FixedCapacities = {0, 2}
  MaxSize = 5
  kMinBufferLen = 2
  Pieces <- IdnaPieces
  Domain <- IdnaDomains
  NonAscii = {"b"}
  Int32Max = 5
  IcuVersion = 67
INVARIANTS
  BufferInv
  ConversionIsRight
PROPERTIES
  BufferIsText
  ConversionsEnd
