SPECIFICATION StringSpec
CONSTANTS
  Char <- AllStrings
  Input <- StringInput
INVARIANTS
  CanParseStringsAgrees
  HalfBaseIsEnough
PROPERTIES
  CallsReturn
