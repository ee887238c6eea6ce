SPECIFICATION Spec
CONSTANTS
  Char <- AllStrings
  Input <- SpecialInput
INVARIANTS
  HrefIsSerialization
  GettersAgree
  OtherPartsAreKept
