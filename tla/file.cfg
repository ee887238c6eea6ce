SPECIFICATION Spec
CONSTANTS
  Char <- AllStrings
  Input <- FileInput
INVARIANTS
  IInv
