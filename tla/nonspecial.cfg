SPECIFICATION Spec
CONSTANTS
  Char <- AllStrings
  Input <- NonSpecialInput
INVARIANTS
  EndsInOrder
  FailureIsAtomic
  RoundTrip
