SPECIFICATION MoveParseSpec
CONSTANTS
  Char <- AllStrings
  Input <- MoveInput
INVARIANT ParseResets
