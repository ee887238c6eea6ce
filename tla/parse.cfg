SPECIFICATION SweepSpec
CONSTANTS
  Char <- AllStrings
  Input <- SweepInput
INVARIANTS
  AssertsHold
  CanParseAgrees
  RecordIsConsistent
  RoundTrip
  SegmentsAreCounted
PROPERTIES
  StatesGoForward
