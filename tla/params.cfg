SPECIFICATION LeanSpec
CONSTANTS
  Char <- AllStrings
  Input <- ParamsInput
  Pairs <- ParamsPairs
  QueryTexts <- ParamsTexts
  FreeLists <- ParamsFree
  MaxParams = 2
INVARIANTS
  LinksPointBack
  ListIsTheQuery
  SortedFlagIsTrue
  RoundTrip
  WholeUnlessMovedFrom
PROPERTIES
  QueriesAreLists
