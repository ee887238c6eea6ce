SPECIFICATION Spec
CONSTANTS
  Char <- AllStrings
  Input <- HostFailureInput
INVARIANTS
  HostFailureChangesNothing
