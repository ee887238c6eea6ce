SPECIFICATION CodecSpec
CONSTANTS
  Kind = {"host"}
  Seeds <- KindSeeds
  Chunks <- KindChunks
  MaxChunks <- KindMax
INVARIANT NormalizedHostsPass
CHECK_DEADLOCK FALSE
