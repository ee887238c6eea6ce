SPECIFICATION CodecSpec
CONSTANTS
  Kind <- Kinds
  Seeds <- KindSeeds
  Chunks <- KindChunks
  MaxChunks <- KindMax
INVARIANTS
  DecodesAsUnicode
  ConversionsAgree
  WideBecomesUtf8
  ComparesAsUtf16
  PercentDecodes
  FormParses
  FormRoundTrip
  Ipv4IsStandard
  Ipv6IsStandard
  HostIsStandard
  HostRoundTrip
CHECK_DEADLOCK FALSE
