SPECIFICATION FileSpec
CONSTANTS
  Char <- AllStrings
  Input <- Edits
  Paths <- FilePaths
  FileTexts <- FileUrls
INVARIANTS
  DotDotIsRefused
  FilePathRoundTrip
  PathsAreAbsolute
