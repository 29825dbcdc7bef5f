SPECIFICATION Spec
CONSTANTS
  Depth = 2
  Sources <- MCSources
  Lexing <- LexToken
  Parsing <- Item
  Printing <- PrintToken
INVARIANTS
  Lossless
  AcceptedIsWhole
  FormatPreserves
  FormatIdempotent
CHECK_DEADLOCK FALSE
