SPECIFICATION Spec
CONSTANTS
  Base = 4
  MaxString = 3
  HeaderSize = 20
  BlockSizes <- Sizes
  KeySizes <- SizesOfKeys
  Queries <- AllQueries
  Statements <- Commands
  MaxRows = 3
  ClauseWords <- WordsWithW
INVARIANTS
  TypeOK
  IndexMatchesRows
  PointExact
  RangeExact
  KeysComeBack
  ParsesAsWritten
  RejectsMalformed
PROPERTIES
  MutationsExact
CHECK_DEADLOCK FALSE
