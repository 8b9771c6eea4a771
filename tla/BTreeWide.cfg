SPECIFICATION Spec
VIEW Tree
CONSTANTS
  T = 3
  Entries <- RowsAndUpdates
  Unique = TRUE
  MaxEntries = 10
INVARIANTS
  BTreeShape
  StagesExactlyTheStale
PROPERTY ImplementsIndex
