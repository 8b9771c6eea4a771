SPECIFICATION Spec
VIEW Tree
CONSTANTS
  T = 2
  Entries <- ManyRows
  Unique = TRUE
  MaxEntries = 10
INVARIANTS
  BTreeShape
  StagesExactlyTheStale
  SearchesAgree
  OneKeyAtATime
