SPECIFICATION Spec
VIEW Tree
CONSTANTS
  T = 2
  Entries <- TwoKeysTwoValues
  Unique = FALSE
  MaxEntries = 7
INVARIANTS
  BTreeShape
  StagesExactlyTheStale
  SearchesAgree
  OneKeyAtATime
