SPECIFICATION Spec
CONSTANTS
  T = 2
  Entries <- TwoKeys
  MinEntries = 1
  MaxEntries = 2
  MaxBlocks = 8
  MaxCrashes = 3
INVARIANTS
  BlocksAreUnused
  SpaceBound
PROPERTY ImplementsIndex
