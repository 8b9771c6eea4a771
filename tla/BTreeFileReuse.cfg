SPECIFICATION Spec
CONSTANTS
  T = 2
  Entries <- SixKeys
  MinEntries = 0
  MaxEntries = 6
  MaxBlocks = 14
  MaxCrashes = 0
INVARIANT BlocksAreUnused
