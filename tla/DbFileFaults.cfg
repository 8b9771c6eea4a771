SPECIFICATION FairSpec
CONSTANTS
  MaxBlocks = 3
  MaxStaged = 2
  Faults = {"read", "write"}
  NodeWords <- WordsOfNodes
CONSTRAINT FollowedUntilClosed
INVARIANTS
  TypeOK
  CommittedTreeIntact
  AllocationIsFresh
  FreeListSound
  NoBlockLost
  IndInv
PROPERTIES
  LiveNeverOverwritten
  TreeChangesAtRootFlip
  ImplementsStore
  OperationsEnd
