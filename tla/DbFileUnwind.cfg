SPECIFICATION Spec
CONSTANTS
  MaxBlocks = 3
  Faults = {"read"}
  MaxStaged = 1
  NodeWords <- WordsOfNodes
INVARIANT TreeReadable
