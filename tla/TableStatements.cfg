SPECIFICATION Spec
CONSTANTS
  d1 = d1
  d2 = d2
  nil = nil
  Payloads <- TwoPayloads
  NoData <- nil
  Explicit <- ApartKey
  Numbered = TRUE
  Unique = TRUE
  Width = 16
  Byte = 256
  Faults <- AllFaults
  MaxRows = 4
  MaxNumber = 2
CONSTRAINT FollowedUntilLapsed
INVARIANTS
  TypeOK
  IndexSound
  NumbersUsedOnce
  OpensUnlessCut
  IndInv
PROPERTIES
  TombstonesStay
  ImplementsIndex
CHECK_DEADLOCK FALSE
