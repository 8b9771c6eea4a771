SPECIFICATION Spec
CONSTANTS
  d1 = d1
  d2 = d2
  nil = nil
  Payloads <- OnePayload
  NoData <- nil
  Explicit <- NoKeys
  Numbered = TRUE
  Unique = TRUE
  Width = 16
  Byte = 256
  Faults <- NoFaults
  MaxRows = 4
  MaxNumber = 2
INVARIANT PrimaryKey
CHECK_DEADLOCK FALSE
