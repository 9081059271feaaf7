SPECIFICATION Spec
CONSTANTS
  Uint64Max = 63
  SizeMax = 7
  OffMax = 15
  ReadMax = 3
  PageSize = 4
  DeviceSize = 12
  MaxInterrupts = 1
INVARIANTS TypeOK ReadsExactly
PROPERTIES ReadEnds
CHECK_DEADLOCK FALSE
