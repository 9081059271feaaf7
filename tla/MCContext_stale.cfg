SPECIFICATION Spec
CONSTANTS
  Blocks <- ElevenBlocks
  NULL = NULL
  Garbage = Garbage
  Firmware = {fw1, fw2}
  Oversized = {fw2}
  TypeOrder <- OneType
  HostLoaders <- LinuxLoaders
  Reuse = TRUE
  Malloc <- LowestFree
INVARIANTS SetsBelongToTable
