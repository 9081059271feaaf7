SPECIFICATION Spec
CONSTANTS
  Blocks <- TwelveBlocks
  NULL = NULL
  Garbage = Garbage
  Firmware = {fw1, fw2}
  Oversized = {fw2}
  TypeOrder <- ThreeTypes
  HostLoaders <- LinuxLoaders
  Reuse = FALSE
  Malloc <- LowestFree
INVARIANTS CleanupReleasesAll
