SPECIFICATION Spec
CONSTANTS
  Blocks <- TwelveBlocks
  NULL = NULL
  Garbage = Garbage
  Firmware = {fw1, fw2}
  Oversized = {fw2}
  TypeOrder <- ThreeTypes
  HostLoaders <- RawLoaders
  Reuse = FALSE
  Malloc <- LowestFree
INVARIANTS
  TypeOK
  FailedLoadHoldsNoTable
  CleanupReleasesAll
PROPERTIES
  CallsReturn
  ParseAllKeepsSets
  ImplementsContract
