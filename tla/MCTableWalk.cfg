SPECIFICATION Spec
CONSTANTS
  Byte <- Bytes
  Tables <- AllTables
  IndexLimit = 15
INVARIANTS StaysInside IndexMatchesTable GetterFindsAll StringsResolve
PROPERTIES LoopsEnd ImplementsTableContract
