SPECIFICATION Spec
CONSTANTS
  Types <- MCTypes
  Needs <- MCNeeds
  MaxStructures = 2
  MaxFailures = 2
INVARIANTS
  NoLeak
  FreesLiveBlocks
  CountMatchesArray
CHECK_DEADLOCK FALSE
