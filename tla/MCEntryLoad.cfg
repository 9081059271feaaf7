SPECIFICATION Spec
CONSTANTS
  Inputs <- AllInputs
INVARIANTS ScanFindsFirst TableInside WindowsRoundTrip
PROPERTIES AcceptedStaysAccepted LoadEnds
CHECK_DEADLOCK FALSE
