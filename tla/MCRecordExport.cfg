SPECIFICATION ExportSpec
CONSTANTS
  Parsed <- Types
  Versions <- MCVersions
  Contents <- MCExportContents
INVARIANTS
  PresentBytesInside
  NoByteReadTwice
  NoByteSkipped
  ReadsFitMembers
  NoContradiction
  PresentNeverNull
  PresentIsShown
PROPERTIES
  PresentKept
CHECK_DEADLOCK FALSE
