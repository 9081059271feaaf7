SPECIFICATION ExportSpec
CONSTANTS
  Parsed <- Types
  Versions <- MCVersions
  Contents <- MCExportContents
INVARIANTS
  AllPresentSerialized
CHECK_DEADLOCK FALSE
