SPECIFICATION Spec
CONSTANTS
  Order <- MCOrder
  Vendor <- MCVendor
  Vendors <- MCVendors
  MaxEntries = 1
  MaxCalls = 2
  MaxFailures = 1
INVARIANTS
  Is64BitOnlyOf3x
CHECK_DEADLOCK FALSE
