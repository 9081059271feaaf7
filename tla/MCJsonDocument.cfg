SPECIFICATION Spec
CONSTANTS
  Order <- MCOrder
  Vendor <- MCVendor
  Vendors <- MCVendors
  MaxEntries = 1
  MaxCalls = 2
  MaxFailures = 1
INVARIANTS
  OneObjectPerVendor
  ShowsTheSet
  EachCallAddsOne
  FailureCostsOneChild
CHECK_DEADLOCK FALSE
