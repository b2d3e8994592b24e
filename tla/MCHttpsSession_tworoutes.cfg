SPECIFICATION Spec
CONSTANTS
  Limit = 2
  Requests <- TwoRoutes
  MaxRequests = 6
INVARIANTS ReadsAreSingle
