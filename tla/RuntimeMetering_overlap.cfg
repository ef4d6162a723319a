CONSTANTS
  Workers = {w1}
  MaxTime = 5
  MaxRequests = 2
  MaxFaults = 1
  Credits = 1
  MaxGrants = 1
  GrantSize = 4
SPECIFICATION Spec
INVARIANTS NoOverlap
CHECK_DEADLOCK FALSE
