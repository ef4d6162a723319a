SPECIFICATION FairSpec
CONSTANTS
  Workers = {w1, w2}
  NoLease = none
  Kinds = {"create", "machine", "destroy", "secret"}
  Requests = {"r1", "r2"}
  Overlap = FALSE
  LateKinds = {"machine", "destroy", "secret"}
  MaxFaults = 3
 
INVARIANT OneCopy
 
CHECK_DEADLOCK FALSE
