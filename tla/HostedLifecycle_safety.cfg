SPECIFICATION HlSpec
CONSTANTS
  HlWorkers = {"w1", "w2"}
  Configs = {"a", "b", "c", "d"}
  SizeOf <- MCSizeOf
  Limit = 2
  HlScopes <- SafetyScopes
  MaxJobs = 3
  MaxMachines = 3
INVARIANT StorageBalance
 
 
CHECK_DEADLOCK FALSE
