SPECIFICATION HlSpec
CONSTANTS
  HlWorkers = {"w1"}
  Configs = {"a"}
  SizeOf <- MCSizeOf
  Limit = 2
  HlScopes <- InlineScopes
  MaxJobs = 2
  MaxMachines = 2
INVARIANT DeletedIsClean
CHECK_DEADLOCK FALSE
