CONSTANTS
    Parts = {"lifecycle", "metering", "rotation", "peers"}
    HlWorkers = {w1, w2}
    Configs = {a}
    SizeOf <- ProgressSizes
    Limit = 2
    HlScopes <- ProgressScopes
    MaxJobs = 3
    MaxMachines = 2
    Workers = {w1}
    MaxTime = 3
    MaxRequests = 1
    MaxFaults = 1
    Credits = 1
    MaxGrants = 0
    GrantSize = 4
    RtConnectors = {c1, c2}
    RtOps = {o1}
    RtMaxGen = 2
    RtMaxProc = 2
    RtNone = none
    PkClients = {x1}
    PkHost = h
    PkKeys = {k1}
    PkCerts = {c1, c2}
    PkOps = {q1}
    PkMaxGen = 1
    PkNone = none
    PsMax = 1
SPECIFICATION ProgressSpec
PROPERTIES
    RotationRetiresInOrder
    
    NoFreeRide
    AttemptReachesParkedRequest
    RotationSettles
CHECK_DEADLOCK FALSE
