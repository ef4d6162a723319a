SPECIFICATION MachinesSpec
CONSTANTS
    Parts = {"billing", "enrollment", "setup", "access", "terminals", "control", "policy", "reports", "bandwidth", "channel"}
    PoolA = {a1, a2}
    PoolB = {b1, b2}
    PoolC = {c1, c2}
    Handlers = {a1, a2}
    Keys = {b1, b2}
    Ranks = {1, 2}
    MaxRequests = 3
    MaxFaults = 1
    Enrollments = {e1, e2}
    Pairings = {a1, a2}
    Machines = {s1, s2}
    IdentityKeys = {s3, s4}
    MeCallers = {c1, c2, s5}
    MeBounds <- EnrollmentBounds
    Nothing = none
    HsPairings = {a1, a2}
    HsGrants = {b1, b2}
    HsSessions = {s1}
    HsRequests = {c1, c2}
    HsNone = none
    MaMachines = {s1}
    MaSessions = {b1, b2}
    MaRequests = {r1}
    MaRevokers = {w1}
    MaWorker = w
    MaModes = {"online", "offline", "incapable"}
    MaNone = none
    TsSessions = {a1, a2}
    TsMaxOps = 2
    TsRequests = {r1}
    TsWorker = w
    TsMaxActive = 1
    TsNone = none
    McOperations = {a1, a2}
    McRequests = {b1, b2}
    McMaxJti = 3
    McMaxInstallation = 2
    McNone = none
    MpKeys = {s2}
    MpChoices = {"a", "b"}
    MpMaxVersion = 2
    MpMaxTime = 2
    MpDefault = "a"
    MrOperations = {a1, a2}
    MrApprovals = {s1}
    MrBoots = {b1, b2}
    MrMaxTime = 2
    MrMaxWorker = 2
    MrMaxInstallation = 2
    MrNone = none
    MbOrders = {s2}
    MbReports = {b1, b2}
    MbEpochs = {s1}
    MbMaxBytes = 3
    MbMaxPeriod = 2
    MbAllowance = 2
    MbPackage = 2
    MbNone = none
    CcMaxProc = 2
    CcMaxGen = 3
    CcScopes <- ChannelScopes
SYMMETRY Symmetry
INVARIANTS
    OutcomeIsReal AtMostOncePerKey  PendingIntentKept PairingPromises SessionPromises MachineStatePromises
PROPERTIES
    ImplementsCutover MachineSteps
CHECK_DEADLOCK FALSE
