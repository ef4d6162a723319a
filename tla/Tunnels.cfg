SPECIFICATION TunnelSpec
CONSTANTS
    Parts = {"certificates", "resources", "sessions", "rotation", "leases", "carriers"}
    PoolA = {a1, a2}
    PoolB = {b1, b2}
    PoolC = {c1, c2}
    TcWorkers = {w1, w2}
    TcOwners = {o1}
    TcCerts = {a1, a2}
    TcNodes = {n1}
    TcMaxLease = 2
    TcBounds <- CertificateBounds
    TcNone = none
    TrTunnels = {t1}
    TrRoutes = {a1, a2}
    TrDomains = {b1, b2}
    TrHosts = {h1}
    TrPorts = {1}
    TrKeys = {k1}
    TrMaxGen = 4
    TrMaxChecks = 4
    TrGrace = 2
    TrGiveUp = 2
    TrParts = {"routes", "domains"}
    TrNone = none
    CnConnectors = {s1}
    CnEnrollments = {e1, e2}
    CnOps = {a1, a2, s2}
    CnSessions = {b1, b2, s3}
    CnMaxCred = 2
    CnMaxProc = 2
    CnMaxConfig = 2
    CnScopes <- SessionScopes
    CnNone = none
    RtConnectors = {s1}
    RtOps = {b1, b2}
    RtMaxGen = 3
    RtMaxProc = 3
    RtNone = none
    PvLeases = {a1, a2}
    PvAccounts = {b1, b2}
    PvDomains = {c1, c2}
    PvHosts = {h1}
    PvRequests = {q1}
    PvWorkers = {w1}
    PvParts = {"dns", "claims"}
    PvMaxGen = 3
    PvGrace = 2
    PvNone = none
    PaRequests = {q1}
    PaBounds <- CarrierBounds
    PaNone = none
SYMMETRY Symmetry
INVARIANTS
     TunnelPromises
PROPERTIES
    TunnelSteps
CHECK_DEADLOCK FALSE
