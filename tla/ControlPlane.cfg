SPECIFICATION ControlSpec
CONSTANTS
    Parts = {"provider", "helpers", "config", "status", "routes", "relays", "assignment"}
    PoolA = {a1, a2}
    PoolB = {b1, b2}
    PoolC = {c1, c2}
    Workers = {a1, a2}
    NoLease = none
    Kinds = {"create", "machine", "destroy", "secret"}
    Requests = {"r1"}
    Overlap = TRUE
    LateKinds = {"create", "machine", "destroy", "secret"}
    MaxFaults = 1
    Helpers = {a1, a2}
    Grants = {b1, b2}
    Keys = {c1, c2}
    OpKeys = {b1, b2}
    Callers = {c1, c2}
    NoOne = none
    CsEnvs = {s1}
    CsHosted = {}
    CsRepos = {s2}
    CsLeaseOps = {a1, a2}
    CsAccessOps = {s3}
    CsBounds <- ConfigBounds
    CsNone = none
    CtRemotes = {s1}
    CtMaxVersion = 3
    CtMaxRevision = 2
    CtMaxTime = 2
    CtMaxReports = 1
    CtMaxGen = 2
    CtNone = none
    ErNodes = {a1, a2}
    ErRoutes = {s1}
    ErAdmissions = {s2}
    ErRouteOps = {s3}
    ErMaxRevision = 2
    ErMaxGen = 2
    ErNone = none
    RnEpochs = {a1, a2}
    RnPeers = {s1, d1}
    RnDenied = {d1}
    RnMaxGen = 3
    RnMaxConfig = 3
    RnNone = none
    TaNodes = {1, 2}
    TaDomains = {c1, c2}
    TaMaxAsn = 2
    TaScopes <- EdgeScopes
SYMMETRY Symmetry
INVARIANTS
    SuccessIsReal HelperPromises  EdgePromises
PROPERTIES
    ControlSteps
CHECK_DEADLOCK FALSE
