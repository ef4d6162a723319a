SPECIFICATION AccessSpec
CONSTANTS
    Parts = {"identity", "peers", "network", "selection", "browser", "hosted", "ssh", "vault"}
    PoolA = {a1, a2}
    PoolB = {b1, b2, b3}
    PkClients = {x1}
    PkHost = host
    IdKeys = {a1, a2}
    IdCerts = {b1, b2, b3}
    IdMaxGen = 2
    PkKeys = {s1}
    PkCerts = {a1, a2}
    PkOps = {q1}
    PkMaxGen = 1
    PkNone = none
    PsMax = 1
    PnHosts = {h1}
    PnMaxPeers = 1
    PnMaxKey = 2
    PnMaxGen = 4
    RsRegions = {1, 2}
    RsTimes = {1, 4, 7, 11}
    RsScores = {40, 46, 60}
    RsMaxClientGen = 1
    BsSessions = {s1}
    BsRequests = {r1, r2}
    BsMaxToken = 6
    DaUsers = {u1}
    DaGrants = {g1}
    DaSessions = {s1}
    DaTokens = {a1, a2}
    DaMachine = m
    DaMaxSlow = 1
    DaNone = none
    HaAccess = {e1}
    HaRequests = {r1}
    MsParts = {"clients", "hosts"}
    MsUsers = {u1, u2}
    MsSessions = {s1, s2}
    MsClientKeys = {a1, a2}
    MsMachines = {m1}
    MsHostKeys = {a1, a2}
    MsSets = {b1, b2, b3}
    MsOps = {o1}
    MsPorts = {p1}
    MsLimit = 1
    MsMaxGen = 2
    MsMaxObs = 2
    MsNone = none
    EvAccounts = {u1, u2, u3}
    EvKeyed = {u1, u2}
    EvMachines = {m1}
    EvOwnerOf <- OwnerOf
    EvParts = {"members", "team", "personal"}
    EvPermissions = {"write"}
    EvBounds <- VaultBounds
SYMMETRY Symmetry
INVARIANTS
    DevicePromises 
PROPERTIES
    AccessSteps
CHECK_DEADLOCK FALSE
