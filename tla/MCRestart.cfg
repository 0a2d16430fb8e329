SPECIFICATION Spec
CONSTANTS
    Keys = {k1, k2}
    Fingerprints = {f1}
    NoFingerprint = noFp
    FlagsOf <- MCFlagsOf
    RequestIDs = {r1, r2}
    Domains = {0, 1}
    RelayDomain = 0
    Groups = {0}
    RelayGroup = 0
    RoleFlagBytes = {1, 3}
    MaxEndpoints = 1
    IDModulus = 3
    ObservedAddrs = {}
    RelayTargets = {}
    ExpiringKeys = {}
    None = None
INVARIANTS
    TokenBindsItsKey
