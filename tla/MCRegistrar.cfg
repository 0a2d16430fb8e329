SPECIFICATION RSpec
CONSTANTS
    Keys = {k1, k2}
    Fingerprints = {f1, f2}
    NoFingerprint = noFp
    RequestIDs = {r1, r2, r3}
    Domains = {0, 1}
    RelayDomain = 0
    Groups = {0}
    RelayGroup = 0
    RoleFlagBytes = {0, 3, 5}
    MaxEndpoints = 2
    IDModulus = 4
    ObservedAddrs = {o1}
    RelayTargets <- MCRelayTargets
    ExpiringKeys <- MCExpiringKeys
    None = None
INVARIANTS
    TypeOK
    OneAddressPerDevice
    RegistrationMatchesEndpoint
    RelayDomainIsForRelays
    IdentityInv
    GroupsFillInOrder
    ReachableIsActive
PROPERTIES
    IdentityIsForever
    ImplementsLifecycle
SYMMETRY Symmetry
