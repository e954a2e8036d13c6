\* Deadlock is not checked: the application does not start without its issuers.
SPECIFICATION Spec
CONSTANTS
    A = A
    B = B
    k1 = k1
    k2 = k2
    aud = aud
    None = None
    ProviderList <- Issuers
    Kids = {k1, k2}
    Keys <- SomeKeys
    Unsupported <- EllipticKeys
    Audience <- Audiences
    Requests = {r1, r2}
    TTL = 1
    FetchTimeout = 1
    MaxSize = 1
    MaxTime = 2
    MaxRotations = 2
SYMMETRY RequestSymmetry
INVARIANTS
    TypeOK
    KeyAndProviderAgree
    RetiredKeysLapse
PROPERTY
    PublishedKeysFound
CHECK_DEADLOCK FALSE
