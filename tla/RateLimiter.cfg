\* Deadlock cannot occur: Observe is always enabled.
SPECIFICATION LimiterSpec
SYMMETRY Symmetry
CONSTANTS
    Fingerprints = {k1, k2, k3}
    Capacity = 2
    Refill = 1
    IdleTTL = 3
    MaxBuckets = 2
    LastTick = 5
INVARIANTS
    RateBound
