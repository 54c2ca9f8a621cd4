SPECIFICATION Spec
CONSTANTS
    v1 = v1
    v2 = v2
    Addrs = {v1, v2}
    FixedAddrs <- MCFixedAddrs
    Epoch = 2
    Policy = "Sticky"
    MaxHeight = 3
    Corrupt = Corrupt
    NoHeader = NoHeader
    Panic = Panic
    MaxBig256 = MaxBig256
INVARIANTS
    TypeOK
    SameEpochSameSet
PROPERTIES
    ResolvedSetsOnlyVanish
