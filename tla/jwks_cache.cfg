\* Three callers, a key added or withdrawn or a document that is no JWKS, and fetches
\* that take time or fail.
CONSTANTS
    Callers = {c1, c2, c3}
    Kids = {k1, k2}
    Documents = {{k1}, {k1, k2}, Broken, Unsized}
    Broken = Broken
    Unsized = Unsized
    None = None
    Ttl = 1
    MaxVersions = 2
    MaxTime = 2
SPECIFICATION FairSpec
INVARIANTS
    TypeOK
    SingleFlight
PROPERTIES
    RefreshSpacing
    RevocationBounded
    RotationVisible
    ImplementsKeySource
    EveryCallReturns
