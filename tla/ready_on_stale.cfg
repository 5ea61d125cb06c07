\* A probe whose fetch fails while the cache still has an entry.
CONSTANTS
    Callers = {c1, c2}
    Kids = {k1}
    Documents = {{k1}}
    Broken = Broken
    Unsized = Unsized
    None = None
    Ttl = 1
    MaxVersions = 1
    MaxTime = 2
SPECIFICATION FairSpec
PROPERTY
    ReadyMeansFetchable
