CONSTANTS
    c1 = c1  c2 = c2  c3 = c3  r1 = r1  r2 = r2  a1 = a1  a2 = a2  a3 = a3
    None = None
    Clients = {c1, c2}
    Repos = {r1}
    Refs = {a3}
    PathOf <- MCPathOf
    Size <- MCSize
    MaxCacheBytes = 1
    MaxVersion = 2
    MaxCrashes = 1
    MaxDiskErrors = 1
SPECIFICATION FairSpec
INVARIANTS RightContent ScopedContentStaysPrivate OneWriterPerFile CeilingHolds
PROPERTIES EveryRequestIsAnswered
