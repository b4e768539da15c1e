CONSTANTS
    g1 = g1  g2 = g2
    Guards = {g1, g2}
    Requests <- MCRequests
    FindingPool <- MCFindings
    MaxCrashes = 1
    Order <- MCOrder
    Packages <- MCPackages
    Marker = 1
    MaxFacts = 5
    MaxQueue = 10
    MaxHints = 2
    MaxTreeFiles = 6
    MaxTreeBytes = 11
    MaxTreeFile = 4
    ManyExtras = 1
    MaxListed = 2
    Surroundings <- MCSurroundings
SPECIFICATION ScanSpec
INVARIANTS UnpackedIsVerified AllowsAreEarned WorkspacesAreReclaimed SourcesAreCovered VerdictsAreEarned
CHECK_DEADLOCK FALSE
