CONSTANTS
    g1 = g1  g2 = g2
    Guards = {g1}
    Requests <- GithubRequests
    FindingPool <- MCFindings
    MaxCrashes = 0
SPECIFICATION Spec
INVARIANT FailuresHaveACause
CHECK_DEADLOCK FALSE
