CONSTANTS
    d1 = d1  d2 = d2  s1 = s1  clean = clean  grown = grown  evil = evil
    Deps = {d1}  Servers = {s1}
    Triagers = {"t1"}
    Recheckers = {"r1", "r2"}
    Pinners = {"n1"}
    McpRecheckers = {"c1", "c2"}
    Manifests = {clean, grown, evil}
    NoManifest = none
    AuditVerdict <- MCAuditVerdict
    InitialStores <- MCInitialStores
    Overlap = FALSE
    RequireBaseline = FALSE
    MaxChanges = 1
SPECIFICATION Spec
CHECK_DEADLOCK FALSE
INVARIANTS DecisionsSurvive AlarmsAreHeard
PROPERTIES UnchangedMeansApproved
