CONSTANTS
    d1 = d1  d2 = d2  s1 = s1  clean = clean  grown = grown  evil = evil
    Deps = {d1, d2}  Servers = {s1}
    Triagers = {"t1"}
    Recheckers = {"r1"}
    Pinners = {}
    McpRecheckers = {}
    Manifests = {clean, grown, evil}
    NoManifest = none
    AuditVerdict <- MCAuditVerdict
    InitialStores <- MCGrownStores
    Overlap = TRUE
    RequireBaseline = FALSE
    MaxChanges = 0
SPECIFICATION Spec
CHECK_DEADLOCK FALSE
INVARIANTS DecisionsSurvive
