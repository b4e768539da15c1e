CONSTANTS
    t1 = t1  t2 = t2  c1 = c1  c2 = c2  r1 = r1
    good = good  changed = changed  odd = odd  evil = evil  blurb = blurb  silent = silent
    Tools = {t1, t2}
    Calls = {c1}
    ToolOf <- MCToolOf
    Rpcs = {}
    Texts = {good, changed, odd, evil, blurb, silent}
    NoText = silent
    AuditVerdict <- MCVerdict
    Served <- TwoPages
    Policy = "balanced"
    Pin = FALSE
    Recheck = FALSE
    RequireBaseline = FALSE
    InitialPin = 0
    ScanResults = TRUE
    MaxHeld = 1
    MaxInFlight = 3
    MaxListPages = 2
    Taints = {"safe"}
    Reinitializes = FALSE
    StoreEdits = {}
SPECIFICATION Spec
INVARIANT VerdictsAreCurrent
CHECK_DEADLOCK FALSE
