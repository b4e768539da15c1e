CONSTANTS
    t1 = t1  t2 = t2  c1 = c1  c2 = c2  r1 = r1
    good = good  changed = changed  odd = odd  evil = evil  blurb = blurb  silent = silent
    Tools = {t1, t2}
    Calls = {c1}
    ToolOf <- MCToolOf
    Rpcs = {}
    Texts = {good, changed, odd, evil, blurb, silent}
    NoText = silent
    AuditVerdict <- MCVerdict
    Served <- TooManyPages
    Policy = "balanced"
    Pin = TRUE
    Recheck = TRUE
    RequireBaseline = TRUE
    InitialPin = 1
    ScanResults = TRUE
    MaxHeld = 1
    MaxInFlight = 1
    MaxListPages = 2
    Taints = {"safe"}
    Reinitializes = FALSE
    StoreEdits = {"repin", "lost"}
SPECIFICATION Spec
INVARIANTS RoundIsOneWalk
PROPERTIES ForwardsOnlyVetted
CHECK_DEADLOCK FALSE
