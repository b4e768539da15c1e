CONSTANTS
    t1 = t1  t2 = t2  c1 = c1  c2 = c2  r1 = r1
    good = good  changed = changed  odd = odd  evil = evil  blurb = blurb  silent = silent
    Tools = {t1, t2}
    Calls = {c1, c2}
    ToolOf <- MCToolOf
    Rpcs = {r1}
    Texts = {good, changed, odd, evil, blurb, silent}
    NoText = silent
    AuditVerdict <- MCVerdict
    Served <- OnePage
    Policy = "balanced"
    Pin = FALSE
    Recheck = FALSE
    RequireBaseline = FALSE
    InitialPin = 0
    ScanResults = TRUE
    MaxHeld = 2
    MaxInFlight = 2
    MaxListPages = 1
    Taints = {"block"}
    Reinitializes = FALSE
    StoreEdits = {}
SPECIFICATION FairSpec
INVARIANTS TypeOK NoCallWaitsUnwatched CallsAreRoutedOnce VerdictsAreCurrent
PROPERTY HeldCallsAreSettled
CHECK_DEADLOCK FALSE
