CONSTANTS
    r1 = r1  r2 = r2
    Parts = {"hook", "enumerate", "gate", "transport", "canary", "lockfile", "tarball"}
    Local = {"./dir", "./server"}
    Vcs = {"git+x"}
    Url = {"https://mcp"}
    Plain <- MCPlain
    Flags = {"-y", "-w", "--env", "--transport", "--policy", "--", "--package=a"}
    ValueFlags = {"-w"}
    AddFlags = {"--env", "--transport"}
    ProxyFlags = {"--policy"}
    Inline <- MCInline
    Exact = {"1.0.0"}
    Json <- MCJson
    Unreadable = Unreadable
    Events <- MCEvents
    HookPolicies = {"balanced", "permissive"}
    Wrap = TRUE
    Probe = TRUE
    AuditManifests = TRUE
    Workers = 2
    MaxEvents = 2
    Transports = {"stdio", "http"}
    MaxListPages = 4
    MaxOutput = 8
    FrameSizes <- MCFrameSizes
    Callers = {r1, r2}
    Packages <- MCPackages
    Artifacts = {"a", "b"}
    Policies = {"lax", "strict"}
    Builds = {"b1", "b2"}
    Deny <- MCDeny
    Paths <- MCPaths
    AdminToken = FALSE
    Ttl = 1
    MaxNow = 2
    MaxChanges = 1
    NoBytes = "no bytes"
    Frames <- MCFrames
    Inputs <- MCInputs
    ExitTask = 9
    MaxLine = 2
    QueueTasks = 3
    QueueBytes = 4
    HighWater = 1
    MaxUnread = 2
    Hosts <- MCHosts
    Options <- MCOptions
    Payloads <- MCPayloads
    MaxForks = 1
    MaxSends = 1
    Lockfiles <- MCLockfiles
    Evidence <- MCEvidence
    Stores <- MCStores
    BatchSize = 2
    DeepConcurrency = 2
    Fetchers = {r1, r2}
    Candidates <- MCCandidates
    ChunksOf <- MCChunks
    MaxChunks = 2
    MaxRedirects = 1
    Locations <- MCLocations
    CacheConfigs <- MCCacheConfigs
    MaxTarballCrashes = 1
SPECIFICATION ServicesSpec
INVARIANTS AllowedMeansVetted NoServerLeft LastFramesGetThrough ReportsAreHonest AuditFollowsEvidence TarballsAreWhole
PROPERTIES DeliveryIsApproved EndedServersAreGone CanaryRunsEnd EnumerationEnds
CHECK_DEADLOCK FALSE
