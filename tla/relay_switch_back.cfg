\* A session that leaves a cache and comes back to it.
SPECIFICATION Spec
CONSTANTS
    Sessions = {s1}
    Fingerprints = {f1, f2}
    Provider <- OneProvider
    Requests = {r1, r2, r3}
    NoSession = NoSession
    NoFingerprint = NoFingerprint
    NoRequest = NoRequest
    MaxTargets = 1
    TTLs = {3}
    MaxAge = 2
    WarmPct = 80
    Margin = 1
    JitterPct <- NoJitter
    ResumePct = 95
    Prefixes = {10}
    WarmCosts = {0}
    PricingKnown = TRUE
    InputRate = 10
    OutputRate = 1
    CacheReadRate = 1
    CacheWriteRate = 0
    EconomicsEnabled = TRUE
    BudgetPct = 70
    SafetyMargin = 0
    MinimumSavings = 0
    MaxLeases = 2
    Overlap = FALSE
    Abortable = {}
    Unobserved = {}
    Opaque = {}
    Unboundable = {}
    DryRun = FALSE
    Unresolved = {}
    MaxMissed = 0
    WarmTimeout = 1
    AffinityEnabled = FALSE
    RouteCost = 0
PROPERTIES
    InvalidatedIsFinal
