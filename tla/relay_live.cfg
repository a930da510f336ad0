\* Liveness: a learned TTL below the margin makes a lease due at once; two sessions, two caches of
\* which one has opaque bodies, a body without an output bound and one that breaks.
SPECIFICATION FairSpec
CONSTANTS
    Sessions = {s1, s2}
    Fingerprints = {f1, f2}
    Provider <- OneProvider
    Requests = {r1, r2}
    NoSession = NoSession
    NoFingerprint = NoFingerprint
    NoRequest = NoRequest
    MaxTargets = 1
    TTLs = {1, 3}
    MaxAge = 2
    WarmPct = 80
    Margin = 1
    JitterPct <- NoJitter
    ResumePct = 95
    Prefixes = {}
    WarmCosts = {0}
    PricingKnown = TRUE
    InputRate = 10
    OutputRate = 1
    CacheReadRate = 1
    CacheWriteRate = 0
    EconomicsEnabled = FALSE
    BudgetPct = 70
    SafetyMargin = 0
    MinimumSavings = 0
    MaxLeases = 2
    Overlap = FALSE
    Abortable = {r2}
    Unobserved = {r2}
    Opaque = {f2}
    Unboundable = {r1}
    DryRun = FALSE
    Unresolved = {r2}
    MaxMissed = 0
    WarmTimeout = 1
    AffinityEnabled = FALSE
    RouteCost = 0
PROPERTIES
    DueLeaseServed
