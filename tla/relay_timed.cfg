\* Two sessions with a cache each, jitter 3% late, warms that take up to two
\* intervals: Margin covers one interval and the warms of both leases.
SPECIFICATION Spec
CONSTANTS
    Sessions = {s1, s2}
    Fingerprints = {f1, f2}
    Provider <- OneProvider
    Requests = {r1, r2}
    NoSession = NoSession
    NoFingerprint = NoFingerprint
    NoRequest = NoRequest
    MaxTargets = 1
    TTLs = {12}
    MaxAge = 12
    WarmPct = 80
    Margin = 5
    JitterPct <- LateJitter
    ResumePct = 95
    Prefixes = {10}
    WarmCosts = {0}
    PricingKnown = TRUE
    InputRate = 10
    OutputRate = 1
    CacheReadRate = 1
    CacheWriteRate = 0
    EconomicsEnabled = FALSE
    BudgetPct = 70
    SafetyMargin = 0
    MinimumSavings = 0
    MaxLeases = 2
    Overlap = FALSE
    Abortable = {}
    Unobserved = {}
    Opaque = {}
    Unboundable = {}
    DryRun = FALSE
    Unresolved = {}
    MaxMissed = 0
    WarmTimeout = 2
    AffinityEnabled = FALSE
    RouteCost = 0
SYMMETRY TimedSymmetry
INVARIANTS
    ServedInTime
PROPERTIES
    ImplementsGuard
