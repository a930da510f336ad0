\* One session that switches between two caches of a provider and back, one
\* request at a time, with route affinity on; one request may meet a failing resolver.
SPECIFICATION Spec
CONSTANTS
    Sessions = {s1}
    Fingerprints = {f1, f2}
    Provider <- OneProvider
    Requests = {r1, r2, r3}
    NoSession = NoSession
    NoFingerprint = NoFingerprint
    NoRequest = NoRequest
    MaxTargets = 1
    TTLs = {2}
    MaxAge = 1
    WarmPct = 80
    Margin = 1
    JitterPct <- NoJitter
    ResumePct = 95
    Prefixes = {10}
    WarmCosts = {30}
    PricingKnown = TRUE
    InputRate = 10
    OutputRate = 1
    CacheReadRate = 1
    CacheWriteRate = 0
    EconomicsEnabled = TRUE
    BudgetPct = 70
    SafetyMargin = 0
    MinimumSavings = 0
    MaxLeases = 2
    Overlap = FALSE
    Abortable = {}
    Unobserved = {}
    Opaque = {}
    Unboundable = {}
    DryRun = FALSE
    Unresolved = {r3}
    MaxMissed = 0
    WarmTimeout = 1
    AffinityEnabled = TRUE
    RouteCost = 0
SYMMETRY RequestSymmetry
INVARIANTS
    PinIsForNextRequest
    WithinBudget
PROPERTIES
    WarmReplaysLatest
