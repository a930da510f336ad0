\* Two sessions that share a cache identity, each sending one request at a time;
\* every kind of response and of warm result, and writes of the lease row that fail.
SPECIFICATION Spec
CONSTANTS
    Sessions = {s1, s2}
    Fingerprints = {f1}
    Provider <- OneProvider
    Requests = {r1, r2, r3}
    NoSession = NoSession
    NoFingerprint = NoFingerprint
    NoRequest = NoRequest
    MaxTargets = 1
    TTLs = {2}
    MaxAge = 1
    WarmPct = 80
    Margin = 1
    JitterPct <- NoJitter
    ResumePct = 95
    Prefixes = {10}
    WarmCosts = {30}
    PricingKnown = TRUE
    InputRate = 10
    OutputRate = 1
    CacheReadRate = 1
    CacheWriteRate = 0
    EconomicsEnabled = TRUE
    BudgetPct = 70
    SafetyMargin = 0
    MinimumSavings = 0
    MaxLeases = 3
    Overlap = FALSE
    Abortable = {}
    Unobserved = {}
    Opaque = {}
    Unboundable = {}
    DryRun = FALSE
    Unresolved = {}
    MaxMissed = 1
    WarmTimeout = 1
    AffinityEnabled = FALSE
    RouteCost = 0
SYMMETRY SessionSymmetry
INVARIANTS
    TypeOK
    WarmingIsInFlight
    BreakerBound
    WarmCostStored
PROPERTIES
    RealRequestWins
