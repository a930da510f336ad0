\* Two sessions that share one content, two routes, responses up to one unit late.
SPECIFICATION Spec
CONSTANTS
    HighConfidence = 60
    MinimumSamples = 2
    ForcedTTL <- MCNone
    HintTTL <- MCNone
    DefaultTTL = 2
    Sessions = {s1, s2}
    Contents = {k1}
    NoContent = NoContent
    Routes = {r1, r2}
    BaseRoute = BaseRoute
    TrueTTL <- MCTrueTTL
    Latency = 1
    ChurnDetection = TRUE
    Overlap = FALSE
    MaxTime = 4
    MaxRequests = 4
    Outage = {2}
SYMMETRY Symmetry
INVARIANTS
    TypeOK
    BoundsSound
    CurveMatchesProfile
    LearnedHasEvidence
PROPERTIES
    CrossedNeverRegainsTrust
    InstabilityRefinesNothing
