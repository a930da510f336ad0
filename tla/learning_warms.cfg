\* As learning, with the warms of the relay.
SPECIFICATION WarmSpec
CONSTANTS
    HighConfidence = 60
    MinimumSamples = 2
    ForcedTTL <- MCNone
    HintTTL <- MCNone
    DefaultTTL = 2
    Sessions = {s1, s2}
    Contents = {k1}
    NoContent = NoContent
    Routes = {r1, r2}
    BaseRoute = BaseRoute
    TrueTTL <- MCTrueTTL
    Latency = 1
    ChurnDetection = TRUE
    Overlap = FALSE
    MaxTime = 4
    MaxRequests = 4
    Outage = {}
SYMMETRY Symmetry
INVARIANTS
    BoundsSound
