\* Two sessions and requests without a session, a body cache of one session, a
\* topology window of three events; churn rows may be lost and the relay restarts.
SPECIFICATION Spec
CONSTANTS
    Absent = Absent
    Kind <- MCKind
    Patterns <- MCPatterns
    Radius = 1
    Sessions = {s1, s2}
    Requests <- MCRequests
    Anonymous <- MCAnonymous
    MaxBody = 9
    MaxSessions = 1
    ChurnDetection = TRUE
    Limit = 3
    MaxEvents = 4
SYMMETRY Symmetry
CHECK_DEADLOCK FALSE
INVARIANTS
    TypeOK
    CauseNamesChange
    AttributionSound
    StoredWithinSnapshots
