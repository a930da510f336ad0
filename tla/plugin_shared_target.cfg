\* As plugin, but calls of one signature may run at the same time.
SPECIFICATION Spec
CONSTANTS
    SafeWords <- MCSafeWords
    FastFamilies <- MCFast
    LongFamilies <- MCLong
    Threshold = 20
    HardPolicy = FALSE
    WindowSize = 2
    Sessions = {s1, s2}
    NoSession = NoSession
    ProcessSession = ProcessSession
    Calls = {c1, c2, c3}
    Commands <- MCCommands
    Timeouts <- MCTimeouts
    Durations = {5, 30}
    Agents = {a1, a2}
    Nameless = {a1}
    OneSession = TRUE
    Concurrent = TRUE
    MaxRestarts = 1
SYMMETRY Symmetry
INVARIANTS
    RefcountsExact
