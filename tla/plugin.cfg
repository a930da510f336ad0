\* Three calls of three commands with two signatures, two sessions one after the
\* other, a restart, a named and a nameless agent.
SPECIFICATION Spec
CONSTANTS
    SafeWords <- MCSafeWords
    FastFamilies <- MCFast
    LongFamilies <- MCLong
    Threshold = 20
    HardPolicy = FALSE
    WindowSize = 2
    Sessions = {s1, s2}
    NoSession = NoSession
    ProcessSession = ProcessSession
    Calls = {c1, c2, c3}
    Commands <- MCCommands
    Timeouts <- MCTimeouts
    Durations = {5, 30}
    Agents = {a1, a2}
    Nameless = {a1}
    OneSession = TRUE
    Concurrent = FALSE
    MaxRestarts = 1
SYMMETRY Symmetry
INVARIANTS
    TypeOK
    RefcountsExact
    HeadersTellWork
    RowSummarisesRuns
