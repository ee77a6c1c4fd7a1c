CONSTANTS
    Sessions = {s1}
    MaxSessions = 1
    NoSession = NoSession
    MaxRevision = 2

SPECIFICATION ViewSpec
INVARIANT
    UnwindMeansSuperseded
\* The server exits after Shutdown.
CHECK_DEADLOCK FALSE
