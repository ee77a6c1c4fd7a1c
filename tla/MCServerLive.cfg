CONSTANTS
    Sessions = {s1, s2}
    MaxSessions = 1
    NoSession = NoSession
    MaxRevision = 2
    Viewed = {s1}

SPECIFICATION ServerLive
PROPERTIES
    AcceptedCancelSettles
    ResourcesGo
    ViewSettles
\* The server exits after Shutdown.
CHECK_DEADLOCK FALSE
