CONSTANTS
    Sessions = {s1, s2}
    MaxSessions = 1
    NoSession = NoSession
    MaxRevision = 2

SPECIFICATION ViewSpec
SYMMETRY Symmetry
INVARIANTS
    StatusIsTruthful
    StrayEvaluationsAreStopped
PROPERTIES
    ReadyViewIsProtected
    ImplementsService
    ImplementsViewService
\* The server exits after Shutdown.
CHECK_DEADLOCK FALSE
