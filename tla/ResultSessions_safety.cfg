CONSTANTS
    Sessions = {s1, s2, s3}
    MaxSessions = 2
    NoSession = NoSession

SPECIFICATION Spec
SYMMETRY Symmetry
INVARIANTS
    TypeOK
    SessionLimit
    NothingLiveIsLost
    TablesAccountedFor
    TokenOutlivesItsUsers
PROPERTIES
    OutcomeIsFinal
    CancelledNeverCompletes
\* The server exits after Shutdown.
CHECK_DEADLOCK FALSE
