CONSTANTS
    Sessions = {s1, s2, s3}
    Cells = {c1, c2}
    NoSession = NoSession
    NoCell = NoCell
    Views = {all, v1}
    AllRows = all
    MaxGridActs = 3
    MaxRenders = 1
    MaxRevision = 1
    MaxPosts = 2
    MaxCellEdits = 1
    Pages = 2
    RowCount = 3
    ColCount = 2
    PageSize = 2
    Tabs = {t1, t2}
    Picks = {whole, p1}
    Whole = whole
    MaxResults = 1
    MaxUnderWay = 2
    ChartColumns = {k1, k2}
    Tables = {nodes, t1}
    NodesName = nodes
    Key = key
    Automatic = Automatic
    Other = Other
    Odd = Odd
    Charts <- FormCharts
    MaxFormActs = 2
    MaxShows = 2
    None = None

SPECIFICATION ResultsSpec
SYMMETRY Symmetry
CONSTRAINT Few
INVARIANTS
    NoSessionIsOrphaned
    PendingOnlyWhileShowing
    ShownIsHeld
    ScreenIsTrue
    CommandsAreFaithful
    TablesAreSound
    FormIsFaithful
PROPERTIES
    EditsAreKept
    ContinuationFollowsItsSource
\* The notebook may be closed for good.
CHECK_DEADLOCK FALSE
