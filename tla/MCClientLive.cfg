CONSTANTS
    Sessions = {s1, s2}
    Cells = {c1}
    NoSession = NoSession
    NoCell = NoCell
    Views = {all, v1}
    AllRows = all
    MaxGridActs = 2
    MaxRenders = 1
    MaxRevision = 1
    MaxPosts = 1
    MaxCellEdits = 1
    Pages = 2
    Tabs = {t1, t2}
    Picks = {whole, p1}
    Whole = whole
    MaxResults = 0
    MaxUnderWay = 2
    Clusters = {k1, k2}
    Names = {n1}
    Commands = {c1, c2}
    Root = Root
    MaxCached = 1
    MaxServers = 1
    MaxGroups = 0
    KqlCells = {c1, c2}
    NbConns = {a, b}
    MaxChanges = 2
    Runs = {r1, r2}
    Ranges = {k1}
    Item = Item
    None = None

SPECIFICATION ClientLive
PROPERTIES
    RunsComeToRest
    RequestsAreAnswered
    BackgroundWorkEnds
\* The user may leave everything alone.
CHECK_DEADLOCK FALSE
