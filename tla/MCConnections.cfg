CONSTANTS
    Clusters = {a1, a2}
    Names = {b1, b2}
    Commands = {c1, c2}
    Root = Root
    MaxCached = 1
    MaxServers = 2
    MaxGroups = 1
    Docs = {a1, a2}
    Conns = {b1, b2}
    Assignments = {c1}
    Updates = {u1}
    Disconnected = Disconnected
    KqlCells = {a1, a2}
    NbConns = {b1, b2}
    MaxChanges = 3
    Databases = {a1, a2}
    Groups = {g1}
    Top = Top
    Schemas <- MCSchemas
    Requests = {b1, b2}
    None = None

SPECIFICATION ConnectionsSpec
SYMMETRY Symmetry
CONSTRAINT Few
INVARIANTS
    ListIsTold
    
    CellsAgree
    TreeIsSound
PROPERTY
    EnsureLists
\* The user may leave a notebook alone.
CHECK_DEADLOCK FALSE
