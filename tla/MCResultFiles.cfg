CONSTANTS
    Hosts = {a1, a2}
    Calls = {b1, b2}
    Names = {n1, n2, n3}
    MaxEntries = 2
    MaxCrashes = 1
    Results = {a1, a2, r1, r2}
    WithChart = {a1, a2}
    Empty = {r2}
    MaxEdits = 2
    Docs = {a1, a2}
    MaxDocEdits = 2
    MaxOutside = 1
    None = None

SPECIFICATION FilesSpec
CONSTRAINTS NotBorrowed Few
SYMMETRY Symmetry
INVARIANTS
    
    FilesAreSound
    DocumentsAreSound
\* Edits end at their bounds.
CHECK_DEADLOCK FALSE
