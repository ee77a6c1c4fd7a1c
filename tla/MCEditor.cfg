CONSTANTS
    Runs = {n1, n2, n3}
    Ranges = {a1, a2}
    Item = Item
    AutoName = AutoName
    Titles = {}
    MaxNumber = 2
    Imports = {i1}
    Flows = {a1, a2}
    Blank = Blank
    Typed = Typed
    MaxTyped = 1
    Refreshes = {a1, a2}
    Asks = {b1, b2}
    Entities = {a1, a2}
    Contents = {b1, b2}
    Foreign = Foreign
    Copies = {m1, m2}
    Pastes = {p1}
    None = None

SPECIFICATION EditorSpec
CONSTRAINTS NoClash Few
SYMMETRY Symmetry
INVARIANTS
    MarksAreSound
    PadsAreSound
    EditorIsSound
    ClipboardIsSound
PROPERTY
    ShownLongEnough
\* Edits end at their bounds.
CHECK_DEADLOCK FALSE
