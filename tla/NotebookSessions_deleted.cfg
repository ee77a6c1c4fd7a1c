CONSTANTS
    Sessions = {s1}
    Cells = {c1}
    NoSession = NoSession
    NoCell = NoCell

SPECIFICATION NbSpec
INVARIANT
    DeletedCellsHoldNothing
\* The notebook may be closed for good.
CHECK_DEADLOCK FALSE
