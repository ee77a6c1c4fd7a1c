CONSTANTS
    Docs = {d1, d2}
    None = None
    MaxDocEdits = 3
    MaxOutside = 1

SPECIFICATION DocumentSpec
INVARIANTS
    DocumentHoldsItsResult
