CONSTANTS
    Views = {all, v1, v2}
    AllRows = all
    MaxGridActs = 2
    MaxRenders = 2

SPECIFICATION GridSpec
INVARIANT LabelsMatchRows
\* The system comes to rest when MaxGridActs changes were made.
CHECK_DEADLOCK FALSE
