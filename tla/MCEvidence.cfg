SPECIFICATION Spec
CONSTANTS
    Requests = {r1, r2, r3, r4}
    Sent = Sent
    Altered = Altered
    None = None
\* Every request ends, and then nothing more happens.
CHECK_DEADLOCK FALSE
SYMMETRY Symmetry
INVARIANTS
    RecordsAreBacked
PROPERTIES
    UploadsStaySealed
    HoldIsKept
