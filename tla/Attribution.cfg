SPECIFICATION FairSpec
CONSTANTS
    Requests = {r1, r2, r3, r4}
    NoRow = NoRow
\* Every request ends, and then nothing more happens.
CHECK_DEADLOCK FALSE
INVARIANTS
    LineagesAreChains
    RefusalsLeaveNothing
PROPERTIES
    ImplementsLedger
    EveryRequestEnds
