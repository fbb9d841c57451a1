SPECIFICATION VerifierSpec
CONSTANTS
    GENESIS_HASH = GENESIS_HASH
    RowHash = {h1, h2, h3}
    MaxRows = 3
\* verify_chain() returns, and that is the end.
CHECK_DEADLOCK FALSE
INVARIANTS
    VerdictIsExact
    MemoIsExact
    EachEdgeOnce
PROPERTIES
    Terminates
