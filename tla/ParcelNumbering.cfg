SPECIFICATION NumberingFairSpec
CONSTANTS
    Countries = {NG, GH}
    Creations = {r1, r2, r3}
    PoolSize = 2
    NoRequest = NoRequest
\* Every request commits or fails, and then nothing more happens.
CHECK_DEADLOCK FALSE
INVARIANTS
    NumbersUnique
    ParcelsAnnounced
PROPERTIES
    ImplementsLedger
    EveryRequestEnds
