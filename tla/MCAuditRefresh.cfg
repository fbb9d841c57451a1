SPECIFICATION RefreshSpec
CONSTANTS
    GENESIS_HASH = GENESIS_HASH
    Requests = {r1, r2}
    Times = {1, 2}
    MaxAudits = 2
SYMMETRY Symmetry
\* A request that has committed, been rejected or failed takes no further step.
CHECK_DEADLOCK FALSE
INVARIANTS
    EveryMutationAudited
