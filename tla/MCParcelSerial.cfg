SPECIFICATION SerialSpec
CONSTANTS
    Requests = {r1, r2, r3}
    ada = ada
    bob = bob
    Refs <- MCRefs
    Changes <- AllChanges
    None = None
    Creation = Creation
SYMMETRY Symmetry
\* A request that has committed, been rejected or failed takes no further step.
CHECK_DEADLOCK FALSE
INVARIANTS
    SupersededOnce
    HolderMatchesHistory
PROPERTIES
    ArchivedIsFrozen
    UnsentFieldsUnchanged
