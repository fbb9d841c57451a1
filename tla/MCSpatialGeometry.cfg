SPECIFICATION Spec
CONSTANTS
    Requests = {r1, r2, r3, r4}
    Foreign = {other}
    None = None
\* Every request ends, and then nothing more happens.
CHECK_DEADLOCK FALSE
SYMMETRY Symmetry
INVARIANTS
    ReferenceResolves
PROPERTIES
    ImplementsRegister
    ArchiveEndsChanges
