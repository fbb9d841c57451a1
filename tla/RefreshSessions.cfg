SPECIFICATION Spec
CONSTANTS
    Old = {2, 4}
    Requests = {1, 3, 5}
    User = User
    None = None
\* Every request ends, and then nothing more happens.
CHECK_DEADLOCK FALSE
INVARIANTS
    RotationsAreSingle
    RevocationsHold
PROPERTIES
    EveryRequestEnds
