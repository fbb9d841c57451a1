SPECIFICATION Spec
CONSTANTS
    Files = {home, card}
    Path = home
    MaxChanges = 3
    MaxStarts = 2
\* The server may be down for good, with nothing left to change.
CHECK_DEADLOCK FALSE
INVARIANTS
    ViewIsCurrent
PROPERTIES
    Converges
