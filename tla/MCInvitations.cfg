SPECIFICATION Spec
CONSTANTS
    Requests = {r1, r2, r3}
    Old = {i1}
    Emails = {ada, bob}
    Subjects = {s1}
    None = None
\* Every request ends, and then nothing more happens.
CHECK_DEADLOCK FALSE
SYMMETRY Symmetry
INVARIANTS
    InvitationsAdmitOnce
    AccountsBackUsers
PROPERTIES
    ClosedTenantAdmitsNobody
    ArchivedIsTerminal
