SPECIFICATION Spec
CONSTANTS
    Procs <- JoinProcs
    Kind <- JoinKind
    Actor <- LiveActor
    LeaseOf <- NoLeases
    Principals <- People
    Admins <- Administrators
PROPERTY FirstMessageOwns
CHECK_DEADLOCK FALSE
