SPECIFICATION FairSpec
CONSTANTS
    Procs <- LiveProcs
    Kind <- LiveKind
    Actor <- LiveActor
    LeaseOf <- LiveLease
    Principals <- People
    Admins <- Administrators
PROPERTY CallsReturn
CHECK_DEADLOCK FALSE
