SPECIFICATION FairSpec
CONSTANTS
    MaxRetries = 4
    Mac = TRUE
INVARIANTS
    TypeOK
    NoOrphanServer
    ProbesBounded
PROPERTIES
    QuitEnds
CHECK_DEADLOCK FALSE
