SPECIFICATION FairSpec
CONSTANTS
    MaxFlows = 3
    MaxFlips = 2
    MaxFails = 1
INVARIANTS
    TypeOK
    GateSound
    OutcomeOfTheOrder
PROPERTIES
    PaidIsNoticed
CHECK_DEADLOCK FALSE
