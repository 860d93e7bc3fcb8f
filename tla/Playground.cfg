SPECIFICATION FairSpec
CONSTANTS
    MaxKeys = 5
INVARIANTS
    TypeOK
    OwnAnswer
PROPERTIES
    FinishedStays
    GenerationEnds
CHECK_DEADLOCK FALSE
