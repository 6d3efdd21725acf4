SPECIFICATION FairSpec
CONSTANTS
    NumObjects = 3
    MaxVersion <- MCMaxVersion
    Ending = {1}
    Cap = 2
    Limit = 2
    BatchSize = 1
    MaxFaults = 1
INVARIANTS
    TypeOK
    RecordedWasPushed
    PageIsTruthful
    OncePerChange
PROPERTIES
    DeliversFirst
    Ingested
CHECK_DEADLOCK FALSE
