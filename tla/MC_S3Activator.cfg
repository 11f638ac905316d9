CONSTANTS
    Buckets = {b1, b2}
    maxRetries = 2
    FaultScenarios <- MCScenarios
SPECIFICATION FairSpec
INVARIANTS
    TypeOK
    ActiveMeansRunning
    FailedActivateRestores
    DeactivateRemovesS3
    BootableConfig
PROPERTIES
    ActionEnds
