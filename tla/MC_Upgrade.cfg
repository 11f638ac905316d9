CONSTANTS
    Versions = {v1, v2, bad}
    Working = {v1, v2}
    Migrations = 2
    FaultScenarios <- MCScenarios
SPECIFICATION FairSpec
INVARIANTS
    TypeOK
    SuccessMeansRunning
    RolledBack
    WorkingVersionKept
    MigrationsInOrder
PROPERTIES
    RunEnds
