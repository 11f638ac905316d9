CONSTANTS
    Versions = {v1, v2}
    Working = {v1, v2}
    Migrations = 1
    FaultScenarios <- MCCommand
SPECIFICATION Spec
INVARIANTS
    DoneMeansReplaced
