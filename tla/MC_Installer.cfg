CONSTANTS
    c1 = c1
    Configs = {c1}
    Requests <- MCRequests
    MetaFiles = 2
    Builds <- MCBuilds
    FaultScenarios <- MCFaultScenarios
    MaxFaultyRuns = 1
SPECIFICATION FairSpec
INVARIANTS
    TypeOK
    DoneMeansInstalled
    UninstallLeavesNothing
PROPERTIES
    KeptUntilRemoved
    CleanRunSucceeds
