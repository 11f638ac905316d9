CONSTANTS
    DROP_TABLES = {logs}
    BACKUP_ONLY_TABLES = {}
    MaxPartitionsPerRun = 1
    Totals = {1}
    Frequencies = {1}
    LateDays = 0
    MaxDay = 2
    MaxStarts = 1
SPECIFICATION FairSpec
PROPERTIES
    EligibleArchived
    CancelEndsLoops
