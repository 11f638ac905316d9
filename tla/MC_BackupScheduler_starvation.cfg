CONSTANTS
    DROP_TABLES = {}
    BACKUP_ONLY_TABLES = {meta}
    MaxPartitionsPerRun = 1
    Totals = {1}
    Frequencies = {1}
    LateDays = 0
    MaxDay = 2
    MaxStarts = 1
SPECIFICATION FairSpec
PROPERTIES
    EligibleArchived
