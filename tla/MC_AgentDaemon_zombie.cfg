CONSTANTS
    DROP_TABLES = {}
    BACKUP_ONLY_TABLES = {}
    MaxPartitionsPerRun = 1
    Totals = {1, 2}
    Frequencies = {1}
    LateDays = 0
    MaxDay = 0
    MaxStarts = 3
    MaxSaves = 2
    MaxRestarts = 1
SPECIFICATION Spec
INVARIANTS
    OneLoopListens
