CONSTANTS
    DROP_TABLES = {logs}
    BACKUP_ONLY_TABLES = {meta}
    MaxPartitionsPerRun = 1
    Totals = {1}
    Frequencies = {1}
    LateDays = 0
    MaxDay = 1
    MaxStarts = 1
    Runs = {cron1}
SPECIFICATION HostSpec
INVARIANTS
    HostTypeOK
    NoDataLoss
    OneOwnerPerDate
    ScriptSuccessArchived
PROPERTIES
    NeverDropsOpenPartition
    ImplementsColdArchive
