CONSTANTS
    DROP_TABLES = {logs}
    BACKUP_ONLY_TABLES = {meta}
    MaxPartitionsPerRun = 1
    Totals = {1}
    Frequencies = {1}
    LateDays = 0
    MaxDay = 1
    MaxStarts = 2
SPECIFICATION Spec
INVARIANTS
    TypeOK
    NoDataLoss
    BackupOnlyKept
    OneOwnerPerBackup
    SuccessMeansArchived
PROPERTIES
    NeverDropsOpenPartition
    ImplementsColdArchive
