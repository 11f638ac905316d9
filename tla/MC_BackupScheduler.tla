------------------------ MODULE MC_BackupScheduler ------------------------
EXTENDS BackupScheduler
=============================================================================
