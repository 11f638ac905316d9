---------------------------- MODULE GlacierCron ----------------------------
(***************************************************************************)
(* The cron script ch-glacier-cron.sh, predecessor of the scheduler, which *)
(* the installer still puts on every host, beside the DB agent.            *)
(*                                                                         *)
(* Both work on the same ClickHouse, the same local disk, the same bucket  *)
(* and the same lifecycle row, and name a local backup after its date; no  *)
(* lock keeps them, or two runs of the script, apart.  The state of the    *)
(* agent and its steps are those of BackupScheduler.                       *)
(*                                                                         *)
(* A run of the script takes the one partition that is hot_days +          *)
(* warm_days old today, archives it, verifies the upload, drops it from    *)
(* DROP_TABLES and writes the status.  With ClickHouse down it takes its   *)
(* settings from a cache, which has no glacier_retention_days; `set -u`    *)
(* ends such a run where it would write the status.                        *)
(***************************************************************************)
EXTENDS BackupScheduler

CONSTANT Runs   \* runs of the script that may overlap

(* backup_frequency_hours as the script writes it: 24, whatever it was.    *)
CronFrequency == 1
ASSUME CronFrequencyAssumption == CronFrequency \in Frequencies

VARIABLES
    cron,   \* cron[k]: the k-th run of the script
    cache   \* settings in .lifecycle_config_cache, {} without the file

cronVars == <<cron, cache>>

Settings   == [total : Totals, glacier : {0, 1}]
NoSettings == [total |-> -1, glacier |-> 0]
SettingsOf(row) == [total |-> row.total, glacier |-> row.glacier]

RunPCs == {"off", "count", "creds", "create", "shadow", "upload", "verify",
           "clean", "drop", "status"}

RunState ==
    [pc    : RunPCs,
     cfg   : Settings \cup {NoSettings},
     cold  : BOOLEAN,             \* COLD_DAYS is set
     part  : Int,                 \* ARCHIVE_DATE
     ok    : BOOLEAN,             \* BACKUP_SUCCESS
     drops : SUBSET DROP_TABLES]  \* tables the last loop has left

Off == [pc |-> "off", cfg |-> NoSettings, cold |-> FALSE, part |-> 0,
        ok |-> FALSE, drops |-> {}]

Become(k, r) == cron' = [cron EXCEPT ![k] = r]
Move(k, p)   == Become(k, [cron[k] EXCEPT !.pc = p])
Exit(k)      == Become(k, Off)

-----------------------------------------------------------------------------
(* Settings, date and credentials.                                         *)

(* Mutant: BACKUP_SUCCESS is true until something fails.                   *)
EnterHopeful(k, cfg, cold) ==
    IF cfg.glacier = 0
    THEN UNCHANGED cron
    ELSE Become(k, [pc |-> "count", cfg |-> cfg, cold |-> cold,
                    part |-> today - cfg.total, ok |-> TRUE, drops |-> {}])

(* Mutant: the partition is dated warm_days after the cutoff.              *)
EnterToday(k, cfg, cold) ==
    IF cfg.glacier = 0
    THEN UNCHANGED cron
    ELSE Become(k, [pc |-> "count", cfg |-> cfg, cold |-> cold,
                    part |-> today, ok |-> FALSE, drops |-> {}])

Enter(k, cfg, cold) ==
    IF cfg.glacier = 0
    THEN UNCHANGED cron
    ELSE Become(k, [pc |-> "count", cfg |-> cfg, cold |-> cold,
                    part |-> today - cfg.total, ok |-> FALSE, drops |-> {}])

ReadConfig(k) ==
    /\ cron[k].pc = "off"
    /\ cache' = {SettingsOf(lifecycle)}
    /\ Enter(k, SettingsOf(lifecycle), TRUE)
    /\ UNCHANGED vars

(* ClickHouse does not answer.  Without a cache the script ends.           *)
ReadCache(k) ==
    /\ cron[k].pc = "off"
    /\ \E cfg \in cache : Enter(k, cfg, FALSE)
    /\ UNCHANGED <<vars, cache>>

(* A failed query counts as no parts, and without parts the script is done.*)
CountParts(k) ==
    /\ cron[k].pc = "count"
    /\ \/ CellsOf(rows, cron[k].part) # {} /\ Move(k, "creds")
       \/ Exit(k)
    /\ UNCHANGED <<vars, cache>>

LoadCreds(k) ==
    /\ cron[k].pc = "creds"
    /\ Move(k, "create") \/ Move(k, "status")
    /\ UNCHANGED <<vars, cache>>

-----------------------------------------------------------------------------
(* Backup and upload.                                                      *)

(* Mutant: a local backup in the way is replaced.                          *)
CreateArchiveAnyway(k) ==
    /\ cron[k].pc = "create"
    /\ localNames' = localNames \cup {cron[k].part}
    /\ localCells' = (localCells \ CellsOf(localCells, cron[k].part))
                         \cup CellsOf(rows, cron[k].part)
    /\ Move(k, "shadow")
    /\ UNCHANGED <<today, rows, ingested, remote, lifecycle, ctrlVars, loop, cache>>

CreateArchive(k) ==
    /\ cron[k].pc = "create"
    /\ cron[k].part \in Days \ localNames
    /\ localNames' = localNames \cup {cron[k].part}
    /\ localCells' = localCells \cup CellsOf(rows, cron[k].part)
    /\ Move(k, "shadow")
    /\ UNCHANGED <<today, rows, ingested, remote, lifecycle, ctrlVars, loop, cache>>

(* What a failed create leaves behind the script does not delete.          *)
CreateArchiveFail(k) ==
    /\ cron[k].pc = "create"
    /\ localNames' \in {localNames, localNames \cup ({cron[k].part} \cap Days)}
    /\ Move(k, "status")
    /\ UNCHANGED <<today, rows, ingested, localCells, remote, lifecycle, ctrlVars, loop, cache>>

(* The files in the backup are counted by `find | wc`.  Where there is no  *)
(* shadow directory find fails and, with pipefail, the script ends at once.*)
CheckShadow(k) ==
    /\ cron[k].pc = "shadow"
    /\ \/ /\ CellsOf(localCells, cron[k].part) # {}
          /\ Move(k, "upload")
          /\ UNCHANGED <<localNames, localCells>>
       \/ /\ CellsOf(localCells, cron[k].part) = {}
          /\ Move(k, "status")
          /\ DeleteLocal(cron[k].part)
       \/ /\ CellsOf(localCells, cron[k].part) = {}
          /\ Exit(k)
          /\ UNCHANGED <<localNames, localCells>>
    /\ UNCHANGED <<today, rows, ingested, remote, lifecycle, ctrlVars, loop, cache>>

UploadArchive(k) ==
    /\ cron[k].pc = "upload"
    /\ remote' = Uploaded(cron[k].part)
    /\ Move(k, "verify")
    /\ UNCHANGED <<today, rows, ingested, localNames, localCells, lifecycle, ctrlVars, loop, cache>>

(* Mutant: `clickhouse-backup upload ... || true`.                         *)
UploadArchiveIgnored(k) ==
    /\ cron[k].pc = "upload"
    /\ Become(k, [cron[k] EXCEPT !.pc = "clean", !.ok = TRUE])
    /\ UNCHANGED <<vars, cache>>

UploadArchiveFail(k) ==
    /\ cron[k].pc = "upload"
    /\ remote' \in {remote, Uploaded(cron[k].part)}
    /\ Move(k, "clean")
    /\ UNCHANGED <<today, rows, ingested, localNames, localCells, lifecycle, ctrlVars, loop, cache>>

(* `list remote | grep -q`: the list may fail, and does with pipefail when *)
(* grep stops reading early.                                               *)
VerifyUpload(k) ==
    /\ cron[k].pc = "verify"
    /\ \E listed \in BOOLEAN :
           Become(k, [cron[k] EXCEPT !.pc = "clean", !.ok = listed])
    /\ UNCHANGED <<vars, cache>>

CleanArchive(k) ==
    /\ cron[k].pc = "clean"
    /\ DeleteLocal(cron[k].part)
    /\ Become(k, IF cron[k].ok
                 THEN [cron[k] EXCEPT !.pc = "drop", !.drops = DROP_TABLES]
                 ELSE [cron[k] EXCEPT !.pc = "status"])
    /\ UNCHANGED <<today, rows, ingested, remote, lifecycle, ctrlVars, loop, cache>>

-----------------------------------------------------------------------------
(* Drop and status.                                                        *)

(* Mutant: the partition is dropped from every table.                      *)
DropPartitionEverywhere(k, t) ==
    /\ cron[k].pc = "drop"
    /\ t \in cron[k].drops
    /\ rows' = rows \ CellsOf(rows, cron[k].part)
    /\ Become(k, [cron[k] EXCEPT !.drops = @ \ {t}])
    /\ UNCHANGED <<today, ingested, localNames, localCells, remote, lifecycle, ctrlVars, loop, cache>>

DropPartition(k, t) ==
    /\ cron[k].pc = "drop"
    /\ t \in cron[k].drops
    /\ <<t, cron[k].part>> \in rows
    /\ rows' = rows \ {<<t, cron[k].part>>}
    /\ Become(k, [cron[k] EXCEPT !.drops = @ \ {t}])
    /\ UNCHANGED <<today, ingested, localNames, localCells, remote, lifecycle, ctrlVars, loop, cache>>

(* The partition is not there, or the count or the ALTER fails.            *)
SkipPartition(k, t) ==
    /\ cron[k].pc = "drop"
    /\ t \in cron[k].drops
    /\ Become(k, [cron[k] EXCEPT !.drops = @ \ {t}])
    /\ UNCHANGED <<vars, cache>>

DropsEnd(k) ==
    /\ cron[k].pc = "drop"
    /\ cron[k].drops = {}
    /\ Move(k, "status")
    /\ UNCHANGED <<vars, cache>>

(* Mutant: a status that is not among those of the table.                  *)
CronRowUnknown(cfg, ok) ==
    [total |-> cfg.total, glacier |-> cfg.glacier, freq |-> CronFrequency,
     lastAt |-> today, status |-> IF ok THEN "archived" ELSE "failed"]

(* The settings are those of the start of the run.                         *)
CronRow(cfg, ok) ==
    [total |-> cfg.total, glacier |-> cfg.glacier, freq |-> CronFrequency,
     lastAt |-> today, status |-> IF ok THEN "success" ELSE "failed"]

(* update_backup_status, whose INSERT may fail unnoticed, and the end.     *)
WriteStatus(k) ==
    /\ cron[k].pc = "status"
    /\ \/ cron[k].cold /\ lifecycle' = CronRow(cron[k].cfg, cron[k].ok)
       \/ UNCHANGED lifecycle
    /\ Exit(k)
    /\ UNCHANGED <<today, rows, ingested, localNames, localCells, remote, ctrlVars, loop, cache>>

(* The run is killed, or the host goes down.                               *)
Kill(k) ==
    /\ cron[k].pc # "off"
    /\ Exit(k)
    /\ UNCHANGED <<vars, cache>>

Script(k) ==
    \/ ReadConfig(k) \/ ReadCache(k) \/ CountParts(k) \/ LoadCreds(k)
    \/ CreateArchive(k) \/ CreateArchiveFail(k) \/ CheckShadow(k)
    \/ UploadArchive(k) \/ UploadArchiveFail(k) \/ VerifyUpload(k)
    \/ CleanArchive(k)
    \/ \E t \in DROP_TABLES : DropPartition(k, t)
    \/ \E t \in DROP_TABLES : SkipPartition(k, t)
    \/ DropsEnd(k) \/ WriteStatus(k)
    \/ Kill(k)

-----------------------------------------------------------------------------
(* The agent and the script on one host.                                   *)

HostTypeOK ==
    /\ TypeOK
    /\ cron \in [Runs -> RunState]
    /\ cache \subseteq Settings

HostInit ==
    /\ Init
    /\ cron = [k \in Runs |-> Off]
    /\ cache = {}

Agent == Next /\ UNCHANGED cronVars

HostNext == Agent \/ \E k \in Runs : Script(k)

HostSpec == HostInit /\ [][HostNext]_<<vars, cronVars>>

-----------------------------------------------------------------------------
(* Safety.  NoDataLoss, BackupOnlyKept, NeverDropsOpenPartition and        *)
(* ImplementsColdArchive are those of BackupScheduler, for both together.  *)

(* Between create and delete.                                              *)
OwnsBackup == {"shadow", "upload", "verify", "clean"}

(* While a run of the script works on its local backup no loop of the      *)
(* agent and no other run works on one of the same date: the name is all   *)
(* there is to keep them apart.                                            *)
OneOwnerPerDate ==
    \A k \in Runs : cron[k].pc \in OwnsBackup =>
        /\ \A l \in Loops :
               loop[l].pc \in HoldsBackup => loop[l].part # cron[k].part
        /\ \A j \in Runs \ {k} :
               cron[j].pc \in OwnsBackup => cron[j].part # cron[k].part

(* A run that is about to report success has all data of its date in the   *)
(* bucket, whoever has put it there and dropped it meanwhile.              *)
ScriptSuccessArchived ==
    \A k \in Runs :
        (cron[k].ok /\ cron[k].pc \in {"clean", "drop", "status"}) =>
            CellsOf(ingested, cron[k].part) \subseteq remote

-----------------------------------------------------------------------------
(* Why it is safe: what the script adds to the inductive invariant.        *)

(* A run that has started archives a date nobody writes to any more.       *)
DateClosed ==
    \A k \in Runs : cron[k].pc # "off" =>
        cron[k].cfg \in Settings /\ cron[k].part < today - LateDays

(* The local backup a run works on exists, and only a verified upload sets *)
(* ok.                                                                     *)
OwnsName ==
    \A k \in Runs :
        /\ cron[k].pc \in OwnsBackup => cron[k].part \in localNames
        /\ cron[k].ok => cron[k].pc \in {"clean", "drop", "status"}
        /\ cron[k].pc = "drop" => cron[k].ok

(* The backup holds all that ClickHouse still has of the date, and once it *)
(* is uploaded so does the bucket.                                         *)
BackupComplete ==
    \A k \in Runs :
        /\ cron[k].pc \in {"shadow", "upload"} =>
               CellsOf(rows, cron[k].part) \subseteq localCells
        /\ (cron[k].pc = "verify" \/ cron[k].ok) =>
               CellsOf(rows, cron[k].part) \subseteq remote

ScriptInv ==
    /\ DateClosed
    /\ OwnsName
    /\ OneOwnerPerDate
    /\ BackupComplete
    /\ ScriptSuccessArchived

HostInv == HostTypeOK /\ ArchiveInv /\ ScriptInv
=============================================================================
