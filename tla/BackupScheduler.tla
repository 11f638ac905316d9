-------------------------- MODULE BackupScheduler --------------------------
(***************************************************************************)
(* The cold-backup scheduler of the DB agent                               *)
(* (internal/agent/backup.go, internal/agent/partition.go).                *)
(*                                                                         *)
(* Every Start spawns a goroutine (a loop) that holds the lifecycle row it *)
(* was started with.  A loop runs a catch-up cycle if the last backup is   *)
(* old, then waits in a select for the context, for the field bs.stopCh    *)
(* and for its ticker.  A backup cycle lists the date partitions at or     *)
(* below the cutoff, takes the MaxPartitionsPerRun oldest and, for each,   *)
(* runs `clickhouse-backup create`, `upload`, `delete local` and then      *)
(* drops the partition from DROP_TABLES.  It ends by re-inserting the      *)
(* whole lifecycle row with the new backup status.                         *)
(*                                                                         *)
(* A partition is a day number; <<t, d>> is the data of table t in         *)
(* partition d.  Time passes a day at a time and tickers fire at any time. *)
(***************************************************************************)
EXTENDS Integers, FiniteSets

CONSTANTS
    DROP_TABLES,          \* tables whose partitions are dropped once archived
    BACKUP_ONLY_TABLES,   \* tables that are backed up and never dropped
    MaxPartitionsPerRun,  \* partitions one cycle takes (7 in the code)
    Totals,               \* hot_days + warm_days a user may configure
    Frequencies,          \* backup_frequency_hours, in days; <= 0 means unset
    LateDays,             \* how many days late telemetry may arrive
    MaxDay,               \* bound: the last day of the calendar
    MaxStarts             \* bound: Start calls in one life of the process

Tables == DROP_TABLES \cup BACKUP_ONLY_TABLES
Days   == 0 .. MaxDay
Cells  == Tables \X Days
Loops  == 1 .. MaxStarts

ASSUME TablesAssumption == DROP_TABLES \cap BACKUP_ONLY_TABLES = {}
ASSUME FiniteAssumption == IsFiniteSet(DROP_TABLES)
ASSUME BoundsAssumption == MaxDay \in Nat /\ MaxStarts \in Nat
                           /\ MaxPartitionsPerRun \in Nat \ {0}
ASSUME FrequencyAssumption == Frequencies \subseteq Int

(* Telemetry is never so late that it lands in a partition old enough to   *)
(* be archived: without it a row that arrives between create and DROP is   *)
(* deleted unarchived.                                                     *)
ASSUME LatenessAssumption ==
    /\ LateDays \in Nat
    /\ Totals \subseteq Nat
    /\ \A n \in Totals : LateDays < n

Never    == -1        \* last_backup_at of a row no backup has touched
Statuses == {"never", "skipped_no_partitions", "success", "partial_failure", "failed"}

(* What the scheduler reads of a row of data_lifecycle_config, and the row.*)
Config == [total : Totals, glacier : {0, 1}, freq : Frequencies,
           lastAt : Days \cup {Never}]
Row    == [total : Totals, glacier : {0, 1}, freq : Frequencies,
           lastAt : Days \cup {Never}, status : Statuses]
NoConfig == [total |-> -1, glacier |-> 0, freq |-> 0, lastAt |-> Never]

ConfigOf(row) == [total |-> row.total, glacier |-> row.glacier,
                  freq |-> row.freq, lastAt |-> row.lastAt]

VARIABLES
    (* ClickHouse, the local disk, the S3 bucket and the clock *)
    today,       \* the current day
    rows,        \* cells that hold active parts
    ingested,    \* history: every cell that ever received data
    localNames,  \* days d with a local backup named archive-d
    localCells,  \* cells stored in those local backups
    remote,      \* cells that can be restored from the bucket
    lifecycle,   \* the 'global' row of data_lifecycle_config
    (* the process *)
    cancelled,   \* ctx has been cancelled
    running,     \* bs.running
    stopCh,      \* bs.stopCh: number of the channel, 0 for nil
    closed,      \* channels that have been closed
    frequency,   \* bs.frequency
    pending,     \* config of a Start that has stopped the old loop and has
                 \* not launched the new one yet (at most one)
    loop         \* loop[l]: the goroutine of the l-th Start

storeVars == <<today, rows, ingested, localNames, localCells, remote, lifecycle>>
ctrlVars  == <<cancelled, running, stopCh, closed, frequency, pending>>
vars      == <<today, rows, ingested, localNames, localCells, remote, lifecycle,
               cancelled, running, stopCh, closed, frequency, pending, loop>>

PCs == {"dead", "gate", "select", "wait", "query", "archive", "upload",
        "abort", "clean", "drop", "status"}

(* The phases between a successful create and the delete of the local      *)
(* backup, and those in which a loop works on one partition.               *)
HoldsBackup == {"upload", "abort", "clean"}
OnPartition == HoldsBackup \cup {"drop"}

LoopState ==
    [pc     : PCs,
     cfg    : Config \cup {NoConfig},  \* cfg of runLoop
     ch     : 0 .. MaxStarts,          \* channel its select waits on
     target : SUBSET Days,             \* partitions of the current cycle
     todo   : SUBSET Days,             \* those not finished yet
     bad    : SUBSET Days,             \* those whose archiving failed
     part   : Days,                    \* the one being archived
     drops  : SUBSET DROP_TABLES]      \* tables DropPartitions has left

Dead == [pc |-> "dead", cfg |-> NoConfig, ch |-> 0, target |-> {},
         todo |-> {}, bad |-> {}, part |-> 0, drops |-> {}]

-----------------------------------------------------------------------------
(* Helpers.                                                                *)

Normalised(freq) == IF freq <= 0 THEN 1 ELSE freq

(* shouldCatchUp: never backed up, or not for two periods.                 *)
ShouldCatchUp(cfg) ==
    \/ cfg.lastAt = Never
    \/ today - cfg.lastAt > 2 * frequency

(* Mutant: partitions of the current day are old enough.                   *)
CutoffToday(cfg) == today

Cutoff(cfg) == today - cfg.total

(* Mutant: the cutoff day itself is left out.                              *)
PartitionsBeforeCutoff(cfg) ==
    {d \in Days : d < Cutoff(cfg) /\ \E t \in Tables : <<t, d>> \in rows}

(* getAllPartitionsToArchive: partitions of any signoz table, whether or   *)
(* not the table is one of DROP_TABLES.                                    *)
PartitionsToArchive(cfg) ==
    {d \in Days : d <= Cutoff(cfg) /\ \E t \in Tables : <<t, d>> \in rows}

(* The first n elements in ascending order.                                *)
Oldest(S, n) == {d \in S : Cardinality({e \in S : e < d}) < n}

CellsOf(S, d) == {c \in S : c[2] = d}

(* The status runBackup reports for a finished cycle.                      *)
Outcome(target, bad) ==
    IF bad = {} THEN "success"
    ELSE IF bad = target THEN "failed" ELSE "partial_failure"

Goto(l, r) == loop' = [loop EXCEPT ![l] = r]
Return(l)  == Goto(l, Dead)

-----------------------------------------------------------------------------
(* The callers of the scheduler: the daemon's main goroutine.              *)

Launch(cfg) ==
    /\ stopCh < MaxStarts
    /\ frequency' = Normalised(cfg.freq)
    /\ running' = TRUE
    /\ stopCh' = stopCh + 1
    /\ Goto(stopCh + 1, [Dead EXCEPT !.pc = "gate", !.cfg = cfg])
    /\ pending' = {}
    /\ UNCHANGED <<storeVars, cancelled, closed>>

StopRunning ==
    /\ closed' = closed \cup {stopCh}
    /\ running' = FALSE

Start(cfg) ==
    /\ pending = {}
    /\ ~running
    /\ Launch(cfg)

(* Start of a scheduler that is running: Stop first, the mutex is free     *)
(* until the launch.                                                       *)
StartAgain(cfg) ==
    /\ pending = {}
    /\ running
    /\ StopRunning
    /\ pending' = {cfg}
    /\ UNCHANGED <<storeVars, cancelled, stopCh, frequency, loop>>

StartResume == \E cfg \in pending : Launch(cfg)

Stop ==
    /\ pending = {}
    /\ running
    /\ StopRunning
    /\ UNCHANGED <<storeVars, cancelled, stopCh, frequency, pending, loop>>

(* SIGTERM or SIGINT.                                                      *)
Cancel ==
    /\ ~cancelled
    /\ cancelled' = TRUE
    /\ UNCHANGED <<storeVars, running, stopCh, closed, frequency, pending, loop>>

(* The process ends, after a shutdown or in a crash, and the service       *)
(* manager starts it again (Restart=always).                               *)
AgentRestart ==
    /\ cancelled' = FALSE
    /\ running' = FALSE
    /\ stopCh' = 0
    /\ closed' = {}
    /\ frequency' = 0
    /\ pending' = {}
    /\ loop' = [l \in Loops |-> Dead]
    /\ UNCHANGED storeVars

-----------------------------------------------------------------------------
(* runLoop.                                                                *)

Gate(l) ==
    /\ loop[l].pc = "gate"
    /\ Goto(l, [loop[l] EXCEPT
                  !.pc = IF ShouldCatchUp(loop[l].cfg) THEN "query" ELSE "select"])
    /\ UNCHANGED <<storeVars, ctrlVars>>

(* select evaluates bs.stopCh, a field that a later Start replaces.        *)
EnterSelect(l) ==
    /\ loop[l].pc = "select"
    /\ Goto(l, [loop[l] EXCEPT !.pc = "wait", !.ch = stopCh])
    /\ UNCHANGED <<storeVars, ctrlVars>>

(* Mutant: the context is only looked at together with the channel.        *)
SelectDoneStopped(l) ==
    /\ loop[l].pc = "wait"
    /\ cancelled /\ loop[l].ch \in closed
    /\ Return(l)
    /\ UNCHANGED <<storeVars, ctrlVars>>

(* The cases of the select: when several are ready any one is taken.       *)
SelectDone(l) ==
    /\ loop[l].pc = "wait"
    /\ cancelled
    /\ Return(l)
    /\ UNCHANGED <<storeVars, ctrlVars>>

SelectStop(l) ==
    /\ loop[l].pc = "wait"
    /\ loop[l].ch \in closed
    /\ Return(l)
    /\ UNCHANGED <<storeVars, ctrlVars>>

SelectTick(l) ==
    /\ loop[l].pc = "wait"
    /\ Goto(l, [loop[l] EXCEPT !.pc = "query"])
    /\ UNCHANGED <<storeVars, ctrlVars>>

-----------------------------------------------------------------------------
(* runBackup.                                                              *)

(* The end of a cycle: back to the select of runLoop.                      *)
EndCycle(l) ==
    Goto(l, [loop[l] EXCEPT !.pc = "select", !.ch = 0, !.target = {}, !.todo = {},
                            !.bad = {}, !.part = 0, !.drops = {}])

(* The query of system.parts fails: no status is written.                  *)
QueryFail(l) ==
    /\ loop[l].pc = "query"
    /\ EndCycle(l)
    /\ UNCHANGED <<storeVars, ctrlVars>>

TakePartitions(l, found) ==
    /\ loop[l].pc = "query"
    /\ LET taken == Oldest(found, MaxPartitionsPerRun)
       IN  Goto(l, [loop[l] EXCEPT
                      !.pc = IF found = {} THEN "status" ELSE "archive",
                      !.ch = 0, !.target = taken, !.todo = taken, !.bad = {}])
    /\ UNCHANGED <<storeVars, ctrlVars>>

QueryPartitions(l) ==
    /\ ~cancelled
    /\ TakePartitions(l, PartitionsToArchive(loop[l].cfg))

(* An error that ends the iteration over the rows early goes unnoticed:    *)
(* only the partitions before day e are found.                             *)
QueryCut(l) ==
    \E e \in Days :
        TakePartitions(l, {d \in PartitionsToArchive(loop[l].cfg) : d < e})

(* archivePartition has returned for partition d.                          *)
PartitionDone(l, d, failed) ==
    LET left == loop[l].todo \ {d}
    IN  Goto(l, [loop[l] EXCEPT
                   !.pc = IF left = {} THEN "status" ELSE "archive",
                   !.todo = left, !.part = 0, !.drops = {},
                   !.bad = IF failed THEN @ \cup {d} ELSE @])

IsNext(l, d) == d \in loop[l].todo /\ \A e \in loop[l].todo : d <= e

(* Mutant: an existing local backup is overwritten.                        *)
CreateBackupAnyway(l, d) ==
    /\ loop[l].pc = "archive"
    /\ IsNext(l, d)
    /\ ~cancelled
    /\ localNames' = localNames \cup {d}
    /\ localCells' = (localCells \ CellsOf(localCells, d)) \cup CellsOf(rows, d)
    /\ Goto(l, [loop[l] EXCEPT !.pc = "upload", !.part = d])
    /\ UNCHANGED <<today, rows, ingested, remote, lifecycle, ctrlVars>>

(* clickhouse-backup refuses to create a local backup whose name exists.   *)
CreateBackup(l, d) ==
    /\ loop[l].pc = "archive"
    /\ IsNext(l, d)
    /\ ~cancelled
    /\ d \notin localNames
    /\ localNames' = localNames \cup {d}
    /\ localCells' = localCells \cup CellsOf(rows, d)
    /\ Goto(l, [loop[l] EXCEPT !.pc = "upload", !.part = d])
    /\ UNCHANGED <<today, rows, ingested, remote, lifecycle, ctrlVars>>

(* A command that fails or is killed may leave an incomplete local backup. *)
CreateFail(l, d) ==
    /\ loop[l].pc = "archive"
    /\ IsNext(l, d)
    /\ localNames' \in {localNames, localNames \cup {d}}
    /\ PartitionDone(l, d, TRUE)
    /\ UNCHANGED <<today, rows, ingested, localCells, remote, lifecycle, ctrlVars>>

(* What the bucket holds once the local backup of day d is uploaded.  An   *)
(* earlier upload under the same name may make the command fail; when it   *)
(* does not, clickhouse-backup keeps what is stored and adds to it.        *)
Uploaded(d) == remote \cup CellsOf(localCells, d)

Upload(l) ==
    /\ loop[l].pc = "upload"
    /\ ~cancelled
    /\ loop[l].part \in localNames
    /\ remote' = Uploaded(loop[l].part)
    /\ Goto(l, [loop[l] EXCEPT !.pc = "clean"])
    /\ UNCHANGED <<today, rows, ingested, localNames, localCells, lifecycle, ctrlVars>>

(* Mutant: the exit status of upload is not looked at.                     *)
UploadFailIgnored(l) ==
    /\ loop[l].pc = "upload"
    /\ Goto(l, [loop[l] EXCEPT !.pc = "clean"])
    /\ UNCHANGED <<storeVars, ctrlVars>>

(* Mutant: a failed upload is cleaned up with `delete remote` as well.     *)
UploadFailDeletesRemote(l) ==
    /\ loop[l].pc = "upload"
    /\ remote' = remote \ CellsOf(remote, loop[l].part)
    /\ Goto(l, [loop[l] EXCEPT !.pc = "abort"])
    /\ UNCHANGED <<today, rows, ingested, localNames, localCells, lifecycle, ctrlVars>>

(* The command exits non-zero, sometimes after everything was stored.      *)
UploadFail(l) ==
    /\ loop[l].pc = "upload"
    /\ \/ UNCHANGED remote
       \/ /\ loop[l].part \in localNames
          /\ remote' = Uploaded(loop[l].part)
    /\ Goto(l, [loop[l] EXCEPT !.pc = "abort"])
    /\ UNCHANGED <<today, rows, ingested, localNames, localCells, lifecycle, ctrlVars>>

(* `clickhouse-backup delete local`, whose result nobody looks at.         *)
DeleteLocal(d) ==
    \/ /\ localNames' = localNames \ {d}
       /\ localCells' = localCells \ CellsOf(localCells, d)
    \/ UNCHANGED <<localNames, localCells>>

(* Mutant: the failed upload is not counted.                               *)
AbortUploadUncounted(l) ==
    /\ loop[l].pc = "abort"
    /\ DeleteLocal(loop[l].part)
    /\ PartitionDone(l, loop[l].part, FALSE)
    /\ UNCHANGED <<today, rows, ingested, remote, lifecycle, ctrlVars>>

AbortUpload(l) ==
    /\ loop[l].pc = "abort"
    /\ DeleteLocal(loop[l].part)
    /\ PartitionDone(l, loop[l].part, TRUE)
    /\ UNCHANGED <<today, rows, ingested, remote, lifecycle, ctrlVars>>

CleanLocal(l) ==
    /\ loop[l].pc = "clean"
    /\ DeleteLocal(loop[l].part)
    /\ Goto(l, [loop[l] EXCEPT !.pc = "drop", !.drops = DROP_TABLES])
    /\ UNCHANGED <<today, rows, ingested, remote, lifecycle, ctrlVars>>

(* Mutant: the partition is dropped from every table.                      *)
DropEverywhere(l, t) ==
    /\ loop[l].pc = "drop"
    /\ t \in loop[l].drops
    /\ ~cancelled
    /\ rows' = rows \ CellsOf(rows, loop[l].part)
    /\ Goto(l, [loop[l] EXCEPT !.drops = @ \ {t}])
    /\ UNCHANGED <<today, ingested, localNames, localCells, remote, lifecycle, ctrlVars>>

(* DropPartitions, one table at a time.  The order of the tables does not  *)
(* matter; a failed check, an empty partition or a failed ALTER skips the  *)
(* table and is not an error of archivePartition.                          *)
DropTable(l, t) ==
    /\ loop[l].pc = "drop"
    /\ t \in loop[l].drops
    /\ ~cancelled
    /\ <<t, loop[l].part>> \in rows
    /\ rows' = rows \ {<<t, loop[l].part>>}
    /\ Goto(l, [loop[l] EXCEPT !.drops = @ \ {t}])
    /\ UNCHANGED <<today, ingested, localNames, localCells, remote, lifecycle, ctrlVars>>

SkipTable(l, t) ==
    /\ loop[l].pc = "drop"
    /\ t \in loop[l].drops
    /\ Goto(l, [loop[l] EXCEPT !.drops = @ \ {t}])
    /\ UNCHANGED <<storeVars, ctrlVars>>

DropsDone(l) ==
    /\ loop[l].pc = "drop"
    /\ loop[l].drops = {}
    /\ PartitionDone(l, loop[l].part, FALSE)
    /\ UNCHANGED <<storeVars, ctrlVars>>

(* Mutant: the status is dated one day ahead.                              *)
StatusRowTomorrow(cfg, status) ==
    [total |-> cfg.total, glacier |-> cfg.glacier, freq |-> cfg.freq,
     lastAt |-> today + 1, status |-> status]

(* updateStatus re-inserts the whole row: the settings are the ones of the *)
(* config the loop was started with.                                       *)
StatusRow(cfg, status) ==
    [total |-> cfg.total, glacier |-> cfg.glacier, freq |-> cfg.freq,
     lastAt |-> today, status |-> status]

UpdateStatus(l) ==
    /\ loop[l].pc = "status"
    /\ ~cancelled
    /\ lifecycle' = StatusRow(loop[l].cfg,
                      IF loop[l].target = {} THEN "skipped_no_partitions"
                      ELSE Outcome(loop[l].target, loop[l].bad))
    /\ EndCycle(l)
    /\ UNCHANGED <<today, rows, ingested, localNames, localCells, remote, ctrlVars>>

UpdateStatusFail(l) ==
    /\ loop[l].pc = "status"
    /\ EndCycle(l)
    /\ UNCHANGED <<storeVars, ctrlVars>>

-----------------------------------------------------------------------------
(* The rest of the world.                                                  *)

(* A collector writes to a partition of today or of a few days ago.        *)
Ingest(t, d) ==
    /\ today - LateDays <= d /\ d <= today
    /\ <<t, d>> \notin ingested
    /\ rows' = rows \cup {<<t, d>>}
    /\ ingested' = ingested \cup {<<t, d>>}
    /\ UNCHANGED <<today, localNames, localCells, remote, lifecycle, ctrlVars, loop>>

NextDay ==
    /\ today < MaxDay
    /\ today' = today + 1
    /\ UNCHANGED <<rows, ingested, localNames, localCells, remote, lifecycle, ctrlVars, loop>>

(* The user saves other settings.                                          *)
SaveSettings(total, glacier, freq) ==
    /\ lifecycle' = [lifecycle EXCEPT !.total = total, !.glacier = glacier, !.freq = freq]
    /\ lifecycle' # lifecycle
    /\ UNCHANGED <<today, rows, ingested, localNames, localCells, remote, ctrlVars, loop>>
-----------------------------------------------------------------------------
TypeOK ==
    /\ today \in Days
    /\ rows \subseteq Cells
    /\ ingested \subseteq Cells
    /\ localNames \subseteq Days
    /\ localCells \subseteq Cells
    /\ remote \subseteq Cells
    /\ lifecycle \in Row
    /\ cancelled \in BOOLEAN
    /\ running \in BOOLEAN
    /\ stopCh \in 0 .. MaxStarts
    /\ closed \subseteq 0 .. MaxStarts
    /\ frequency \in Int
    /\ pending \subseteq Config
    /\ loop \in [Loops -> LoopState]

Init ==
    /\ today = 0
    /\ rows = {}
    /\ ingested = {}
    /\ localNames = {}
    /\ localCells = {}
    /\ remote = {}
    /\ lifecycle \in {r \in Row : r.status = "never" /\ r.lastAt = Never}
    /\ cancelled = FALSE
    /\ running = FALSE
    /\ stopCh = 0
    /\ closed = {}
    /\ frequency = 0
    /\ pending = {}
    /\ loop = [l \in Loops |-> Dead]

(* The daemon starts the scheduler with the row it has polled, when that   *)
(* row enables Glacier.  The user or a loop may have written another one   *)
(* since, and a later row has the date of a later backup.                  *)
Polled == {cfg \in Config : cfg.glacier = 1 /\ cfg.lastAt <= lifecycle.lastAt}

Control ==
    \/ \E cfg \in Polled : Start(cfg) \/ StartAgain(cfg)
    \/ StartResume
    \/ Stop
    \/ Cancel
    \/ AgentRestart

Cycle(l) ==
    \/ QueryFail(l)
    \/ QueryPartitions(l)
    \/ QueryCut(l)
    \/ \E d \in Days : CreateBackup(l, d)
    \/ \E d \in Days : CreateFail(l, d)
    \/ Upload(l)
    \/ UploadFail(l)
    \/ AbortUpload(l)
    \/ CleanLocal(l)
    \/ \E t \in DROP_TABLES : DropTable(l, t)
    \/ \E t \in DROP_TABLES : SkipTable(l, t)
    \/ DropsDone(l)
    \/ UpdateStatus(l)
    \/ UpdateStatusFail(l)

RunLoop(l) ==
    \/ Gate(l)
    \/ EnterSelect(l)
    \/ SelectDone(l)
    \/ SelectStop(l)
    \/ SelectTick(l)
    \/ Cycle(l)

Environment ==
    \/ \E t \in Tables, d \in Days : Ingest(t, d)
    \/ NextDay
    \/ \E n \in Totals, g \in {0, 1}, f \in Frequencies : SaveSettings(n, g, f)

Next ==
    \/ Control
    \/ \E l \in Loops : RunLoop(l)
    \/ Environment

Spec == Init /\ [][Next]_vars
(* Fairness.  A goroutine whose next step is possible is scheduled; the    *)
(* select picks uniformly among its ready cases, so a case that is ready   *)
(* again and again is taken; a query or command that is tried again and    *)
(* again succeeds in the end.  Nothing is assumed of the user, of signals, *)
(* of crashes or of the collectors.                                        *)
Fairness ==
    \A l \in Loops :
        /\ WF_vars(RunLoop(l))
        /\ SF_vars(SelectDone(l))
        /\ SF_vars(QueryPartitions(l))
        /\ SF_vars(\E d \in Days : CreateBackup(l, d))
        /\ SF_vars(Upload(l))
        /\ SF_vars(\E t \in DROP_TABLES : DropTable(l, t))

FairSpec == Spec /\ Fairness

-----------------------------------------------------------------------------
(* Safety.                                                                 *)

(* Whatever a collector has written is still in ClickHouse or can be       *)
(* restored from the bucket: archivePartition only drops what an upload it *)
(* made itself has stored, whatever fails, whenever the agent dies and     *)
(* although two loops may archive the same partition.                      *)
NoDataLoss == ingested \subseteq rows \cup remote

(* No partition of a BACKUP_ONLY table ever leaves ClickHouse              *)
(* (partition.go: "BACKUP_ONLY_TABLES are never touched").                 *)
BackupOnlyKept == ingested \ rows \subseteq DROP_TABLES \X Days

(* Two loops are never both between the create and the delete of the same  *)
(* local backup, so that none uploads or deletes the other's: the name     *)
(* archive-<date> serves as a lock.                                        *)
OneOwnerPerBackup ==
    \A l, m \in Loops :
        (/\ l # m
         /\ loop[l].pc \in HoldsBackup
         /\ loop[m].pc \in HoldsBackup) => loop[l].part # loop[m].part

(* A partition that a cycle counts as succeeded is in the bucket with all  *)
(* its data, so the status "success" is never an overstatement.            *)
SuccessMeansArchived ==
    \A l \in Loops :
        \A d \in loop[l].target \ (loop[l].todo \cup loop[l].bad) :
            CellsOf(ingested, d) \subseteq remote

(* A step that removes data from ClickHouse never hits a partition that    *)
(* collectors may still write to.                                          *)
NeverDropsOpenPartition ==
    [][\A c \in rows \ rows' : c[2] < today - LateDays]_vars

(* The scheduler implements the promise of ColdArchive.                    *)
Archive == INSTANCE ColdArchive WITH
               Droppable <- DROP_TABLES \X Days,
               Permanent <- BACKUP_ONLY_TABLES \X Days,
               live <- rows, archived <- remote
ImplementsColdArchive == Archive!Spec

-----------------------------------------------------------------------------
(* Why it is safe: the inductive invariant.                                *)

(* A live goroutine has a config.                                          *)
LiveConfig == \A l \in Loops : loop[l].pc = "dead" \/ loop[l].cfg \in Config

(* The store holds nothing that no collector has written.                  *)
OnlyIngested == rows \cup localCells \cup remote \subseteq ingested

(* A loop works through the partitions it took, and a loop between create  *)
(* and delete has its local backup.                                        *)
CyclePlan ==
    \A l \in Loops :
        /\ loop[l].todo \subseteq loop[l].target
        /\ loop[l].pc \in OnPartition => loop[l].part \in loop[l].todo
        /\ loop[l].pc \in HoldsBackup => loop[l].part \in localNames

(* No collector writes to a partition that a cycle took.                   *)
TargetsClosed ==
    \A l \in Loops : \A d \in loop[l].target : d < today - LateDays

(* The local backup a loop is about to upload holds all that ClickHouse    *)
(* still has of the partition, and so does the bucket once it is uploaded. *)
SnapshotComplete ==
    \A l \in Loops :
        /\ loop[l].pc = "upload" => CellsOf(rows, loop[l].part) \subseteq localCells
        /\ loop[l].pc \in {"clean", "drop"} => CellsOf(rows, loop[l].part) \subseteq remote

ArchiveInv ==
    /\ LiveConfig
    /\ OnlyIngested
    /\ CyclePlan
    /\ TargetsClosed
    /\ OneOwnerPerBackup
    /\ SnapshotComplete
    /\ NoDataLoss
    /\ BackupOnlyKept
    /\ SuccessMeansArchived

IInv == TypeOK /\ ArchiveInv

-----------------------------------------------------------------------------
(* Liveness.                                                               *)

(* Once the context is cancelled every loop ends (or the process is gone). *)
CancelEndsLoops ==
    \A l \in Loops : cancelled ~> (~cancelled \/ loop[l].pc = "dead")

(* A local backup that no loop works on: a crash or a failed command left  *)
(* it, and clickhouse-backup will not create another of its name.          *)
Orphan(d) ==
    /\ d \in localNames
    /\ \A l \in Loops : ~(loop[l].pc \in HoldsBackup /\ loop[l].part = d)

(* The partitions old enough for loop l that are not in the bucket.        *)
Backlog(l) ==
    {d \in Days : d <= Cutoff(loop[l].cfg) /\ ~(CellsOf(rows, d) \subseteq remote)}

(* A loop that keeps running archives every partition that is old enough   *)
(* for it, the ones a cycle has no room for in a later cycle, unless an    *)
(* orphaned local backup blocks the way.                                   *)
EligibleArchived ==
    \A l \in Loops :
        (loop[l].pc # "dead" /\ Backlog(l) # {}) ~>
            (\/ Backlog(l) = {}
             \/ \E d \in Days : Orphan(d)
             \/ cancelled \/ loop[l].pc = "dead")

-----------------------------------------------------------------------------
(* What the repository says and the code does not do.                      *)

(* At most one loop of the scheduler is waiting for its next tick on a     *)
(* channel nobody has closed: a loop that was stopped ends.                *)
OneLoopListens ==
    \A l, m \in Loops :
        (/\ l # m
         /\ loop[l].pc = "wait" /\ loop[l].ch \notin closed
         /\ loop[m].pc = "wait" /\ loop[m].ch \notin closed) => FALSE
=============================================================================
