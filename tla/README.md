# TLA+ verification of k-o11y-install

`k-o11y-install` installs and operates the storage side of an observability
platform: ClickHouse on a VM, tiering to S3, cold backup to Glacier, and the
collectors' certificates. This directory holds TLA+ specifications of the parts
with behaviour of their own, the TLC runs that check them and TLAPS proofs about
the parts where a mistake deletes data or leaves a host without its agent.

In the following `agent/` is `src/cmd/k-o11y-db/internal/agent/`, `installer/` is
`src/cmd/k-o11y-db/internal/installer/` and `sql/` is
`src/cmd/k-o11y-db/internal/embed/sql/`.

## The system

### The DB agent: a daemon on the ClickHouse VM

| Component | State | Operations | Interacts with |
|---|---|---|---|
| Daemon, state machine (`agent/daemon.go`, `state.go`) | `current`, `queue` | `poll`, `processQueue`, `shutdown` | calls poller, activator, scheduler from one goroutine |
| Poller (`agent/poller.go`) | last row seen of each table | `Poll`, `handleS3ConfigChange`, `handleLifecycleConfigChange`, heartbeat | reads the two tables the UI writes, fills the queue |
| Backup scheduler (`agent/backup.go`) | `running`, `stopCh`, `frequency`; one goroutine per `Start` | `Start`, `Stop`, `runLoop`, `runBackup`, `archivePartition`, `updateStatus` | `clickhouse-backup`, ClickHouse; *writes* the row the poller reads |
| Partition manager (`agent/partition.go`) | the two table lists | `DropPartitions` | ClickHouse |
| S3 activator (`agent/s3_activator.go`) | none of its own: `storage.xml`, `s3.env`, their `.bak` files, ClickHouse | `Activate`, `Deactivate`, `rollback` | systemd, `s3_config` |
| Credentials (`agent/creds.go`) | none | AES-GCM decryption | activator |
| Health server (`agent/health.go`) | none | `GET /health` | reads the state machine |
| Service unit | | `Restart=always` | systemd |

What is hard here: goroutines of the scheduler that outlive a `Stop`; two loops
working under the same backup name; every step of create, upload, delete, drop
failing or being killed; crashes between any two steps; the full-row inserts of
the agent racing the user's; edges (0 to 1) that are only seen by comparing two
polls; `.bak` files overwritten by retries.

What makes each correct:

* scheduler: telemetry is never lost, permanent tables are never dropped, the
  reported status is honest, every old partition is archived in the end, a stopped
  scheduler stops;
* activator: success means ClickHouse runs on the requested bucket, failure means
  the files are as before, the files always let ClickHouse start, every action ends;
* daemon and poller: start and stop alternate, the scheduler follows the row, the
  user's settings stay, a poll is never refused;
* upgrade: success is real, a rollback restores what was there, a host always has a
  version that works, migrations are applied in order, every run ends;
* installers: success is real, a run after a failed one repairs what that left, only an
  uninstall destroys data (and post-install that of one table), and it leaves nothing;
* cron script: with the agent beside it nothing is lost, and its success is real;
* TLS setup: success means that the Secret is as asked for, or comes to be, and can be
  renewed.

### The installers and tools

| Component | What it does | Hard behaviour |
|---|---|---|
| Upgrade (`installer/upgrade.go`) | stop, upload, swap, start, health check of the agent; collector config; migrations | rollback on some errors and not on others; a second run after a failed one |
| ClickHouse, Keeper installers (`installer/clickhouse.go`, `keeper.go`) | a list of steps over an executor | running again over units that run; results nobody looks at |
| Post-install, collector, agent (`installer/post_install.go`, `otel_agent.go`, `agent.go`) | DDL, which drops views and empties a table, first rows, services | a run that failed half way is run again, over the settings a user has saved since |
| Uninstall (`installer/uninstall.go`) | removes all of it | errors are ignored; the agent goes on while ClickHouse is removed |
| Executors (`internal/ssh/`) | run a command and upload bytes, locally, by SSH, by a bastion | a non-zero exit is not an error |
| Cron script (`internal/embed/scripts/ch-glacier-cron.sh`) | predecessor of the scheduler | beside the agent, without a lock; cached config |
| TLS setup (`src/cmd/k-o11y-tls/`) | the collector's certificate, in one of four modes | cert-manager works beside it; runs over what runs in other modes left |
| Helm charts (`src/charts/`) | declarative | none of the repository's own |

## Modules

| Module | Models | Size of what it composes |
|---|---|---|
| `ColdArchive` | the promise of cold backup, abstractly | two variables |
| `BackupScheduler` | `backup.go`, `partition.go` | any number of loops, implements `ColdArchive` |
| `BackupSchedulerProofs` | | the theorems about `BackupScheduler` |
| `BackupCycleProofs` | | how a cycle of it goes and ends, over the invariant of `BackupSchedulerProofs` |
| `GlacierCron` | `ch-glacier-cron.sh` beside the agent | extends `BackupScheduler` by any number of runs of the script |
| `GlacierCronProofs` | | the theorems about `GlacierCron`, over those of the two modules about `BackupScheduler` |
| `S3Activator` | `s3_activator.go` and the poll of `s3_config` | files, server, agent |
| `S3ActivatorProofs` | | the theorems about `S3Activator` |
| `AgentDaemon` | `daemon.go`, `poller.go`, `state.go` | the main loop around `INSTANCE BackupScheduler` |
| `AgentDaemonProofs` | | the theorems about `AgentDaemon`, and that it implements `BackupScheduler` |
| `Upgrade` | `upgrade.go` over what `internal/ssh` reports | two units, migrations, any number of runs |
| `UpgradeProofs` | | the theorems about `Upgrade` |
| `Installer` | `install`, `post-install` and `uninstall` | four units on two hosts, any number of runs, the other users of ClickHouse |
| `InstallerProofs` | | the theorems about `Installer` |
| `TLSSetup` | `k-o11y-tls setup` and what cert-manager does beside it | one Secret, any number of runs |
| `TLSSetupProofs` | | the theorems about `TLSSetup` |
| `MC_*` | | the instances TLC checks |

### BackupScheduler

A partition is a day number, `<<t, d>>` the data of table `t` in it. The store is
`rows` (in ClickHouse), `localNames` and `localCells` (local backups), `remote` (the
bucket), `lifecycle` (the row), and `today`. `ingested` is a history variable. The
process is `running`, `stopCh`, `closed`, `frequency`, `pending`, and `loop[l]`, the
goroutine of the `l`-th `Start`. A channel is the number of the `Start` that made it.

| Code | Actions |
|---|---|
| `Start`, `Stop` | `Start`; `StartAgain` then `StartResume` (the mutex is free in between); `Stop` |
| `runLoop` | `Gate`, `EnterSelect` (evaluates the field `bs.stopCh`), `SelectDone`, `SelectStop`, `SelectTick` |
| `runBackup` | `QueryPartitions`, `QueryFail`, `QueryCut` (`rows.Err` is not looked at), then per partition `archivePartition`, then `UpdateStatus`, `UpdateStatusFail` |
| `archivePartition` | `CreateBackup`, `CreateFail`, `Upload`, `UploadFail`, `AbortUpload`, `CleanLocal`, `DropsDone` |
| `DropPartitions` | `DropTable`, `SkipTable` |
| SIGTERM, exit and restart | `Cancel`, `AgentRestart` |
| collectors, clock, UI | `Ingest`, `NextDay`, `SaveSettings` |

A step of a loop is one command, one query or one locked section. A command may fail
without an effect or after it (`UploadFail`), and a killed `create` may leave its name
behind (`CreateFail`). Tickers fire at any time, so the frequency only matters to the
catch-up gate. Frequencies are counted in days.

`AgentDaemon` never starts a scheduler that runs (`SchedulerInStep`), so `StartAgain`
belongs to the component's interface; it is kept because the method has it. The scheduler
is started with a row that was polled, not with the one in the table at that moment: the
user or a loop may have written another one since (`Polled`).

Assumed of what is not in the repository:

* `clickhouse-backup create` refuses a local name that exists, and `upload` never
  removes what an earlier upload under the same name stored. `upload` exiting with 0
  means stored (this is the comment in `backup.go:300`). That `--partitions` selects
  the partition's data is assumed as well; the agent does not look into the backup, as
  the cron script did.
* `LatenessAssumption`: telemetry never arrives so late that it lands in a partition
  at or below a cutoff the user may configure. Without it the code does delete what
  arrives between `create` and `DROP`. `LateDays < n` for every configurable total.
* The insert with the latest version is the row that counts.

### GlacierCron

The state and the steps of the agent are those of `BackupScheduler`, which this module
extends: `Agent == Next /\ UNCHANGED cronVars`. Beside them `cron[k]` is the `k`-th run
of the script (its `pc`, the settings it has read, its date, `BACKUP_SUCCESS`, the tables
its last loop has left) and `cache` the file with the settings of an earlier run.

| Script | Actions |
|---|---|
| `load_config`, the check of `GLACIER_ENABLED`, the date | `ReadConfig` or `ReadCache`, both with `Enter` |
| the count of parts, `load_s3_creds` | `CountParts`, `LoadCreds` |
| create and the count of files | `CreateArchive`, `CreateArchiveFail`, `CheckShadow` |
| upload, verify, delete | `UploadArchive`, `UploadArchiveFail`, `VerifyUpload`, `CleanArchive` |
| the loop over `DROP_TABLES` | `DropPartition`, `SkipPartition`, `DropsEnd` |
| `update_backup_status` | `WriteStatus` |
| a kill at any point | `Kill` |

Both name the local backup of a date `archive-<date>`, both use the bucket of
`clickhouse-backup`'s config, and there is no lock. `NoDataLoss`,
`NeverDropsOpenPartition` and `ImplementsColdArchive` are the agent's own formulas,
checked of the two together. cron starts a run at any time: the crontab is the
operator's (the script's header, lines 13-14), and a slow run may overlap the next.
The script and the agent name the database differently (`ko11y`, `k_o11y`); it is
modelled as one row, which is the harder case.

### S3Activator

Files are named by what they hold: `storage` is absent, the host's own or the S3
template, `env` is empty or a bucket's credentials, `storageBak` and `envBak` the
`.bak` files. `chUp` and `disk` are the server: it reads the files in `Boot` only, and
with the S3 template it does not start without credentials. `row` is the 'warm' row,
`last` the row the poller saw last. `pc`, `attempt` and `cancelled` are the goroutine.

| Code | Actions |
|---|---|
| `pollS3Config`, `handleS3ConfigChange` | `Poll` |
| `Activate` | `IsS3Active`, `DecryptCredentials`, `NextAttempt`, `ResetActivateRequested` |
| `doActivate` | `BackupStorage`, `BackupEnv`, `WriteStorage`, `WriteEnv`, `RestartClickHouse`, `WaitActive`, `VerifyS3Disk`, `UpdateBackupConfig` |
| `rollback`, `Deactivate` | `UndoStorage`, `UndoEnv`, then `NextAttempt` or `RestartClickHouse` |
| SIGTERM, exit and restart | `Cancel`, `AgentRestart` |
| others | `Reboot`, `SaveS3` |

Which faults can happen is a set, `faults`, chosen in `Init` from `FaultScenarios` and
constant from then on. A property that holds under some faults only says so in its
premise, and the runs have scenarios with and without those faults: what the code
gives when nothing but restarts fail is more than what it gives when copies fail.
`sudo cp` and `mv` are not torn: a file is as before or as it was to become.

### AgentDaemon

`pc` is the main goroutine, `state` and `queue` the state machine, `last` and `lastS3`
what the poller saw. The variables of the scheduler are this module's own, and
`BS == INSTANCE BackupScheduler` supplies its actions: `ExecuteStart` is
`BS!Start(action.cfg)`, `Goroutine(l)` is `BS!RunLoop(l)`, `Terminate` is `BS!Cancel`,
`Restart` is `BS!AgentRestart`. An activation of S3 is one step (`ExecuteS3`),
which resets the request or not; its inside and deactivation are `S3Activator`'s. A failed ping skips
a poll, which is a stuttering step. `ActionBackupRun`, and the states
`action_pending` and `error`, are in the code and never reached.

### Upgrade

A unit is the agent's binary or the OTel agent's config. `file[u]` is the version at
the path its service starts from, `bak[u]` the `.bak` beside it, `up[u]` the version
that runs, `schema` the migrations applied. The program is `pc`, `unit`, `args` (the
`UpgradeConfig`), `next` and `link`. The operator runs `upgrade` again and again, to
versions that work and to versions that do not.

| Code | Actions |
|---|---|
| `RunUpgrade` | `Begin`, `Continue` |
| `upgradeDBAgent` | `Backup`, `Stop`, `Upload`, `Move`, `Start`, `Health`, `UndoStop`, `UndoMove`, `UndoStart`, `Cleanup` |
| `upgradeOtelAgent` | the same without `Stop` and `UndoStop`; errors of `mv` and `restart` are ignored |
| `runDDLMigrations` | `Migrate` |
| `Exec`, `ExecSudo`, `UploadBytes` | `Executed`, `Skipped`, `Sets`, `UploadFails`; `DropLink` |

The executors return an error when the connection is lost, and none when a command
exits with another code than 0; most callers look at neither. So a command is executed
while `link` holds, and skipped without notice when it does not or under the fault
"command". A lost connection stays lost for the run, and a program that is stopped is
a lost connection as far as the host can tell. A broken version never answers the
health check, since systemd restarts it in vain; a working one may fail it ("health").
`mv` is not torn. Files that were uploaded to `/tmp` and not moved are left out, as
are runs that end before they touch the host (the local binary is missing). A file of
migrations takes effect as a whole or not at all; one that was applied before has no
effect (`IF NOT EXISTS`).

### Installer

Four units, `keeper`, `clickhouse`, `agent` and `otel`, on the Keeper host and the
ClickHouse host (two hosts, as the commands take them). A unit has a package
(`installed`), a config named by the settings it was rendered from (`conf[u]`), and what
it runs with (`up[u]`). In the data directories are `stored` (Keeper's metadata, the
schema of SigNoz, telemetry, the rows of `cluster_nodes` and the view that fills them, the
other views and dictionaries of the DDL), the metadata `tables` and the `settings` of
the row 'global'. The program is `prog`, `args`, `pc`, `unit`, `next`,
`link`; `older` and `restarted` are history variables, which name the two exceptions of
`AsAsked`.

| Code | Actions |
|---|---|
| `install`, `post-install`, `uninstall`, past their prompts | `Begin`, `Connect`, `AfterInstall`, `AfterRemove`, `FirstStep` |
| `InstallKeeper`, `InstallClickHouse`, `InstallAgent`, `InstallOtelAgent` | `Package`, `Config`, `Start`, `Check`, once per unit |
| `RunPostInstall` | `ApplyDDL`, `ApplyFile`, `InsertRow`, `AfterSQL` |
| `sql/clickhouse-ddl.sql` | `WithoutNodeView`, `NodesTruncated`, `NodeViewCreated`, in its order; `BrokenOff`, where it may end |
| `UninstallClickHouse`, `UninstallKeeper` | `StopUnit`, `Purge`, `RemoveConfig`, `Wipe`, once per unit |
| the executors | `Skipped`, `Sets`, `DropLink` |
| SigNoz, collectors, the user, the agent | `DeploySigNoz`, `Collect`, `SaveSettings`, `AgentRestartsClickHouse` |

The step lists of the four installers have the same shape, and one set of actions
stands for all. They differ in what is modelled as a difference: the agent is an
uploaded binary (`Package`), the OTel agent is restarted and the others are started
(`StartedNow`), the errors of the start of ClickHouse are dropped (`Start`).

The DDL is made to be run again: its tables are created if they do not exist, its views
are dropped and created. One table it also empties, `cluster_nodes`, in every run
(`sql/clickhouse-ddl.sql:143`), and `clickhouse-client` ends at the first statement that
fails. `cluster_nodes` has no TTL and is filled by its view from the metrics that come in
afterwards; it is the one exception `KeptUntilRemoved` makes, and an honest success
(`DoneMeansInstalled`) includes that the view which fills it is there again. The tables
behind the other views are not touched; what comes in while a view is missing passes
them by, which is not modelled.

Assumed of what is not in the repository: a package may restart a service that runs or
leave it alone, and a purge may leave its process; `systemctl start` does nothing to a
unit that runs; a server with its package and its config starts. The files of a unit's
config are written together or, when the last upload fails, all but that.

`Builds` is the set of SQL files a build embeds under the names `post_install.go` asks
for. As the repository stands it is empty (see below), and post-install always fails at
its second step; the other build is the one that was meant.

### TLSSetup

The cluster is `namespace`, `certManager`, `caSecret`, `issuers`, `certificate` with
its condition `ready`, the Secret the collector serves, `secret`, and `granted`, the
permissions at the DNS provider. The program is `pc`, `args` and `outcome`. A Secret is
its signer and domain, and for a customer's whether `ca.crt` was added.

| Code | Actions |
|---|---|
| `RunE` of `setup` | `Begin`, `Return` |
| `EnsureNamespace`, `InstallCertManager` | the same |
| `SetupExisting` | `DeleteSecret`, `CreateSecret`, `PatchSecret` |
| `SetupSelfsigned`, `SetupPrivateCA`, `SetupLetsEncrypt` | `DeleteCASecret`, `CreateCASecret`, `ApplyIssuer`, `ApplyCertificate`, `WaitForCertificate` |
| cert-manager, Kubernetes, the operator | `Issue`, `Renew`, `Observe`, `PodsReady`, `Grant` |

Every call may fail without effect. Of the two `delete`s, and of `helm repo`, nobody
looks at the error. Interrupting the program is the next call failing. A failed
`helm install` leaves nothing, CRDs without pods, or all of it.

Assumed of cert-manager, which is not in the repository: it issues a Secret that is
missing, or whose issuer or domain is not that of the Certificate, and does not look at
who made it; it does not issue again because a CA Secret behind an issuer changed;
renewals happen at some time; without its pods its webhook refuses its resources.
`kubectl wait` does not take a condition of an older spec, so `ApplyCertificate` with
another spec resets `ready`; it does take one that is older than a deleted Secret.
The names of namespace and Secret are the same in all runs.

## Runs

| Run | Shows | Bounds |
|---|---|---|
| `backup_safety` | no loss, permanent tables kept, one owner per backup, honest status, open partitions kept, refinement of `ColdArchive` | 2 loops, 2 days, 1 table of each kind, 1 partition per cycle |
| `backup_live` | old partitions are archived, SIGTERM ends loops | 1 loop, 3 days, a backlog longer than a cycle takes |
| `backup_starvation` | *violation*: permanent partitions starve newer ones | permanent tables only |
| `s3_activation` | success is real, failure is undone, files stay bootable, actions end | 2 attempts, 4 scenarios |
| `agent_daemon` | start and stop alternate, polls are never refused, the scheduler follows the row | 3 starts, 2 saves, 1 restart |
| `agent_zombie` | *violation*: a stopped loop goes on beside its successor | as above |
| `agent_glacier` | *violation*: Glacier comes back on | as above |
| `upgrade` | success is real, rollback restores, a working version is always there, migrations are in order, runs end | 2 working versions and a broken one, 2 migrations, 2 scenarios |
| `upgrade_command` | *violation*: a failed `mv` is reported as success | command faults only |
| `tls_setup` | success means the Secret is or comes to be as asked, and can be renewed | 2 domains, 2 CAs |
| `glacier_cron` | with the script beside the agent nothing is lost, one owner per backup, honest status, refinement of `ColdArchive` | 1 loop, 1 run at a time, 2 days, 1 table of each kind |
| `installer` | success is real, uninstall leaves nothing, data is kept (but for `cluster_nodes`), a clean run succeeds over any leftovers | 1 faulty run among any number of clean ones, 1 setting, 2 SQL files, 3 scenarios |

Bounds, and why they are enough to meet the cases:

* `MaxStarts` = 2 loops of the scheduler at once is what it takes for a shared backup
  name and a shared partition; three in the daemon, so that a start, a stop, a start
  and a restart all fit. A channel number is reused after a restart only.
* `MaxDay`: one day that is old enough and one that is not (`backup_safety`); two that
  are old enough and one slot per cycle (`backup_live`). What more days, tables and
  loops do to safety is what the proofs answer.
* `MaxPartitionsPerRun` is 1 instead of 7, so that a backlog is one partition more.
* `maxRetries` is 2 instead of 3: a first attempt, a last one, and the `.bak` files
  of the second made from what the first left.
* `MaxSaves`, `MaxRestarts`: the user turns Glacier off and on again; one crash.
* `agent_*` runs have no tables: the cycles then are query and status, which is all the
  daemon sees of them; `backup_*` checks their inside.
* `backup_starvation` has only a permanent table. The partition whose turn never comes
  is any later one; that a droppable partition is never dropped follows the same way.
* `upgrade` has no bound on the number of runs. Two working versions and a broken one
  are what a run can find, install and restore; two migrations, that one may be applied
  before another. Its scenarios are the faults some property holds under; "command" is
  the subject of `upgrade_command`.
* `glacier_cron` has one loop and one run of the script, which meet in every order; more
  of both is what the proofs are for.
* `installer` bounds the runs with faults to one (`MaxFaultyRuns`) and no others: what a
  faulty run leaves is met by every program, again and again. With one setting, `older`
  only holds units whose config was removed under them; other settings are covered by
  the proofs. Two SQL files are one before and one after the row. One row of
  `cluster_nodes` stands for all: the truncate takes all of them.
* `tls_setup` has no bound on runs, renewals or failures. Two domains and two CAs are
  the old one and the new one.
* The instances stop at their bounds, where a loop may have ended for good and the
  calendar be over; still no run has a deadlock, since the process may always be
  restarted and its settings changed, so deadlock is checked everywhere.

### Fairness

* A goroutine with a step to make makes one (`WF` of `RunLoop(l)`, `Main`, `AgentStep`,
  `Poll`, and `Step` of the upgrade and of the installers): the Go scheduler, commands and waits that end.
* `select` picks among its ready cases at random: `SF` of `SelectDone(l)`. Nothing of
  the kind is assumed of `SelectStop`.
* A query or command tried again and again succeeds in the end: `SF` of
  `QueryPartitions`, `CreateBackup`, `Upload`, `DropTable`, `PollLifecycle`. That is
  what "retry on the next cycle" relies on.
* systemd starts a stopped service again: `WF` of `Restart` once stopped.
* cert-manager gets to a Certificate it can issue: `WF` of `Issue`. `Renew` has no
  fairness: a renewal may be a year away.
* Nothing is assumed of users, collectors, signals, the clock or crashes.
* `CleanRunSucceeds` needs `Step` alone: a run without faults is not held up by others.
* `ActionEnds` relies on the weak fairness alone, in every scenario of faults.

## What is proved

`BackupSchedulerProofs` proves, for all sets of tables, all bounds, any number of
loops and any lateness (from `TablesAssumption`, `BoundsAssumption`,
`FrequencyAssumption`, `LatenessAssumption`):

| Theorem | States |
|---|---|
| `Invariance` | `Spec => []IInv` |
| `TypeCorrectness` | `Spec => []TypeOK` |
| `NoLoss` | `Spec => []NoDataLoss` |
| `MetadataKept` | `Spec => []BackupOnlyKept` |
| `Ownership` | `Spec => []OneOwnerPerBackup` |
| `HonestStatus` | `Spec => []SuccessMeansArchived` |
| `OpenPartitionsKept` | `Spec => NeverDropsOpenPartition` |
| `Refinement` | `Spec => ImplementsColdArchive` |

The argument. `NoDataLoss` is not inductive: a loop may drop a table's partition
because its own upload stored it. That the upload stored *all* of it needs three facts,
which `IInv` adds. `SnapshotComplete`: the local backup a loop is about to upload
holds all ClickHouse still has of the partition, and after the upload the bucket
does. Nobody adds to the partition meanwhile: `TargetsClosed`, which rests on the
lateness assumption and on a config being fixed for the life of a loop (`LiveConfig`).
Nobody removes or replaces the local backup meanwhile: `OneOwnerPerBackup`, which
rests on `create` refusing a name that exists and on a loop's name existing while
it works on it (`CyclePlan`). Another loop that drops the same partition only makes the
obligation smaller. `OnlyIngested` serves the refinement, whose steps are `Ingest` to
`Arrive`, `Upload` and `UploadFail` to `Archive`, `DropTable` to `Expire`, and all
others to stuttering.

Each action has a lemma, and the actions that leave the store alone share one.

`BackupCycleProofs` goes on from there, with `FiniteAssumption` (there are finitely many
`DROP_TABLES`):

| Theorem | States |
|---|---|
| `CycleIsCapped` | `Spec => []TakesAtMost`: no cycle takes more than `MaxPartitionsPerRun` partitions |
| `CycleGoesOn` | `Spec => []NextPartition`: until it comes to the status a cycle has a partition to go on with |
| `CycleIsBounded` | a count of the steps a cycle has left, which each of its steps lowers |
| `StatusIsTrue` | `Spec => WrittenStatusIsTrue`: "success" and "failed" are true when they are written |
| `YoungerDaysWait` | `Spec => CrowdedNeverTaken`: no cycle takes a day behind `MaxPartitionsPerRun` days of metadata |
| `StarvedForever` | such a day stays where it is, once no loop works on it |

`CycleStep` says what one step does to the loop that makes it, and `CycleInv` what holds
of a loop at each point of a cycle; both are stated of a loop's record alone, so the
rest is arithmetic. `Oldest` needs a least and a greatest day of a set of days. The
induction behind that is the library's theorem that the strict subset ordering of finite
sets is well-founded, used on the intervals `0 .. d`. `YoungerDaysWait` combines three
facts: metadata is never dropped (`BackupOnlyKept`), so its days are in every answer of
the query; a query that is cut off keeps the older days; and `Oldest` counts those. It is
the finding of the run `backup_starvation`, for all instances.

`GlacierCronProofs` proves, for any number of runs of the script besides (from
`CronFrequencyAssumption` and the assumptions of `BackupScheduler`):

| Theorem | States |
|---|---|
| `HostInvariance` | `HostSpec => []HostInv` |
| `HostTypeCorrectness` | `HostSpec => []HostTypeOK` |
| `HostNoLoss` | `HostSpec => []NoDataLoss` |
| `HostOwnership` | `HostSpec => []OneOwnerPerDate` |
| `ScriptHonest` | `HostSpec => []ScriptSuccessArchived` |
| `HostOpenPartitionsKept` | `HostSpec => NeverDropsOpenPartition` |
| `HostRefinement` | `HostSpec => ImplementsColdArchive` |
| `ScriptIsBounded` | a count of the steps a run of the script has left, which each of its steps lowers |
| `HostCycleIsBounded` | `CycleIsBounded`, with the script beside the agent |
| `HostStatusIsTrue` | a "success" in the row they share is true when it is written, whoever writes it |
| `HostYoungerDaysWait` | `CrowdedNeverTaken`, with the script beside the agent |

`HostInv` is the invariant of the agent and `ScriptInv`. The argument is rely-guarantee.
Each step of either side is `Monotone` (the clock and the bucket grow, nothing is added
to a partition that is closed), keeps every local backup it does not own, and takes one
only under a name that does not exist (`AgentGuarantee`, `ScriptGuarantee`); under such
steps what `HostInv` says of the loops and runs that did not move holds on. That a step
of the agent keeps the agent's own invariant is cited from `BackupSchedulerProofs`, and
the results about its cycles carry over because a step of the script moves no loop.

`S3ActivatorProofs` proves, for all buckets, numbers of attempts and scenarios of faults
(from `BucketsAssumption`, `RetriesAssumption`):

| Theorem | States |
|---|---|
| `ActivatorInvariance` | `Spec => []IInv` |
| `ActivatorTypes` | `Spec => []TypeOK` |
| `ActivationIsReal` | `Spec => []ActiveMeansRunning` |
| `FailureIsUndone` | `Spec => []FailedActivateRestores` |
| `DeactivationIsReal` | `Spec => []DeactivateRemovesS3` |
| `AlwaysBootable` | `Spec => []BootableConfig` |
| `ActionIsBounded` | at most `9 * maxRetries + 2` steps to the end of an action, each lowers the count |
| `CleanActionsSucceed` | `Spec => []CleanActions`: without faults no action fails or retries |

The properties speak of the end of an action, and each has a conjunct of `IInv` that
carries it there. `Forward`: from the write on the files are those of the row the action
was dispatched with, and a server that restarted since has its bucket or none.
`BackedUp`: each attempt copies the files to `.bak`, and they are those of the first
because the attempt before has put them back; this is the induction over the retries.
`Bootable`: a `.bak` of the S3 template never stands beside one of an empty `s3.env`,
which fails for a moment between the two copies, hence the exception and the premise
that nothing crashes there. `Clean`: when nothing but restarts fail, Activate writes
only over files that are not the S3 ones. `CleanActionsSucceed` shows that the failures the
other theorems speak of come from outside: no order of requests and restarts makes the
agent fail by itself.

`AgentDaemonProofs` proves, for all settings and any number of saves and restarts (from
`DaemonBounds`):

| Theorem | States |
|---|---|
| `DaemonInvariance` | `Spec => []IInv` |
| `DaemonTypes` | `Spec => []TypeOK` |
| `StartsAlternate` | `Spec => []SchedulerInStep` |
| `NeverBusy` | `Spec => []ReadyToPoll` |
| `SchedulerIsUsedAsAssumed` | `Spec => BS!Spec` |
| `SchedulerFollowsRowSeen` | `Spec => []SchedulerAsSeen`: at the ticker the scheduler is as the row seen last wants it |
| `PollIsBounded` | at most ten steps from one tick to the next, each lowers the count |

The poller compares two rows and never asks the scheduler. `Settled` ties them: the
scheduler runs if and only if the row seen last enabled Glacier, unless an action that
will make it so is queued or being executed, and then there is one only (`QueueOK`,
`ActionOK`). That a row's `glacier` is 0 or 1 whoever wrote it comes from the loops, which
write the row they were started with (`Sched`). The last theorem is the refinement that
composes the two modules: the daemon calls `Start`, `Stop` and the rest as `Control` of
`BackupScheduler` says, with the rows `Polled` allows, so that what is proved of the
scheduler's specification holds of the scheduler inside the daemon, and so does the
refinement of `ColdArchive`.

`UpgradeProofs` proves, for all versions and migrations and every scenario of faults
(from `VersionsAssumption`, `MigrationsAssumption`):

| Theorem | States |
|---|---|
| `Invariance` | `Spec => []IInv` |
| `TypeCorrectness` | `Spec => []TypeOK` |
| `HonestSuccess` | `Spec => []SuccessMeansRunning` |
| `RollbackRestores` | `Spec => []RolledBack` |
| `NoVersionLost` | `Spec => []WorkingVersionKept` |
| `OrderedMigrations` | `Spec => []MigrationsInOrder` |
| `RunIsBounded` | at most `StepsOfRun` steps to the end of a run, each lowers the count |
| `CleanUpgradeSucceeds` | `Spec => []CleanUpgrade`: without faults a working version is never rolled back |

The properties speak of the end of a run, so `IInv` says for each `pc` what the file,
the `.bak` and the service are. `BakMade` (the `.bak` is the version the run found, from
`cp` to `mv` back) is what a rollback needs, and holds while the connection does;
`FileOld` covers a connection lost before the `mv`. `Stopped` and `Fresh` carry success:
`systemctl start` starts the new file only because the agent was stopped, and thus
whoever answers the health check is the new version. `Kept` states `WorkingVersionKept` for
all versions found, working or not, which is inductive.

`InstallerProofs` proves, for all settings, builds, requests, fault scenarios and numbers
of SQL files and of faulty runs (from the six assumptions of `Installer`):

| Theorem | States |
|---|---|
| `InstallerInvariance` | `Spec => []IInv` |
| `InstallerTypes` | `Spec => []TypeOK` |
| `SuccessIsReal` | `Spec => []DoneMeansInstalled` |
| `UninstallIsComplete` | `Spec => []UninstallLeavesNothing` |
| `DataIsKept` | `Spec => KeptUntilRemoved` |
| `CleanRunsStayOnCourse` | a run without faults that finds what it needs can only end in success |
| `RunIsBounded` | at most `MetaFiles + 18` steps to the end of a run, each lowers the count |

A run reports success at its last unit, and the others must still be as it left them,
with the agent restarting ClickHouse meanwhile. `BuiltSoFar` says it of the units behind
the run, and of every unit (`Settled`) that it runs with the settings asked for unless
it has one of the two excuses; `SchemaSoFar` says that the tables before `next` exist.
`RemovedSoFar` follows an uninstall in its order: what is past is gone, what is stopped
stays stopped, but for a ClickHouse that the agent brings back before it is stopped
itself. `DataIsKept` needs of the invariant only that the steps of removal belong to
an uninstall and the DDL to post-install, and of the DDL (`DDLTouches`) that wherever it
ends it has touched views and `cluster_nodes` alone.

`TLSSetupProofs` proves, for all domains and CAs (from `CAsAssumption` and
`NoneAssumption`, which keep names apart):

| Theorem | States |
|---|---|
| `Invariance` | `Spec => []IInv` |
| `TypeCorrectness` | `Spec => []TypeOK` |
| `HonestSuccess` | `Spec => []SuccessMeansRenewable` |
| `HonestExisting` | `Spec => []CustomerServed` |
| `IssuanceStaysPossible` | what is promised after a run can be issued until it is, and then stays |

That cert-manager can issue what was asked for is known at the end of a run from its
`ready` alone, which may be an old one. `IInv` says what even an old one guarantees:
the issuer is there and cert-manager ran when it was applied (`IssuerFirst`), for
letsencrypt the permissions are there, since a Secret of it exists or existed
(`GrantedFirst`, `ReadyIssued`), and the rest the run has done itself (`CAGiven`,
`SpecApplied`). `CustomerMade` is what cert-manager leaves alone without a Certificate.

## What is only model-checked, and what is not modelled

Liveness under fairness (`EligibleArchived`, `CancelEndsLoops`, `ActionEnds`,
`FollowsRow`, `RunEnds`, `CleanRunSucceeds`, `SuccessIsServed`) stays with TLC. Its safety
half is proved for most of them, which is all that does not need `ENABLED` or the
induction over a count:

| Property | What of it is proved |
|---|---|
| `ActionEnds`, `RunEnds` | each step lowers a count that is 0 only at the end (`ActionIsBounded`, the two `RunIsBounded`); only that the next step is enabled is left to TLC |
| `CleanRunSucceeds` | the same, and that a clean run cannot leave its course (`CleanRunsStayOnCourse`) |
| `FollowsRow` | `PollIsBounded`, `SchedulerFollowsRowSeen` |
| `SuccessIsServed` | that issuing is possible, suffices and is not undone (`IssuanceStaysPossible`) |
| `EligibleArchived` | that cycles end and never stall (`CycleIsBounded`, `CycleGoesOn`), not that they reach every partition; `StarvedForever` says when they do not |
| `CancelEndsLoops` | that the cycle the loop is in ends (`CycleIsBounded`); that it then chooses the context is a matter of the fairness of `select` |

Every invariant and every action property of the passing runs is proved.

Not modelled: the health server, which changes nothing; the heartbeat row, which the
agent does not read; prompts, flags and `--dry-run`; the texts of config files and SQL
views; AES-GCM; the Helm charts, which are declarative and mostly vendored.

Met on the way and not expressed as runs:

* `sql/*.sql` create the database `ko11y` and default `config_id` to `'global'`, while
  the agent reads `k_o11y.s3_config WHERE config_id = 'warm'` (`agent/poller.go:103-104`)
  and `installer/post_install.go:57` inserts into `k_o11y`.
* `installer/post_install.go:54` reads embedded files named `k-o11y-*.sql`, which are
  embedded as `ko11y-*.sql`: as built, post-install fails at its second step. `Builds`
  keeps that build beside the one that was meant.
* Deactivate without a `.bak` removes `storage.xml` although it is the host's own
  (`agent/s3_activator.go:376`): settings saved and turned off without an activation
  dispatch it. The comment above speaks of a file that did not exist before.
* `SetupExisting` leaves the Certificate of an earlier run, which names the same Secret:
  cert-manager issues it again over the customer's (`existing.go:34`), while `setup.go:31`
  says that mode existing needs no cert-manager. It is why `CustomerServed` speaks of a
  cluster without a Certificate.
* Running `install` again empties bucket and keys in the config of `clickhouse-backup`
  (`installer/clickhouse.go:204-228`); the agent writes them when it activates S3, which
  it skips when S3 is active. It keeps a running Keeper, ClickHouse or agent on its old
  config, since it only starts them (the exception `older`).
* A failed `clickhouse-backup` lookup (`installer/clickhouse.go:186`) dereferences a nil
  result: the run ends, as a failed one.
* Every post-install empties `cluster_nodes` (`sql/clickhouse-ddl.sql:143`): the nodes of
  all clusters are unknown until their next `kube_node_info`, and those that no longer
  report are forgotten. No document promises otherwise, so this is an exception of
  `KeptUntilRemoved` and not a finding. A DDL that fails after that line and before the
  view is created again (line 155) leaves the table empty and nothing to fill it, until
  a post-install that succeeds; one that fails elsewhere may leave out views or
  dictionaries it had dropped (`BrokenOff`).
* Every run of the DDL sets the watermark of the batch job to 15 minutes ago
  (`sql/clickhouse-ddl.sql:400`), whatever the job had reached, and drops the network
  views of an earlier release (lines 30-32). The job (`network-batch-cronjob.yaml`) is not
  in the repository: its watermark is not among `Stored`.
* `uninstall` over a lost connection still reports success, and stops the agent only
  after ClickHouse is removed (`installer/uninstall.go:63`). One that removed the config
  and not the package leaves a ClickHouse which the agent can restart into a failure;
  that is why `Ready` asks for the config.
* The cron script promises a status 'failed' and an alert (its header, lines 10-11), and
  ends without either when it runs on cached settings (`set -u`, `COLD_DAYS`), when the
  count of parts fails, or when there is no shadow directory (`pipefail`; the local backup
  stays and blocks its date). It writes 24 over the user's frequency. It looks at one date
  a day, so a day it misses is left to the agent.
* `Activate` returns without resetting the request when an S3 disk is active already
  (`agent/s3_activator.go:101`), while `agent/poller.go:21` says the agent resets it.
* `upgradeDBAgent` returns with the agent stopped when the upload fails
  (`installer/upgrade.go:113`), while `src/README.md:381` promises a rollback.
* `SetupPrivateCA` with another CA finds the Certificate unchanged and Ready and reports
  success while the Secret of the old CA is served until its renewal; one that fails
  between `delete` and `create` of the CA Secret leaves a Certificate that cannot be renewed.
* `updateStatus` has a counterpart in `resetActivateRequested`, which saves the settings
  the action was dispatched with (`agent/s3_activator.go:228`); a failed activation restores
  the files and does not restart ClickHouse; no heartbeat is written meanwhile.

## Plan

1. Done: `ColdArchive`, `BackupScheduler` and its proofs, `S3Activator` and its proofs,
   `AgentDaemon`.
2. Done: `Upgrade` and its proofs; `TLSSetup` and its proofs.
3. Done: `GlacierCron` and its proofs; `Installer` and its proofs.
4. Done: the proofs about `AgentDaemon`; `BackupCycleProofs`; the bounds on cycles, polls,
   actions and runs, and what runs without faults come to.
5. Left: the upgrade and the installers in one specification, as they work on the same
   units; the activation of S3 beside the backup cycles it restarts ClickHouse under.
