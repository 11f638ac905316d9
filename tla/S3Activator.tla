---------------------------- MODULE S3Activator ----------------------------
(***************************************************************************)
(* S3 tiering: Activate and Deactivate of the DB agent                     *)
(* (internal/agent/s3_activator.go), and the poll of s3_config that starts *)
(* them (internal/agent/poller.go).                                        *)
(*                                                                         *)
(* The poller compares the row with the one it saw last: activation is     *)
(* asked for by activate_requested going from 0 to 1, deactivation by      *)
(* s3_enabled going from 1 to 0.                                           *)
(*                                                                         *)
(* Activate copies storage.xml and s3.env to .bak, writes the S3 versions, *)
(* restarts ClickHouse, waits for it and looks for an S3 disk; when a step *)
(* fails it restores the .bak files and tries again, maxRetries times in   *)
(* all.  Deactivate restores the .bak files and restarts ClickHouse.       *)
(* ClickHouse reads the two files when it starts and at no other time.     *)
(*                                                                         *)
(* A file is named by what it holds: storage.xml is absent, the host's own *)
(* ("orig") or the S3 template; s3.env is empty or holds the credentials   *)
(* of a bucket.  An error leaves a file as it was or as it was to become.  *)
(***************************************************************************)
EXTENDS Integers, FiniteSets

CONSTANTS
    Buckets,        \* buckets a user may configure
    maxRetries,     \* attempts of one Activate (3 in the code)
    FaultScenarios  \* sets of faults that may happen together

None  == "none"
Empty == "empty"

(* "copy": a sudo cp, mv, chmod, rm or truncate fails.                     *)
(* "query": a query fails although the server is up.                       *)
(* "restart": systemctl fails, the server does not start or is slow.       *)
(* "key": the credentials of the row do not decrypt.                       *)
(* "cancel": the agent gets SIGTERM.  "crash": the agent dies at any point.*)
FaultKinds == {"copy", "query", "restart", "key", "cancel", "crash"}

ASSUME BucketsAssumption == Buckets \cap {None, Empty} = {}
ASSUME RetriesAssumption == maxRetries \in Nat \ {0}
ASSUME FaultsAssumption  == FaultScenarios \subseteq SUBSET FaultKinds

VARIABLES
    (* the host *)
    storage,     \* storage.xml
    storageBak,  \* storage.xml.bak
    env,         \* s3.env
    envBak,      \* s3.env.bak
    backupCfg,   \* bucket in the config.yml of clickhouse-backup
    chUp,        \* ClickHouse is running
    disk,        \* bucket of the S3 disk ClickHouse started with
    row,         \* the 'warm' row of s3_config
    (* the agent *)
    pc,          \* next step
    last,        \* lastS3Config: the row seen last, payload of the action
    attempt,     \* of Activate, from 1; 0 outside Activate
    cancelled,   \* ctx has been cancelled
    (* history *)
    outcome,     \* what the last action reported
    before,      \* storage.xml and s3.env at the start of Activate
    faults       \* the scenario

hostVars == <<storage, storageBak, env, envBak, backupCfg, chUp, disk>>
ctlVars  == <<pc, last, attempt, cancelled, outcome, before>>
vars == <<storage, storageBak, env, envBak, backupCfg, chUp, disk, row,
          pc, last, attempt, cancelled, outcome, before, faults>>

S3Config     == [bucket : Buckets, enabled : {0, 1}, requested : {0, 1}]
NoConfig     == [bucket |-> None, enabled |-> 0, requested |-> 0]
NoFiles      == [storage |-> None, env |-> Empty]
StorageFiles == {None, "orig", "s3"}
EnvFiles     == {Empty} \cup Buckets
Outcomes     == {None, "active", "skipped", "activateFailed", "inactive", "deactivateFailed"}
PCs == {"idle", "check", "decrypt", "bakStorage", "bakEnv", "writeStorage", "writeEnv",
        "restart", "wait", "verify", "backupConfig", "reset", "undoStorage", "undoEnv"}

TypeOK ==
    /\ storage \in StorageFiles /\ storageBak \in StorageFiles
    /\ env \in EnvFiles /\ envBak \in EnvFiles \cup {None}
    /\ backupCfg \in Buckets \cup {None}
    /\ chUp \in BOOLEAN
    /\ disk \in Buckets \cup {None}
    /\ row \in S3Config
    /\ pc \in PCs
    /\ last \in S3Config \cup {NoConfig}
    /\ attempt \in 0 .. maxRetries
    /\ cancelled \in BOOLEAN
    /\ outcome \in Outcomes
    /\ before \in [storage : StorageFiles, env : EnvFiles]
    /\ faults \in FaultScenarios

(* The installer leaves an empty s3.env and no storage.xml; the host may   *)
(* have one of its own.                                                    *)
Init ==
    /\ storage \in {None, "orig"} /\ storageBak = None
    /\ env = Empty /\ envBak = None
    /\ backupCfg = None
    /\ chUp = TRUE /\ disk = None
    /\ row \in {r \in S3Config : r.enabled = 0 /\ r.requested = 0}
    /\ pc = "idle" /\ last = NoConfig /\ attempt = 0 /\ cancelled = FALSE
    /\ outcome = None
    /\ before = NoFiles
    /\ faults \in FaultScenarios

-----------------------------------------------------------------------------
(* ClickHouse and the user.                                                *)

(* With the S3 storage.xml the server needs the credentials of s3.env.     *)
Boot ==
    \/ storage # "s3" /\ chUp' = TRUE /\ disk' = None
    \/ storage = "s3" /\ env # Empty /\ chUp' = TRUE /\ disk' = env
    \/ storage = "s3" /\ env = Empty /\ chUp' = FALSE /\ disk' = None
    \/ "restart" \in faults /\ chUp' = FALSE /\ disk' = None

Forget == outcome' = None /\ before' = NoFiles

(* Somebody else restarts the server or the machine, or systemd brings a   *)
(* server that is down up again.                                           *)
Reboot ==
    /\ pc = "idle"
    /\ Boot
    /\ Forget
    /\ UNCHANGED <<storage, storageBak, env, envBak, backupCfg, row,
                   pc, last, attempt, cancelled, faults>>

(* The settings page: Save, Activate and turning S3 off are three acts.    *)
SaveS3(r) ==
    /\ row # r
    /\ r.requested = 1 => r.enabled = 1
    /\ row' = r
    /\ UNCHANGED <<hostVars, ctlVars, faults>>

SeesS3Disk  == chUp /\ disk # None /\ ~cancelled
MayMissDisk == ~SeesS3Disk \/ "query" \in faults
CopyFails   == "copy" \in faults

-----------------------------------------------------------------------------
(* Control flow of an action.                                              *)

Goto(p) == pc' = p /\ UNCHANGED <<last, attempt, cancelled, outcome, before>>

Return(result) ==
    /\ pc' = "idle"
    /\ outcome' = result
    /\ attempt' = 0
    /\ UNCHANGED <<last, cancelled, before>>

(* An attempt of Activate is rolled back; Deactivate gives up.             *)
Fail ==
    \/ attempt > 0 /\ Goto("undoStorage")
    \/ attempt = 0 /\ Return("deactivateFailed")

(* Mutants: a retry too many, and retries that are not counted.            *)
NextAttemptTooMany ==
    \/ /\ attempt <= maxRetries
       /\ pc' = "bakStorage"
       /\ attempt' = attempt + 1
       /\ UNCHANGED <<last, cancelled, outcome, before>>
    \/ attempt > maxRetries /\ Return("activateFailed")

NextAttemptUncounted ==
    \/ attempt < maxRetries /\ Goto("bakStorage")
    \/ attempt = maxRetries /\ Return("activateFailed")

(* The rollback of an attempt is over, with or without an error.           *)
NextAttempt ==
    \/ /\ attempt < maxRetries
       /\ pc' = "bakStorage"
       /\ attempt' = attempt + 1
       /\ UNCHANGED <<last, cancelled, outcome, before>>
    \/ attempt = maxRetries /\ Return("activateFailed")

-----------------------------------------------------------------------------
(* The poll of s3_config.                                                  *)

(* The first poll of a process honours a request that is pending.          *)
AsksActivate ==
    /\ row.requested = 1
    /\ last = NoConfig \/ last.requested = 0

AsksDeactivate ==
    /\ row.enabled = 0
    /\ last # NoConfig /\ last.enabled = 1

Poll ==
    /\ pc = "idle" /\ chUp /\ ~cancelled
    /\ last' = row
    /\ outcome' = None
    /\ \/ /\ AsksActivate
          /\ pc' = "check"
          /\ before' = [storage |-> storage, env |-> env]
       \/ /\ AsksDeactivate
          /\ pc' = "undoStorage"
          /\ before' = NoFiles
       \/ /\ ~AsksActivate /\ ~AsksDeactivate
          /\ pc' = "idle"
          /\ before' = NoFiles
    /\ UNCHANGED <<hostVars, row, attempt, cancelled, faults>>

-----------------------------------------------------------------------------
(* Activate.                                                               *)

(* Mutant: no check for an S3 that is active already.                      *)
IsS3ActiveUnasked ==
    /\ pc = "check"
    /\ Goto("decrypt")
    /\ UNCHANGED <<hostVars, row, faults>>

(* isS3Active: an error of the query counts as "not active".               *)
IsS3Active ==
    /\ pc = "check"
    /\ \/ SeesS3Disk /\ Return("skipped")
       \/ MayMissDisk /\ Goto("decrypt")
    /\ UNCHANGED <<hostVars, row, faults>>

DecryptCredentials ==
    /\ pc = "decrypt"
    /\ \/ "key" \in faults /\ Return("activateFailed")
       \/ /\ pc' = "bakStorage"
          /\ attempt' = 1
          /\ UNCHANGED <<last, cancelled, outcome, before>>
    /\ UNCHANGED <<hostVars, row, faults>>

(* backupFile: an absent file has no backup and a failed copy is ignored.  *)
BackupStorage ==
    /\ pc = "bakStorage"
    /\ \/ storage # None /\ storageBak' = storage
       \/ (storage = None \/ CopyFails) /\ UNCHANGED storageBak
    /\ Goto("bakEnv")
    /\ UNCHANGED <<storage, env, envBak, backupCfg, chUp, disk, row, faults>>

BackupEnv ==
    /\ pc = "bakEnv"
    /\ envBak' = env \/ (CopyFails /\ UNCHANGED envBak)
    /\ Goto("writeStorage")
    /\ UNCHANGED <<storage, storageBak, env, backupCfg, chUp, disk, row, faults>>

(* writeFileSecure: mv, then chmod and chown, which may fail after the     *)
(* file is in place.                                                       *)
WriteStorage ==
    /\ pc = "writeStorage"
    /\ \/ storage' = "s3" /\ Goto("writeEnv")
       \/ CopyFails /\ storage' \in {storage, "s3"} /\ Fail
    /\ UNCHANGED <<storageBak, env, envBak, backupCfg, chUp, disk, row, faults>>

WriteEnv ==
    /\ pc = "writeEnv"
    /\ \/ env' = last.bucket /\ Goto("restart")
       \/ CopyFails /\ env' \in {env, last.bucket} /\ Fail
    /\ UNCHANGED <<storage, storageBak, envBak, backupCfg, chUp, disk, row, faults>>

(* systemctl restart is not even started once the context is cancelled.    *)
RestartClickHouse ==
    /\ pc = "restart"
    /\ \/ ~cancelled /\ Boot /\ Goto("wait")
       \/ ~cancelled /\ "restart" \in faults /\ Boot /\ Fail
       \/ (cancelled \/ "restart" \in faults) /\ UNCHANGED <<chUp, disk>> /\ Fail
    /\ UNCHANGED <<storage, storageBak, env, envBak, backupCfg, row, faults>>

(* The wait ends when systemd calls the unit active, which may be too      *)
(* early, after maxRestartWait or when the context is cancelled.           *)
WaitActive ==
    /\ pc = "wait"
    /\ \/ (chUp \/ "restart" \in faults) /\ attempt > 0 /\ Goto("verify")
       \/ (chUp \/ "restart" \in faults) /\ attempt = 0 /\ Return("inactive")
       \/ (~chUp \/ cancelled \/ "restart" \in faults) /\ Fail
    /\ UNCHANGED <<hostVars, row, faults>>

(* Mutant: an active unit is taken for an S3 disk.                         *)
VerifyNothing ==
    /\ pc = "verify"
    /\ Goto("backupConfig")
    /\ UNCHANGED <<hostVars, row, faults>>

VerifyS3Disk ==
    /\ pc = "verify"
    /\ \/ SeesS3Disk /\ Goto("backupConfig")
       \/ MayMissDisk /\ Fail
    /\ UNCHANGED <<hostVars, row, faults>>

(* A failure is not fatal.                                                 *)
UpdateBackupConfig ==
    /\ pc = "backupConfig"
    /\ backupCfg' = last.bucket \/ (CopyFails /\ UNCHANGED backupCfg)
    /\ Goto("reset")
    /\ UNCHANGED <<storage, storageBak, env, envBak, chUp, disk, row, faults>>

(* Re-inserts the row the action was dispatched with.                      *)
ResetActivateRequested ==
    /\ pc = "reset"
    /\ \/ ~cancelled /\ row' = [last EXCEPT !.requested = 0]
       \/ (cancelled \/ "query" \in faults) /\ UNCHANGED row
    /\ Return("active")
    /\ UNCHANGED <<hostVars, faults>>

-----------------------------------------------------------------------------
(* Deactivate, and the rollback it shares with Activate.                   *)

(* Mutants: storage.xml is not removed, and s3.env is forgotten.           *)
UndoStorageKept ==
    /\ pc = "undoStorage"
    /\ storage' = IF storageBak = None THEN storage ELSE storageBak
    /\ Goto("undoEnv")
    /\ UNCHANGED <<storageBak, env, envBak, backupCfg, chUp, disk, row, faults>>

UndoEnvForgotten ==
    /\ pc = "undoEnv"
    /\ \/ attempt > 0 /\ NextAttempt
       \/ attempt = 0 /\ Goto("restart")
    /\ UNCHANGED <<hostVars, row, faults>>

(* Without a .bak the file is removed.  A failed cp ends the rollback, a   *)
(* failed rm does not.                                                     *)
UndoStorage ==
    /\ pc = "undoStorage"
    /\ \/ storage' = storageBak /\ Goto("undoEnv")
       \/ CopyFails /\ storageBak = None /\ UNCHANGED storage /\ Goto("undoEnv")
       \/ /\ CopyFails /\ storageBak # None /\ storage' \in {storage, storageBak}
          /\ \/ attempt > 0 /\ NextAttempt
             \/ attempt = 0 /\ Return("deactivateFailed")
    /\ UNCHANGED <<storageBak, env, envBak, backupCfg, chUp, disk, row, faults>>

(* Without a .bak s3.env is truncated.                                     *)
UndoEnv ==
    /\ pc = "undoEnv"
    /\ \/ env' = (IF envBak = None THEN Empty ELSE envBak)
       \/ CopyFails /\ UNCHANGED env
    /\ \/ attempt > 0 /\ NextAttempt
       \/ attempt = 0 /\ (envBak = None \/ env' = envBak) /\ Goto("restart")
       \/ attempt = 0 /\ envBak # None /\ CopyFails /\ Return("deactivateFailed")
    /\ UNCHANGED <<storage, storageBak, envBak, backupCfg, chUp, disk, row, faults>>

-----------------------------------------------------------------------------
(* The life of the process.                                                *)

Cancel ==
    /\ "cancel" \in faults
    /\ ~cancelled
    /\ cancelled' = TRUE
    /\ UNCHANGED <<hostVars, row, pc, last, attempt, outcome, before, faults>>

(* The process ends, after the action in progress or in the middle of it,  *)
(* and the service manager starts it again.                                *)
AgentRestart ==
    /\ pc = "idle" \/ "crash" \in faults
    /\ pc' = "idle"
    /\ attempt' = 0
    /\ cancelled' = FALSE
    /\ last' = NoConfig
    /\ Forget
    /\ UNCHANGED <<hostVars, row, faults>>

AgentStep ==
    \/ IsS3Active \/ DecryptCredentials
    \/ BackupStorage \/ BackupEnv \/ WriteStorage \/ WriteEnv
    \/ RestartClickHouse \/ WaitActive \/ VerifyS3Disk
    \/ UpdateBackupConfig \/ ResetActivateRequested
    \/ UndoStorage \/ UndoEnv

Next ==
    \/ Poll
    \/ AgentStep
    \/ Cancel
    \/ AgentRestart
    \/ Reboot
    \/ \E r \in S3Config : SaveS3(r)

Spec == Init /\ [][Next]_vars

(* The daemon polls again and again and runs an action to its end: every   *)
(* command returns, every wait is bounded.                                 *)
FairSpec == Spec /\ WF_vars(AgentStep) /\ WF_vars(Poll)

-----------------------------------------------------------------------------
(* Properties.                                                             *)

(* When Activate reports success and resets the request, ClickHouse is up  *)
(* on the files of this very request, in whatever order copies, queries,   *)
(* restarts or the process failed before.                                  *)
ActiveMeansRunning ==
    outcome = "active" =>
        /\ storage = "s3" /\ env = last.bucket
        /\ chUp /\ disk = last.bucket

(* An Activate that has failed maxRetries times leaves the files it found, *)
(* although each attempt overwrites the .bak files anew ("rollback         *)
(* restores the original config"), provided the copies themselves work.    *)
FailedActivateRestores ==
    ("copy" \notin faults /\ outcome = "activateFailed") =>
        before = [storage |-> storage, env |-> env]

(* Deactivate takes ClickHouse off S3: the .bak files never are those of   *)
(* an earlier activation as long as only restarts of the server fail.      *)
DeactivateRemovesS3 ==
    (faults \subseteq {"restart"} /\ outcome = "inactive") =>
        storage # "s3" /\ env = Empty /\ disk = None

(* Between two actions the files always let ClickHouse start, even after   *)
(* failed or cancelled activations.                                        *)
BootableConfig ==
    (faults \cap {"copy", "crash"} = {} /\ pc = "idle") =>
        ~(storage = "s3" /\ env = Empty)

(* Every action comes to an end, so that the daemon polls again.           *)
ActionEnds == (pc # "idle") ~> (pc = "idle")
=============================================================================
