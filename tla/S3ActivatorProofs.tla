------------------------- MODULE S3ActivatorProofs -------------------------
(***************************************************************************)
(* Proofs about S3Activator for any buckets, any number of attempts and    *)
(* any scenarios of faults: TypeOK, ActiveMeansRunning,                    *)
(* FailedActivateRestores, DeactivateRemovesS3 and BootableConfig, that    *)
(* every action ends, and that none fails unless what it calls does.       *)
(*                                                                         *)
(* The properties speak of the end of an action; the inductive invariant   *)
(* says what each step before has established: Forward what an attempt has *)
(* put in place, BackedUp what its rollback will find, Bootable which of   *)
(* the files and .bak files let ClickHouse start, and Clean how S3 is told *)
(* from the host's own storage when nothing but restarts fail.             *)
(***************************************************************************)
EXTENDS S3Activator, TLAPS

(* The steps of an action before its first attempt, and those of one.      *)
Prelude   == {"idle", "check", "decrypt"}
DoActivate == {"bakStorage", "bakEnv", "writeStorage", "writeEnv"}
Confirmed == {"backupConfig", "reset"}

(* The counter of attempts tells Activate from Deactivate; last is the row *)
(* the action is about.                                                    *)
FlowOK ==
    /\ pc \in Prelude => attempt = 0
    /\ pc \in DoActivate \cup {"verify"} \cup Confirmed => attempt > 0
    /\ pc # "idle" => outcome = None /\ last \in S3Config

(* What an attempt of Activate has put in place.                           *)
Forward ==
    /\ disk # None => chUp
    /\ pc = "writeEnv" => storage = "s3"
    /\ attempt > 0 /\ pc \in {"restart", "wait", "verify"} \cup Confirmed =>
           storage = "s3" /\ env = last.bucket
    /\ attempt > 0 /\ pc \in {"wait", "verify"} => disk \in {None, last.bucket}
    /\ pc \in Confirmed => chUp /\ disk = last.bucket

(* The files an attempt started from are in place until it writes, and in  *)
(* the .bak files until it is rolled back.                                 *)
BackedUp ==
    "copy" \notin faults =>
        /\ storageBak # None => storage # None
        /\ pc \in {"check", "decrypt"} \cup (DoActivate \ {"writeEnv"}) =>
               before = [storage |-> storage, env |-> env]
        /\ attempt > 0 /\ pc # "bakStorage" => storageBak = before.storage
        /\ attempt > 0 /\ pc \notin {"bakStorage", "bakEnv"} =>
               envBak = before.env
        /\ attempt > 0 /\ pc = "undoEnv" => storage = before.storage

Boots(s, e) == ~(s = "s3" /\ e = Empty)

(* The files, and the .bak files with what a rollback makes of them.       *)
Bootable ==
    faults \cap {"copy", "crash"} = {} =>
        /\ pc # "bakEnv" /\ storageBak = "s3" => envBak \notin {None, Empty}
        /\ pc \in Prelude => Boots(storage, env)
        /\ attempt = 0 /\ pc \in {"restart", "wait"} => Boots(storage, env)
        /\ attempt = 0 /\ pc = "undoEnv" => storage = storageBak
        /\ attempt > 0 => Boots(before.storage, before.env)

(* With failing restarts at most, Activate only starts from files that are *)
(* not the S3 ones, and so the .bak files never are.                       *)
Clean ==
    faults \subseteq {"restart"} =>
        /\ ~cancelled
        /\ storageBak # "s3" /\ envBak \in {None, Empty}
        /\ attempt > 0 => before.storage # "s3" /\ before.env = Empty
        /\ pc \in Prelude /\ storage = "s3" =>
               env # Empty /\ (chUp => disk # None)
        /\ pc \in Prelude /\ storage # "s3" => env = Empty
        /\ pc \in {"check", "decrypt"} => chUp
        /\ pc = "decrypt" => disk = None
        /\ attempt = 0 /\ pc \in {"undoEnv", "restart", "wait"} =>
               storage # "s3"
        /\ attempt = 0 /\ pc \in {"restart", "wait"} => env = Empty
        /\ attempt = 0 /\ pc = "wait" => disk = None

(* The inductive invariant.                                                *)
IInv ==
    /\ TypeOK
    /\ FlowOK
    /\ Forward
    /\ BackedUp
    /\ Bootable
    /\ Clean
    /\ ActiveMeansRunning
    /\ FailedActivateRestores
    /\ DeactivateRemovesS3
    /\ BootableConfig

-----------------------------------------------------------------------------
(* The server, the user and the poll.                                      *)

LEMMA RebootKeeps ==
    ASSUME IInv, Reboot
    PROVE  IInv'
<1>1. TypeOK'
  <2>1. chUp' \in BOOLEAN /\ disk' \in Buckets \cup {None}
    BY DEF Reboot, Boot, IInv, TypeOK, EnvFiles
  <2>2. before' \in [storage : StorageFiles, env : EnvFiles]
    BY DEF Reboot, Forget, NoFiles, StorageFiles, EnvFiles
  <2>. QED
    BY <2>1, <2>2 DEF Reboot, Forget, IInv, TypeOK, Outcomes
<1>2. FlowOK'
  BY DEF Reboot, IInv, FlowOK
<1>3. Forward'
  BY DEF Reboot, IInv, Forward, Boot, Confirmed
<1>4. BackedUp'
  BY DEF Reboot, IInv, BackedUp, FlowOK, Prelude
<1>5. Bootable'
  BY DEF Reboot, IInv, Bootable, FlowOK, Prelude
<1>6. Clean'
  BY BucketsAssumption
     DEF Reboot, IInv, Clean, TypeOK, FlowOK, Boot, Prelude, EnvFiles
<1>7. ActiveMeansRunning' /\ FailedActivateRestores' /\ DeactivateRemovesS3'
  BY DEF Reboot, IInv, ActiveMeansRunning, FailedActivateRestores,
         DeactivateRemovesS3, Forget, None
<1>8. BootableConfig'
  BY DEF Reboot, IInv, BootableConfig
<1>. QED
  BY <1>1, <1>2, <1>3, <1>4, <1>5, <1>6, <1>7, <1>8 DEF IInv

LEMMA SaveS3Keeps ==
    ASSUME IInv, NEW r \in S3Config, SaveS3(r)
    PROVE  IInv'
<1>1. TypeOK'
  BY DEF SaveS3, IInv, TypeOK, hostVars, ctlVars
<1>2. FlowOK'
  BY DEF SaveS3, IInv, FlowOK, ctlVars
<1>3. Forward'
  BY DEF SaveS3, IInv, Forward, hostVars, ctlVars
<1>4. BackedUp'
  BY DEF SaveS3, IInv, BackedUp, hostVars, ctlVars
<1>5. Bootable'
  BY DEF SaveS3, IInv, Bootable, hostVars, ctlVars
<1>6. Clean'
  BY DEF SaveS3, IInv, Clean, hostVars, ctlVars
<1>7. ActiveMeansRunning' /\ FailedActivateRestores' /\ DeactivateRemovesS3'
  BY DEF SaveS3, IInv, ActiveMeansRunning, hostVars, ctlVars,
         FailedActivateRestores, DeactivateRemovesS3
<1>8. BootableConfig'
  BY DEF SaveS3, IInv, BootableConfig, hostVars, ctlVars
<1>. QED
  BY <1>1, <1>2, <1>3, <1>4, <1>5, <1>6, <1>7, <1>8 DEF IInv

LEMMA PollKeeps ==
    ASSUME IInv, Poll
    PROVE  IInv'
<1>1. TypeOK'
  BY DEF Poll, IInv, TypeOK, NoFiles, hostVars, StorageFiles, EnvFiles, PCs,
         Outcomes
<1>2. FlowOK'
  BY DEF Poll, IInv, FlowOK, TypeOK, Prelude, DoActivate, Confirmed
<1>3. Forward'
  BY DEF Poll, IInv, Forward, hostVars, Confirmed
<1>4. BackedUp'
  BY DEF Poll, IInv, BackedUp, FlowOK, hostVars, DoActivate, Prelude
<1>5. Bootable'
  BY DEF Poll, IInv, Bootable, FlowOK, hostVars, Prelude
<1>6. Clean'
  BY DEF Poll, IInv, Clean, FlowOK, hostVars, Prelude
<1>7. ActiveMeansRunning' /\ FailedActivateRestores' /\ DeactivateRemovesS3'
  BY DEF Poll, IInv, ActiveMeansRunning, None, FailedActivateRestores,
         DeactivateRemovesS3
<1>8. BootableConfig'
  BY DEF Poll, IInv, BootableConfig, hostVars
<1>. QED
  BY <1>1, <1>2, <1>3, <1>4, <1>5, <1>6, <1>7, <1>8 DEF IInv

-----------------------------------------------------------------------------
(* Activate.                                                               *)

LEMMA IsS3ActiveKeeps ==
    ASSUME IInv, IsS3Active
    PROVE  IInv'
<1>1. TypeOK'
  BY DEF IsS3Active, IInv, TypeOK, FlowOK, Return, Goto, hostVars, PCs,
         Outcomes, Prelude
<1>2. FlowOK'
  BY DEF IsS3Active, IInv, FlowOK, Return, Goto, Prelude, DoActivate,
         Confirmed
<1>3. Forward'
  BY DEF IsS3Active, IInv, Forward, Return, Goto, hostVars, Confirmed
<1>4. BackedUp'
  BY RetriesAssumption DEF IsS3Active, IInv, BackedUp, Return, Goto, hostVars
<1>5. Bootable'
  BY DEF IsS3Active, IInv, Bootable, Return, Goto, hostVars, Prelude, PCs
<1>6. Clean'
  BY DEF IsS3Active, IInv, Clean, SeesS3Disk, Return, MayMissDisk, Goto,
         hostVars, Prelude, Outcomes
<1>7. ActiveMeansRunning' /\ FailedActivateRestores' /\ DeactivateRemovesS3'
  BY DEF IsS3Active, IInv, ActiveMeansRunning, FailedActivateRestores,
         BackedUp, DeactivateRemovesS3, Return, Goto, hostVars
<1>8. BootableConfig'
  BY DEF IsS3Active, IInv, BootableConfig, Bootable, Return, Goto, hostVars,
         Prelude, Boots
<1>. QED
  BY <1>1, <1>2, <1>3, <1>4, <1>5, <1>6, <1>7, <1>8 DEF IInv

LEMMA DecryptCredentialsKeeps ==
    ASSUME IInv, DecryptCredentials
    PROVE  IInv'
<1>1. TypeOK'
  BY RetriesAssumption
     DEF DecryptCredentials, IInv, TypeOK, Return, hostVars, PCs, Outcomes
<1>2. FlowOK'
  BY RetriesAssumption
     DEF DecryptCredentials, IInv, FlowOK, Return, Prelude, DoActivate,
         Confirmed
<1>3. Forward'
  BY DEF DecryptCredentials, IInv, Forward, Return, hostVars, Confirmed
<1>4. BackedUp'
  BY DEF DecryptCredentials, IInv, BackedUp, Return, hostVars, Prelude
<1>5. Bootable'
  BY DEF DecryptCredentials, IInv, Bootable, FlowOK, BackedUp, Return,
         hostVars, Prelude
<1>6. Clean'
  BY DEF DecryptCredentials, IInv, Clean, BackedUp, Return, hostVars,
         Prelude, DoActivate
<1>7. ActiveMeansRunning' /\ FailedActivateRestores' /\ DeactivateRemovesS3'
  BY RetriesAssumption
     DEF DecryptCredentials, IInv, ActiveMeansRunning, Return, hostVars,
         FailedActivateRestores, BackedUp, DeactivateRemovesS3, Confirmed
<1>8. BootableConfig'
  BY DEF DecryptCredentials, IInv, BootableConfig, Bootable, Return,
         hostVars, Prelude, Boots
<1>. QED
  BY <1>1, <1>2, <1>3, <1>4, <1>5, <1>6, <1>7, <1>8 DEF IInv

LEMMA BackupStorageKeeps ==
    ASSUME IInv, BackupStorage
    PROVE  IInv'
<1>1. TypeOK'
  BY DEF BackupStorage, IInv, TypeOK, Goto, PCs
<1>2. FlowOK'
  BY DEF BackupStorage, IInv, FlowOK, Goto, Prelude, DoActivate
<1>3. Forward'
  BY DEF BackupStorage, IInv, Forward, Goto, Confirmed
<1>4. BackedUp'
  BY DEF BackupStorage, IInv, BackedUp, CopyFails, Goto, DoActivate
<1>5. Bootable'
  BY DEF BackupStorage, IInv, Bootable, FlowOK, BackedUp, Goto, DoActivate
<1>6. Clean'
  BY DEF BackupStorage, IInv, Clean, FlowOK, BackedUp, Goto, DoActivate
<1>7. ActiveMeansRunning' /\ FailedActivateRestores' /\ DeactivateRemovesS3'
  BY DEF BackupStorage, IInv, ActiveMeansRunning, Goto,
         FailedActivateRestores, DeactivateRemovesS3
<1>8. BootableConfig'
  BY DEF BackupStorage, IInv, BootableConfig, Goto
<1>. QED
  BY <1>1, <1>2, <1>3, <1>4, <1>5, <1>6, <1>7, <1>8 DEF IInv

LEMMA BackupEnvKeeps ==
    ASSUME IInv, BackupEnv
    PROVE  IInv'
<1>1. TypeOK'
  BY DEF BackupEnv, IInv, TypeOK, Goto, PCs
<1>2. FlowOK'
  BY DEF BackupEnv, IInv, FlowOK, Goto, Prelude, DoActivate
<1>3. Forward'
  BY DEF BackupEnv, IInv, Forward, Goto, None, Confirmed
<1>4. BackedUp'
  BY DEF BackupEnv, IInv, BackedUp, CopyFails, Goto, DoActivate
<1>5. Bootable'
  BY BucketsAssumption
     DEF BackupEnv, IInv, Bootable, TypeOK, FlowOK, BackedUp, CopyFails,
         Goto, Prelude, Boots, EnvFiles, DoActivate
<1>6. Clean'
  BY DEF BackupEnv, IInv, Clean, FlowOK, BackedUp, Goto, DoActivate
<1>7. ActiveMeansRunning' /\ FailedActivateRestores' /\ DeactivateRemovesS3'
  BY DEF BackupEnv, IInv, ActiveMeansRunning, Goto, FailedActivateRestores,
         DeactivateRemovesS3
<1>8. BootableConfig'
  BY DEF BackupEnv, IInv, BootableConfig, Goto
<1>. QED
  BY <1>1, <1>2, <1>3, <1>4, <1>5, <1>6, <1>7, <1>8 DEF IInv

LEMMA WriteStorageKeeps ==
    ASSUME IInv, WriteStorage
    PROVE  IInv'
<1>1. TypeOK'
  BY DEF WriteStorage, IInv, TypeOK, FlowOK, Goto, Fail, StorageFiles, PCs,
         DoActivate, Return
<1>2. FlowOK'
  BY DEF WriteStorage, IInv, FlowOK, TypeOK, Goto, Fail, Prelude, DoActivate,
         Return
<1>3. Forward'
  BY DEF WriteStorage, IInv, Forward, Goto, Fail, Confirmed, Return
<1>4. BackedUp'
  BY DEF WriteStorage, IInv, BackedUp, Goto, Fail, None, DoActivate, Return
<1>5. Bootable'
  BY DEF WriteStorage, IInv, Bootable, FlowOK, Goto, Fail, Prelude,
         DoActivate, Confirmed, Return
<1>6. Clean'
  BY DEF WriteStorage, IInv, Clean, TypeOK, FlowOK, Forward, Goto, Fail,
         Prelude, DoActivate, Return
<1>7. ActiveMeansRunning' /\ FailedActivateRestores' /\ DeactivateRemovesS3'
  BY DEF WriteStorage, IInv, ActiveMeansRunning, Forward, Goto, Fail, Return,
         FailedActivateRestores, FlowOK, BackedUp, None, DeactivateRemovesS3
<1>8. BootableConfig'
  BY DEF WriteStorage, IInv, BootableConfig, FlowOK, BackedUp, Bootable,
         Goto, Fail, DoActivate, Return
<1>. QED
  BY <1>1, <1>2, <1>3, <1>4, <1>5, <1>6, <1>7, <1>8 DEF IInv

LEMMA WriteEnvKeeps ==
    ASSUME IInv, WriteEnv
    PROVE  IInv'
<1>1. TypeOK'
  BY DEF WriteEnv, IInv, TypeOK, FlowOK, Goto, Fail, EnvFiles, S3Config, PCs,
         DoActivate, Return
<1>2. FlowOK'
  BY DEF WriteEnv, IInv, FlowOK, Goto, Fail, Prelude, DoActivate, Return
<1>3. Forward'
  BY DEF WriteEnv, IInv, Forward, Goto, Fail, Confirmed, Return
<1>4. BackedUp'
  BY DEF WriteEnv, IInv, BackedUp, Goto, Fail, DoActivate, Return
<1>5. Bootable'
  BY DEF WriteEnv, IInv, Bootable, FlowOK, Goto, Fail, Prelude, DoActivate,
         Return
<1>6. Clean'
  BY DEF WriteEnv, IInv, Clean, FlowOK, Goto, Fail, Prelude, DoActivate,
         Return
<1>7. ActiveMeansRunning' /\ FailedActivateRestores' /\ DeactivateRemovesS3'
  BY DEF WriteEnv, IInv, ActiveMeansRunning, Goto, Fail, Return,
         FailedActivateRestores, FlowOK, None, DeactivateRemovesS3
<1>8. BootableConfig'
  BY DEF WriteEnv, IInv, BootableConfig, FlowOK, Goto, Fail, DoActivate,
         Return
<1>. QED
  BY <1>1, <1>2, <1>3, <1>4, <1>5, <1>6, <1>7, <1>8 DEF IInv

LEMMA RestartClickHouseKeeps ==
    ASSUME IInv, RestartClickHouse
    PROVE  IInv'
<1>1. TypeOK'
  <2>1. chUp' \in BOOLEAN /\ disk' \in Buckets \cup {None}
    BY DEF RestartClickHouse, Boot, IInv, TypeOK, EnvFiles
  <2>2. /\ pc' \in PCs /\ attempt' \in 0 .. maxRetries
        /\ outcome' \in Outcomes
        /\ UNCHANGED <<last, cancelled, before>>
    BY RetriesAssumption
       DEF RestartClickHouse, Fail, Goto, Return, IInv, TypeOK, PCs, Outcomes
  <2>. QED
    BY <2>1, <2>2 DEF RestartClickHouse, IInv, TypeOK
<1>2. FlowOK'
  BY DEF RestartClickHouse, IInv, FlowOK, Goto, Fail, Prelude, DoActivate,
         Confirmed, Return
<1>3. Forward'
  BY DEF RestartClickHouse, IInv, Forward, Boot, Goto, Fail, Confirmed,
         Return
<1>4. BackedUp'
  BY DEF RestartClickHouse, IInv, BackedUp, Goto, Fail, DoActivate, Return
<1>5. Bootable'
  BY DEF RestartClickHouse, IInv, Bootable, Goto, Fail, Prelude, Return
<1>6. Clean'
  BY DEF RestartClickHouse, IInv, Clean, Boot, Goto, Fail, Prelude, Return
<1>7. ActiveMeansRunning' /\ FailedActivateRestores' /\ DeactivateRemovesS3'
  BY DEF RestartClickHouse, IInv, ActiveMeansRunning, FlowOK, Goto, Fail,
         None, Return, FailedActivateRestores, DeactivateRemovesS3, Boot
<1>8. BootableConfig'
  BY DEF RestartClickHouse, IInv, BootableConfig, Bootable, Goto, Fail,
         Boots, Return
<1>. QED
  BY <1>1, <1>2, <1>3, <1>4, <1>5, <1>6, <1>7, <1>8 DEF IInv

LEMMA WaitActiveKeeps ==
    ASSUME IInv, WaitActive
    PROVE  IInv'
<1>1. TypeOK'
  BY DEF WaitActive, IInv, TypeOK, Goto, Return, Fail, hostVars, PCs,
         Outcomes
<1>2. FlowOK'
  BY DEF WaitActive, IInv, FlowOK, Goto, Return, Fail, Prelude, DoActivate,
         Confirmed
<1>3. Forward'
  BY DEF WaitActive, IInv, Forward, Goto, Return, Fail, hostVars, Confirmed
<1>4. BackedUp'
  BY DEF WaitActive, IInv, BackedUp, Goto, Return, Fail, hostVars, DoActivate
<1>5. Bootable'
  BY DEF WaitActive, IInv, Bootable, Goto, Return, Fail, hostVars, Prelude
<1>6. Clean'
  BY DEF WaitActive, IInv, Clean, Goto, Return, Fail, hostVars, Prelude
<1>7. ActiveMeansRunning' /\ FailedActivateRestores' /\ DeactivateRemovesS3'
  BY DEF WaitActive, IInv, ActiveMeansRunning, Goto, Return, Fail, hostVars,
         FailedActivateRestores, DeactivateRemovesS3, Clean
<1>8. BootableConfig'
  BY DEF WaitActive, IInv, BootableConfig, Bootable, Goto, Return, Fail,
         hostVars, Boots
<1>. QED
  BY <1>1, <1>2, <1>3, <1>4, <1>5, <1>6, <1>7, <1>8 DEF IInv

LEMMA VerifyS3DiskKeeps ==
    ASSUME IInv, VerifyS3Disk
    PROVE  IInv'
<1>1. TypeOK'
  BY DEF VerifyS3Disk, IInv, TypeOK, FlowOK, Goto, Fail, hostVars, PCs,
         Return
<1>2. FlowOK'
  BY DEF VerifyS3Disk, IInv, FlowOK, Goto, Fail, Prelude, Return
<1>3. Forward'
  BY DEF VerifyS3Disk, IInv, Forward, FlowOK, SeesS3Disk, Goto, Fail,
         hostVars, Confirmed, Return
<1>4. BackedUp'
  BY DEF VerifyS3Disk, IInv, BackedUp, Goto, Fail, hostVars, DoActivate,
         Return
<1>5. Bootable'
  BY DEF VerifyS3Disk, IInv, Bootable, FlowOK, Goto, Fail, hostVars, Prelude,
         Return
<1>6. Clean'
  BY DEF VerifyS3Disk, IInv, Clean, FlowOK, Goto, Fail, hostVars, Prelude,
         Return
<1>7. ActiveMeansRunning' /\ FailedActivateRestores' /\ DeactivateRemovesS3'
  BY DEF VerifyS3Disk, IInv, ActiveMeansRunning, Goto, Fail, hostVars,
         Return, FailedActivateRestores, DeactivateRemovesS3
<1>8. BootableConfig'
  BY DEF VerifyS3Disk, IInv, BootableConfig, FlowOK, Goto, Fail, Return
<1>. QED
  BY <1>1, <1>2, <1>3, <1>4, <1>5, <1>6, <1>7, <1>8 DEF IInv

LEMMA UpdateBackupConfigKeeps ==
    ASSUME IInv, UpdateBackupConfig
    PROVE  IInv'
<1>1. TypeOK'
  BY DEF UpdateBackupConfig, IInv, TypeOK, FlowOK, Goto, S3Config, PCs
<1>2. FlowOK'
  BY DEF UpdateBackupConfig, IInv, FlowOK, Goto, Prelude, Confirmed
<1>3. Forward'
  BY DEF UpdateBackupConfig, IInv, Forward, Goto, Confirmed
<1>4. BackedUp'
  BY DEF UpdateBackupConfig, IInv, BackedUp, Goto, DoActivate
<1>5. Bootable'
  BY DEF UpdateBackupConfig, IInv, Bootable, Goto, Prelude
<1>6. Clean'
  BY DEF UpdateBackupConfig, IInv, Clean, Goto, Prelude
<1>7. ActiveMeansRunning' /\ FailedActivateRestores' /\ DeactivateRemovesS3'
  BY DEF UpdateBackupConfig, IInv, ActiveMeansRunning, Goto,
         FailedActivateRestores, DeactivateRemovesS3
<1>8. BootableConfig'
  BY DEF UpdateBackupConfig, IInv, BootableConfig, Goto
<1>. QED
  BY <1>1, <1>2, <1>3, <1>4, <1>5, <1>6, <1>7, <1>8 DEF IInv

LEMMA ResetActivateRequestedKeeps ==
    ASSUME IInv, ResetActivateRequested
    PROVE  IInv'
<1>1. TypeOK'
  BY RetriesAssumption
     DEF ResetActivateRequested, IInv, TypeOK, FlowOK, Return, hostVars,
         S3Config, PCs, Outcomes
<1>2. FlowOK'
  BY DEF ResetActivateRequested, IInv, FlowOK, Return, DoActivate, Confirmed
<1>3. Forward'
  BY DEF ResetActivateRequested, IInv, Forward, Return, hostVars, Confirmed
<1>4. BackedUp'
  BY DEF ResetActivateRequested, IInv, BackedUp, Return, hostVars, DoActivate
<1>5. Bootable'
  BY BucketsAssumption
     DEF ResetActivateRequested, IInv, Bootable, FlowOK, Forward, TypeOK,
         Return, hostVars, Prelude, Confirmed, Boots, S3Config
<1>6. Clean'
  BY BucketsAssumption
     DEF ResetActivateRequested, IInv, Clean, FlowOK, Forward, Return,
         hostVars, S3Config, Confirmed
<1>7. ActiveMeansRunning' /\ FailedActivateRestores' /\ DeactivateRemovesS3'
  BY DEF ResetActivateRequested, IInv, ActiveMeansRunning, FlowOK, Forward,
         Return, hostVars, Confirmed, FailedActivateRestores,
         DeactivateRemovesS3
<1>8. BootableConfig'
  BY BucketsAssumption
     DEF ResetActivateRequested, IInv, BootableConfig, FlowOK, Forward,
         Return, hostVars, Confirmed, S3Config
<1>. QED
  BY <1>1, <1>2, <1>3, <1>4, <1>5, <1>6, <1>7, <1>8 DEF IInv

-----------------------------------------------------------------------------
(* Deactivate, and the rollback.                                           *)

LEMMA UndoStorageKeeps ==
    ASSUME IInv, UndoStorage
    PROVE  IInv'
<1>1. TypeOK'
  BY RetriesAssumption
     DEF UndoStorage, IInv, TypeOK, Goto, NextAttempt, Return, PCs, Outcomes
<1>2. FlowOK'
  BY DEF UndoStorage, IInv, FlowOK, TypeOK, Goto, NextAttempt, Return,
         Prelude, DoActivate, Confirmed
<1>3. Forward'
  BY DEF UndoStorage, IInv, Forward, Goto, NextAttempt, Return, Confirmed
<1>4. BackedUp'
  BY DEF UndoStorage, IInv, BackedUp, Goto, CopyFails, NextAttempt, Return,
         DoActivate
<1>5. Bootable'
  BY DEF UndoStorage, IInv, Bootable, Goto, CopyFails, NextAttempt, Return,
         Prelude
<1>6. Clean'
  BY DEF UndoStorage, IInv, Clean, Goto, CopyFails, NextAttempt, Return,
         Prelude
<1>7. ActiveMeansRunning' /\ FailedActivateRestores' /\ DeactivateRemovesS3'
  BY DEF UndoStorage, IInv, ActiveMeansRunning, FlowOK, Goto, None,
         NextAttempt, Return, FailedActivateRestores, CopyFails,
         DeactivateRemovesS3, Clean
<1>8. BootableConfig'
  BY DEF UndoStorage, IInv, BootableConfig, Goto, CopyFails, NextAttempt,
         Return
<1>. QED
  BY <1>1, <1>2, <1>3, <1>4, <1>5, <1>6, <1>7, <1>8 DEF IInv

LEMMA UndoEnvKeeps ==
    ASSUME IInv, UndoEnv
    PROVE  IInv'
<1>1. TypeOK'
  BY RetriesAssumption
     DEF UndoEnv, IInv, TypeOK, NextAttempt, Goto, Return, EnvFiles, PCs,
         Outcomes
<1>2. FlowOK'
  BY DEF UndoEnv, IInv, FlowOK, TypeOK, NextAttempt, Goto, Return, Prelude,
         DoActivate, Confirmed
<1>3. Forward'
  BY DEF UndoEnv, IInv, Forward, NextAttempt, Goto, Return, Confirmed
<1>4. BackedUp'
  BY BucketsAssumption
     DEF UndoEnv, IInv, BackedUp, TypeOK, CopyFails, NextAttempt, Goto,
         Return, DoActivate, EnvFiles
<1>5. Bootable'
  BY DEF UndoEnv, IInv, Bootable, BackedUp, CopyFails, NextAttempt, Goto,
         Return, Boots
<1>6. Clean'
  BY DEF UndoEnv, IInv, Clean, BackedUp, CopyFails, NextAttempt, Goto, Return
<1>7. ActiveMeansRunning' /\ FailedActivateRestores' /\ DeactivateRemovesS3'
  BY BucketsAssumption
     DEF UndoEnv, IInv, ActiveMeansRunning, FlowOK, None, NextAttempt, Goto,
         Return, FailedActivateRestores, TypeOK, BackedUp, CopyFails,
         EnvFiles, DeactivateRemovesS3, Clean
<1>8. BootableConfig'
  BY DEF UndoEnv, IInv, BootableConfig, BackedUp, Bootable, CopyFails,
         NextAttempt, Goto, Return
<1>. QED
  BY <1>1, <1>2, <1>3, <1>4, <1>5, <1>6, <1>7, <1>8 DEF IInv

-----------------------------------------------------------------------------
(* The life of the process.                                                *)

LEMMA CancelKeeps ==
    ASSUME IInv, Cancel
    PROVE  IInv'
<1>1. TypeOK'
  BY DEF Cancel, IInv, TypeOK, hostVars
<1>2. FlowOK'
  BY DEF Cancel, IInv, FlowOK
<1>3. Forward'
  BY DEF Cancel, IInv, Forward, hostVars
<1>4. BackedUp'
  BY DEF Cancel, IInv, BackedUp, hostVars
<1>5. Bootable'
  BY DEF Cancel, IInv, Bootable, hostVars
<1>6. Clean'
  BY DEF Cancel, IInv, Clean
<1>7. ActiveMeansRunning' /\ FailedActivateRestores' /\ DeactivateRemovesS3'
  BY DEF Cancel, IInv, ActiveMeansRunning, hostVars, FailedActivateRestores,
         DeactivateRemovesS3
<1>8. BootableConfig'
  BY DEF Cancel, IInv, BootableConfig, hostVars
<1>. QED
  BY <1>1, <1>2, <1>3, <1>4, <1>5, <1>6, <1>7, <1>8 DEF IInv

LEMMA AgentRestartKeeps ==
    ASSUME IInv, AgentRestart
    PROVE  IInv'
<1>1. TypeOK'
  <2>1. before' \in [storage : StorageFiles, env : EnvFiles]
    BY DEF AgentRestart, Forget, NoFiles, StorageFiles, EnvFiles
  <2>2. pc' \in PCs /\ attempt' \in 0 .. maxRetries /\ outcome' \in Outcomes
    BY RetriesAssumption DEF AgentRestart, Forget, PCs, Outcomes
  <2>. QED
    BY <2>1, <2>2 DEF AgentRestart, hostVars, IInv, TypeOK
<1>2. FlowOK'
  BY DEF AgentRestart, IInv, FlowOK, DoActivate, Confirmed
<1>3. Forward'
  BY DEF AgentRestart, IInv, Forward, hostVars, Confirmed
<1>4. BackedUp'
  BY DEF AgentRestart, IInv, BackedUp, hostVars, DoActivate
<1>5. Bootable'
  BY DEF AgentRestart, IInv, Bootable, hostVars
<1>6. Clean'
  BY DEF AgentRestart, IInv, Clean, hostVars
<1>7. ActiveMeansRunning' /\ FailedActivateRestores' /\ DeactivateRemovesS3'
  BY DEF AgentRestart, IInv, ActiveMeansRunning, Forget, None,
         FailedActivateRestores, DeactivateRemovesS3
<1>8. BootableConfig'
  BY DEF AgentRestart, IInv, BootableConfig, hostVars
<1>. QED
  BY <1>1, <1>2, <1>3, <1>4, <1>5, <1>6, <1>7, <1>8 DEF IInv

-----------------------------------------------------------------------------
(* All steps together.                                                     *)

LEMMA InitInv == Init => IInv
<1>. SUFFICES ASSUME Init PROVE IInv
  OBVIOUS
<1>1. TypeOK
  <2>1. before \in [storage : StorageFiles, env : EnvFiles]
    BY DEF Init, NoFiles, StorageFiles, EnvFiles
  <2>2. attempt \in 0 .. maxRetries
    BY RetriesAssumption DEF Init
  <2>. QED
    BY <2>1, <2>2
       DEF Init, TypeOK, StorageFiles, EnvFiles, PCs, Outcomes, None, Empty
<1>2. FlowOK /\ Forward /\ BackedUp
  BY DEF Init, FlowOK, Forward, BackedUp, Prelude, DoActivate, Confirmed,
         NoFiles
<1>3. Bootable /\ Clean
  BY DEF Init, Bootable, Boots, Clean, Prelude, None, Empty
<1>4. ActiveMeansRunning /\ FailedActivateRestores /\ DeactivateRemovesS3
  BY DEF Init, ActiveMeansRunning, FailedActivateRestores,
         DeactivateRemovesS3, None
<1>5. BootableConfig
  BY DEF Init, BootableConfig, None
<1>. QED
  BY <1>1, <1>2, <1>3, <1>4, <1>5 DEF IInv

LEMMA StutterKeeps == IInv /\ UNCHANGED vars => IInv'
<1>. SUFFICES ASSUME IInv, UNCHANGED vars PROVE IInv'
  OBVIOUS
<1>1. TypeOK'
  BY DEF vars, IInv, TypeOK
<1>2. FlowOK' /\ Forward' /\ BackedUp'
  BY DEF vars, IInv, FlowOK, Forward, BackedUp
<1>3. Bootable' /\ Clean'
  BY DEF vars, IInv, Bootable, Boots, Clean
<1>4. ActiveMeansRunning' /\ FailedActivateRestores' /\ DeactivateRemovesS3'
  BY DEF vars, IInv, ActiveMeansRunning, FailedActivateRestores,
         DeactivateRemovesS3
<1>5. BootableConfig'
  BY DEF vars, IInv, BootableConfig
<1>. QED
  BY <1>1, <1>2, <1>3, <1>4, <1>5 DEF IInv

LEMMA AgentStepKeeps == IInv /\ AgentStep => IInv'
BY IsS3ActiveKeeps, DecryptCredentialsKeeps, BackupStorageKeeps,
   BackupEnvKeeps, WriteStorageKeeps, WriteEnvKeeps, RestartClickHouseKeeps,
   WaitActiveKeeps, VerifyS3DiskKeeps, UpdateBackupConfigKeeps,
   ResetActivateRequestedKeeps, UndoStorageKeeps, UndoEnvKeeps
   DEF AgentStep

LEMMA NextKeeps == IInv /\ [Next]_vars => IInv'
<1>. SUFFICES ASSUME IInv, [Next]_vars PROVE IInv'
  OBVIOUS
<1>1. CASE Poll
  BY <1>1, PollKeeps
<1>2. CASE AgentStep
  BY <1>2, AgentStepKeeps
<1>3. CASE Cancel \/ AgentRestart
  BY <1>3, CancelKeeps, AgentRestartKeeps
<1>4. CASE Reboot
  BY <1>4, RebootKeeps
<1>5. CASE \E r \in S3Config : SaveS3(r)
  BY <1>5, SaveS3Keeps
<1>6. CASE UNCHANGED vars
  BY <1>6, StutterKeeps
<1>. QED
  BY <1>1, <1>2, <1>3, <1>4, <1>5, <1>6 DEF Next

-----------------------------------------------------------------------------
(* The inductive invariant holds in every state.                           *)
THEOREM ActivatorInvariance == Spec => []IInv
BY InitInv, NextKeeps, PTL DEF Spec

(* The types of the host's files, of the row and of the agent.             *)
THEOREM ActivatorTypes == Spec => []TypeOK
<1>1. IInv => TypeOK
  BY DEF IInv
<1>. QED
  BY <1>1, ActivatorInvariance, PTL

(* Activate reports success only with ClickHouse up on the bucket that was *)
(* asked for, whatever fails and however often it was tried.               *)
THEOREM ActivationIsReal == Spec => []ActiveMeansRunning
<1>1. IInv => ActiveMeansRunning
  BY DEF IInv
<1>. QED
  BY <1>1, ActivatorInvariance, PTL

(* An Activate that gives up leaves the files it found, however many       *)
(* attempts have overwritten the .bak files.                               *)
THEOREM FailureIsUndone == Spec => []FailedActivateRestores
<1>1. IInv => FailedActivateRestores
  BY DEF IInv
<1>. QED
  BY <1>1, ActivatorInvariance, PTL

(* A reported Deactivate has taken ClickHouse off S3.                      *)
THEOREM DeactivationIsReal == Spec => []DeactivateRemovesS3
<1>1. IInv => DeactivateRemovesS3
  BY DEF IInv
<1>. QED
  BY <1>1, ActivatorInvariance, PTL

(* Between two actions the files let ClickHouse start.                     *)
THEOREM AlwaysBootable == Spec => []BootableConfig
<1>1. IInv => BootableConfig
  BY DEF IInv
<1>. QED
  BY <1>1, ActivatorInvariance, PTL

-----------------------------------------------------------------------------
(* An action ends: a count of the steps it has left at most.               *)

StepsOfAttempt ==
    CASE pc = "bakStorage"   -> 9
      [] pc = "bakEnv"       -> 8
      [] pc = "writeStorage" -> 7
      [] pc = "writeEnv"     -> 6
      [] pc = "restart"      -> 5
      [] pc = "wait"         -> 4
      [] pc = "verify"       -> 3
      [] pc \in {"undoStorage", "backupConfig"} -> 2
      [] OTHER               -> 1

StepsOfDeactivate ==
    CASE pc = "undoStorage"  -> 4
      [] pc = "undoEnv"      -> 3
      [] pc = "restart"      -> 2
      [] OTHER               -> 1

(* Two steps before the first attempt and nine in each.                    *)
StepsOfAction == 9 * maxRetries + 2

StepsLeft ==
    CASE pc = "idle"    -> 0
      [] pc = "check"   -> StepsOfAction
      [] pc = "decrypt" -> StepsOfAction - 1
      [] OTHER          -> IF attempt > 0
                           THEN 9 * (maxRetries - attempt) + StepsOfAttempt
                           ELSE StepsOfDeactivate

(* Every step of the agent lowers the count, a retry included, and nobody  *)
(* else raises it before the action has ended.                             *)
ActionCountsDown ==
    [][/\ AgentStep => StepsLeft' < StepsLeft
       /\ pc # "idle" => StepsLeft' <= StepsLeft]_vars

LEMMA StepsLeftRange ==
    ASSUME TypeOK
    PROVE  StepsLeft \in 0 .. StepsOfAction /\ (StepsLeft = 0 <=> pc = "idle")
<1>1. attempt \in Nat /\ attempt <= maxRetries /\ maxRetries \in Nat /\ maxRetries >= 1
  BY RetriesAssumption DEF TypeOK
<1>2. StepsOfAttempt \in 1 .. 9 /\ StepsOfDeactivate \in 1 .. 4
  BY DEF StepsOfAttempt, StepsOfDeactivate
<1>. QED
  BY <1>1, <1>2 DEF StepsLeft, StepsOfAction

(* The rollback of an attempt is over.                                     *)
LEMMA NextAttemptCounts ==
    ASSUME TypeOK, attempt > 0, pc \in {"undoStorage", "undoEnv"}, NextAttempt
    PROVE  StepsLeft' < StepsLeft
<1>1. attempt \in Nat /\ maxRetries \in Nat
  BY RetriesAssumption DEF TypeOK
<1>2. StepsOfAttempt >= 1 /\ StepsOfAttempt \in Nat
  BY DEF StepsOfAttempt
<1>3. StepsLeft = 9 * (maxRetries - attempt) + StepsOfAttempt
  BY DEF StepsLeft
<1>4. CASE attempt < maxRetries /\ pc' = "bakStorage" /\ attempt' = attempt + 1
  <2>1. StepsLeft' = 9 * (maxRetries - (attempt + 1)) + 9
    BY <1>1, <1>4 DEF StepsLeft, StepsOfAttempt
  <2>. QED
    BY <1>1, <1>2, <1>3, <2>1
<1>5. CASE attempt = maxRetries /\ pc' = "idle"
  BY <1>1, <1>2, <1>3, <1>5 DEF StepsLeft
<1>. QED
  BY <1>4, <1>5 DEF NextAttempt, Return

(* The commands that change the count by one, or end an attempt early.     *)
LEMMA AgentStepCounts ==
    ASSUME IInv, AgentStep
    PROVE  StepsLeft' < StepsLeft
<1>0. /\ TypeOK /\ FlowOK /\ attempt \in Nat /\ attempt <= maxRetries
      /\ maxRetries \in Nat /\ maxRetries >= 1
  BY RetriesAssumption DEF IInv, TypeOK
<1>1. ASSUME pc \in {"writeStorage", "writeEnv", "restart", "wait", "verify"}, Fail
      PROVE  StepsLeft' < StepsLeft
  <2>1. CASE attempt > 0 /\ Goto("undoStorage")
    BY <1>0, <1>1, <2>1 DEF StepsLeft, StepsOfAttempt, Goto
  <2>2. CASE attempt = 0 /\ Return("deactivateFailed")
    BY <1>0, <1>1, <2>2
       DEF StepsLeft, StepsOfDeactivate, Return, FlowOK, DoActivate
  <2>. QED
    BY <1>1, <2>1, <2>2 DEF Fail
<1>2. CASE IsS3Active \/ DecryptCredentials
  BY <1>0, <1>2 DEF IsS3Active, DecryptCredentials, Goto, Return, StepsLeft,
     StepsOfAction, StepsOfAttempt
<1>3. CASE BackupStorage \/ BackupEnv
  BY <1>0, <1>3 DEF BackupStorage, BackupEnv, Goto, StepsLeft, StepsOfAttempt,
     FlowOK, DoActivate
<1>4. CASE WriteStorage \/ WriteEnv
  BY <1>0, <1>1, <1>4 DEF WriteStorage, WriteEnv, Goto, StepsLeft, StepsOfAttempt,
     FlowOK, DoActivate
<1>5. CASE RestartClickHouse
  BY <1>0, <1>1, <1>5 DEF RestartClickHouse, Goto, StepsLeft, StepsOfAttempt,
     StepsOfDeactivate
<1>6. CASE WaitActive
  BY <1>0, <1>1, <1>6 DEF WaitActive, Goto, Return, StepsLeft, StepsOfAttempt,
     StepsOfDeactivate
<1>7. CASE VerifyS3Disk
  BY <1>0, <1>1, <1>7 DEF VerifyS3Disk, Goto, StepsLeft, StepsOfAttempt, FlowOK
<1>8. CASE UpdateBackupConfig \/ ResetActivateRequested
  BY <1>0, <1>8 DEF UpdateBackupConfig, ResetActivateRequested, Goto, Return,
     StepsLeft, StepsOfAttempt, FlowOK, Confirmed
<1>9. CASE UndoStorage
  BY <1>0, <1>9, NextAttemptCounts DEF UndoStorage, Goto, Return, StepsLeft,
     StepsOfAttempt, StepsOfDeactivate
<1>10. CASE UndoEnv
  BY <1>0, <1>10, NextAttemptCounts DEF UndoEnv, Goto, Return, StepsLeft,
     StepsOfAttempt, StepsOfDeactivate
<1>. QED
  BY <1>2, <1>3, <1>4, <1>5, <1>6, <1>7, <1>8, <1>9, <1>10 DEF AgentStep

LEMMA OthersCount ==
    ASSUME IInv, pc # "idle", [Next]_vars, ~AgentStep
    PROVE  StepsLeft' <= StepsLeft
<1>1. StepsLeft \in Nat
  BY StepsLeftRange DEF IInv, StepsOfAction
<1>2. CASE UNCHANGED <<pc, attempt>>
  <2>1. StepsLeft' = StepsLeft
    BY <1>2 DEF StepsLeft, StepsOfAttempt, StepsOfDeactivate
  <2>. QED
    BY <1>1, <2>1
<1>3. CASE AgentRestart
  <2>1. StepsLeft' = 0
    BY <1>3 DEF AgentRestart, StepsLeft
  <2>. QED
    BY <1>1, <2>1
<1>. QED
  BY <1>2, <1>3 DEF Next, Poll, Cancel, Reboot, SaveS3, ctlVars, vars

(* An activation or deactivation ends after a bounded number of steps,     *)
(* whatever fails: with maxRetries attempts, at most nine steps for each   *)
(* and two before.  The count is 0 when the agent is idle and at no other  *)
(* time.                                                                   *)
THEOREM ActionIsBounded ==
    Spec => /\ [](StepsLeft \in 0 .. StepsOfAction /\ (StepsLeft = 0 <=> pc = "idle"))
            /\ ActionCountsDown
<1>1. IInv => StepsLeft \in 0 .. StepsOfAction /\ (StepsLeft = 0 <=> pc = "idle")
  BY StepsLeftRange DEF IInv
<1>2. IInv /\ [Next]_vars =>
        [/\ AgentStep => StepsLeft' < StepsLeft
         /\ pc # "idle" => StepsLeft' <= StepsLeft]_vars
  <2>. SUFFICES ASSUME IInv, [Next]_vars
                PROVE  /\ AgentStep => StepsLeft' < StepsLeft
                       /\ pc # "idle" => StepsLeft' <= StepsLeft
    OBVIOUS
  <2>1. StepsLeft \in Int /\ StepsLeft' \in Int
    <3>1. IInv'
      BY NextKeeps
    <3>2. attempt \in Int /\ attempt' \in Int /\ maxRetries \in Int
      BY <3>1, RetriesAssumption DEF IInv, TypeOK
    <3>. QED
      BY <3>2 DEF StepsLeft, StepsOfAttempt, StepsOfDeactivate, StepsOfAction
  <2>. QED
    BY <2>1, AgentStepCounts, OthersCount
<1>. QED
  BY <1>1, <1>2, ActivatorInvariance, PTL DEF Spec, ActionCountsDown
-----------------------------------------------------------------------------
(* Where nothing fails every activation succeeds, at its first attempt,    *)
(* and every deactivation does, and ClickHouse is never left down.         *)
CleanActions ==
    faults = {} =>
        /\ outcome \notin {"activateFailed", "deactivateFailed"}
        /\ attempt <= 1
        /\ chUp

(* No step of such an action leads to a rollback.                          *)
OnCourse ==
    faults = {} =>
        /\ outcome \notin {"activateFailed", "deactivateFailed"}
        /\ attempt <= 1 /\ chUp
        /\ attempt > 0 => pc \notin {"undoStorage", "undoEnv"}
        /\ attempt > 0 /\ pc \in {"wait", "verify"} => disk # None

(* The files a clean action restarts ClickHouse on let it start.           *)
LEMMA CleanBoot ==
    ASSUME IInv, faults = {}, Boot,
           Boots(storage, env)
    PROVE  chUp' = TRUE /\ (storage = "s3" => disk' # None)
BY BucketsAssumption DEF Boot, Boots, IInv, TypeOK, EnvFiles

LEMMA OnCourseStep == IInv /\ OnCourse /\ [Next]_vars => OnCourse'
<1>. SUFFICES ASSUME IInv, OnCourse, [Next]_vars, faults' = {}
              PROVE  /\ outcome' \notin {"activateFailed", "deactivateFailed"}
                     /\ attempt' <= 1 /\ chUp'
                     /\ attempt' > 0 => pc' \notin {"undoStorage", "undoEnv"}
                     /\ attempt' > 0 /\ pc' \in {"wait", "verify"} => disk' # None
  BY DEF OnCourse
<1>0. /\ TypeOK /\ FlowOK /\ Forward /\ Clean /\ Bootable
      /\ faults = {} /\ ~cancelled /\ ~CopyFails
      /\ attempt \in 0 .. maxRetries /\ maxRetries \in Nat
      /\ outcome \notin {"activateFailed", "deactivateFailed"}
      /\ attempt <= 1 /\ chUp
      /\ attempt > 0 => pc \notin {"undoStorage", "undoEnv"}
      /\ attempt > 0 /\ pc \in {"wait", "verify"} => disk # None
  <2>1. faults = {}
    BY DEF Next, Poll, AgentStep, IsS3Active, DecryptCredentials, BackupStorage,
           BackupEnv, WriteStorage, WriteEnv, RestartClickHouse, WaitActive,
           VerifyS3Disk, UpdateBackupConfig, ResetActivateRequested, UndoStorage,
           UndoEnv, Cancel, AgentRestart, Reboot, SaveS3, vars
  <2>. QED
    BY <2>1, RetriesAssumption DEF IInv, TypeOK, Clean, CopyFails, OnCourse
<1>1. CASE Poll
  BY <1>0, <1>1 DEF Poll, hostVars, None, FlowOK, Prelude
<1>2. CASE IsS3Active \/ DecryptCredentials
  <2>1. UNCHANGED chUp /\ pc' \in {"idle", "decrypt", "bakStorage"}
    BY <1>2 DEF IsS3Active, DecryptCredentials, Goto, Return, hostVars
  <2>2. /\ attempt' \in {attempt, 0, 1}
        /\ outcome' \in {outcome, "skipped"}
    BY <1>0, <1>2 DEF IsS3Active, DecryptCredentials, Goto, Return
  <2>. QED
    BY <1>0, <2>1, <2>2
<1>3. CASE BackupStorage \/ BackupEnv
  BY <1>0, <1>3 DEF BackupStorage, BackupEnv, Goto
<1>4. CASE WriteStorage \/ WriteEnv
  BY <1>0, <1>4 DEF WriteStorage, WriteEnv, Goto
<1>5. CASE RestartClickHouse
  <2>1. Boot /\ Goto("wait")
    BY <1>0, <1>5 DEF RestartClickHouse
  <2>2. attempt > 0 => storage = "s3" /\ env = last.bucket /\ last.bucket \in Buckets
    BY <1>0, <1>5 DEF RestartClickHouse, Forward, FlowOK, S3Config
  <2>3. attempt = 0 => storage # "s3"
    BY <1>0, <1>5 DEF RestartClickHouse, Clean
  <2>4. Boots(storage, env)
    BY <1>0, <2>2, <2>3, BucketsAssumption DEF Boots
  <2>. QED
    BY <1>0, <2>1, <2>2, <2>4, CleanBoot DEF Goto
<1>6. CASE WaitActive
  BY <1>0, <1>6 DEF WaitActive, Goto, Return, hostVars
<1>7. CASE VerifyS3Disk
  <2>1. attempt > 0 /\ SeesS3Disk
    BY <1>0, <1>7 DEF VerifyS3Disk, SeesS3Disk, FlowOK
  <2>2. Goto("backupConfig") /\ UNCHANGED chUp
    BY <1>0, <1>7, <2>1 DEF VerifyS3Disk, MayMissDisk, hostVars
  <2>. QED
    BY <1>0, <2>2 DEF Goto
<1>8. CASE UpdateBackupConfig \/ ResetActivateRequested
  <2>1. UNCHANGED chUp /\ pc' \in {"reset", "idle"}
    BY <1>8 DEF UpdateBackupConfig, ResetActivateRequested, Goto, Return, hostVars
  <2>2. attempt' \in {attempt, 0} /\ outcome' \in {outcome, "active"}
    BY <1>8 DEF UpdateBackupConfig, ResetActivateRequested, Goto, Return
  <2>. QED
    BY <1>0, <2>1, <2>2
<1>9. CASE UndoStorage
  BY <1>0, <1>9 DEF UndoStorage, Goto
<1>10. CASE UndoEnv
  BY <1>0, <1>10 DEF UndoEnv, Goto
<1>11. CASE Reboot
  <2>1. Boots(storage, env) /\ attempt = 0
    BY <1>0, <1>11 DEF Reboot, Bootable, FlowOK, Prelude
  <2>. QED
    BY <1>0, <1>11, <2>1, CleanBoot DEF Reboot, Forget, None
<1>12. CASE AgentRestart
  BY <1>0, <1>12 DEF AgentRestart, Forget, None, hostVars
<1>13. CASE Cancel \/ (\E r \in S3Config : SaveS3(r)) \/ UNCHANGED vars
  BY <1>0, <1>13 DEF Cancel, SaveS3, hostVars, ctlVars, vars
<1>. QED
  BY <1>1, <1>2, <1>3, <1>4, <1>5, <1>6, <1>7, <1>8, <1>9, <1>10, <1>11, <1>12, <1>13
     DEF Next, AgentStep

(* Activate and Deactivate fail only when something they call fails: no    *)
(* order of requests, changed settings, restarts of the agent between two  *)
(* actions and of ClickHouse makes them fail, roll back or retry.          *)
THEOREM CleanActionsSucceed == Spec => []CleanActions
<1>1. Init => OnCourse
  BY RetriesAssumption DEF Init, OnCourse, None
<1>2. OnCourse => CleanActions
  BY DEF OnCourse, CleanActions
<1>. QED
  BY <1>1, <1>2, OnCourseStep, ActivatorInvariance, PTL DEF Spec
=============================================================================
