--------------------------- MODULE UpgradeProofs ---------------------------
(***************************************************************************)
(* What holds of every upgrade, for all versions, any number of migrations *)
(* and every scenario of faults.  IInv says, step by step of a run, what   *)
(* is in the file and in the .bak of the unit being upgraded and what runs.*)
(***************************************************************************)
EXTENDS Upgrade, TLAPS

Unnoticed == "command" \in faults

(* The connection is up and no command fails unnoticed.                    *)
Reliable == link /\ ~Unnoticed

LinkKept == "link" \notin faults => link

InRun == pc # "idle" => outcome = None /\ args[unit] # None

(* The OTel config is not touched before its turn.                         *)
OtelUntouched == unit = "agent" => file["otel"] = before["otel"]

FileOld == pc \in {"backup", "stop", "upload", "move"} => file[unit] = before[unit]

FileNew == (Reliable /\ pc \in {"start", "health"}) => file[unit] = args[unit]

BakMade ==
    (/\ Reliable
     /\ before[unit] # None
     /\ pc \in {"stop", "upload", "move", "start", "health", "undoStop", "undoMove", "cleanup"}) =>
        bak[unit] = before[unit]

Stopped ==
    (Reliable /\ unit = "agent" /\ pc \in {"upload", "move", "start", "undoMove"}) =>
        up[unit] = None

Fresh == (Reliable /\ pc = "health") => up[unit] = Started(args[unit])

Upgraded(u) == args[u] # None => file[u] = args[u] /\ up[u] = args[u]

Healthy == (~Unnoticed /\ pc = "cleanup") => Upgraded(unit)

UnitsDone ==
    ~Unnoticed =>
        /\ (pc # "idle" /\ unit = "otel") => Upgraded("agent")
        /\ pc = "migrate" => Upgraded("agent") /\ Upgraded("otel")

Undone ==
    (Reliable /\ pc = "undoStart" /\ before[unit] # None) =>
        /\ file[unit] = before[unit]
        /\ unit = "agent" => up[unit] = None

Kept ==
    ~Unnoticed =>
        \A u \in Units : before[u] # None =>
            file[u] = before[u] \/ bak[u] = before[u] \/ file[u] \in Working

Applied ==
    /\ pc # "migrate" => next = 1
    /\ pc = "migrate" => \A n \in 1 .. Migrations : n < next => n \in schema

(* Where a run stands, and what the properties say.                        *)
Run ==
    /\ LinkKept /\ InRun /\ OtelUntouched
    /\ FileOld /\ FileNew /\ BakMade /\ Stopped /\ Fresh /\ Healthy /\ UnitsDone /\ Undone

Promises == SuccessMeansRunning /\ RolledBack /\ MigrationsInOrder

IInv == TypeOK /\ Run /\ Kept /\ Applied /\ Promises

-----------------------------------------------------------------------------
USE VersionsAssumption, MigrationsAssumption
    DEF None, Units, Unnoticed, Reliable, Upgraded

(* What the run was asked to install, for either unit.                     *)
LEMMA ArgsType ==
    ASSUME TypeOK
    PROVE  /\ args["agent"] \in Versions
           /\ args["otel"] \in Versions \cup {None}
           /\ args[unit] \in Versions \cup {None}
    BY DEF TypeOK, UpgradeConfig

(* The initial states, and below one lemma for each action.                *)
LEMMA InitInv == Init => IInv
<1> SUFFICES ASSUME Init PROVE IInv
    OBVIOUS
<1>1. TypeOK
    BY DEF Init, TypeOK, UpgradeConfig, PCs, Outcomes
<1>2. Run /\ Kept
    BY DEF Init, Run, LinkKept, InRun, OtelUntouched, FileOld, FileNew,
           BakMade, Stopped, Fresh, Healthy, UnitsDone, Undone, Kept
<1>3. Applied /\ MigrationsInOrder
    BY DEF Init, Applied, MigrationsInOrder
<1>4. SuccessMeansRunning /\ RolledBack
    BY DEF Init, SuccessMeansRunning, RolledBack
<1>5. QED
    BY <1>1, <1>2, <1>3, <1>4 DEF IInv, Promises

LEMMA BackupStep == IInv /\ Backup => IInv'
<1> SUFFICES ASSUME IInv, Backup PROVE IInv'
    OBVIOUS
<1>0. TypeOK /\ Run /\ Kept /\ Applied /\ Promises
    BY DEF IInv
<1>1. TypeOK'
    BY <1>0, ArgsType DEF Backup, Sets, Executed, Skipped, Goto,
                          AfterBackup, TypeOK, PCs, Outcomes
<1>2. Run'
    BY <1>0, ArgsType DEF Backup, Sets, Executed, Skipped, Goto,
                          AfterBackup, TypeOK, Run, LinkKept, InRun,
                          OtelUntouched, FileOld, FileNew, BakMade, Stopped,
                          Fresh, Healthy, UnitsDone, Undone
<1>3. Kept'
    BY <1>0 DEF Backup, Sets, Executed, Skipped, Goto, TypeOK, Run, FileOld,
                Kept
<1>4. Applied' /\ MigrationsInOrder'
    BY <1>0 DEF Backup, Goto, Applied, Promises, MigrationsInOrder
<1>5. SuccessMeansRunning' /\ RolledBack'
    BY <1>0 DEF Backup, Goto, Run, InRun, SuccessMeansRunning, RolledBack
<1>6. QED
    BY <1>1, <1>2, <1>3, <1>4, <1>5 DEF IInv, Promises

LEMMA StopStep == IInv /\ Stop => IInv'
<1> SUFFICES ASSUME IInv, Stop PROVE IInv'
    OBVIOUS
<1>0. TypeOK /\ Run /\ Kept /\ Applied /\ Promises
    BY DEF IInv
<1>1. TypeOK'
    BY <1>0, ArgsType DEF Stop, Sets, Executed, Skipped, Goto, TypeOK, PCs,
                          Outcomes
<1>2. Run'
    BY <1>0, ArgsType DEF Stop, Sets, Executed, Skipped, Goto, TypeOK, Run,
                          LinkKept, InRun, OtelUntouched, FileOld, FileNew,
                          BakMade, Stopped, Fresh, Healthy, UnitsDone,
                          Undone
<1>3. Kept'
    BY <1>0 DEF Stop, Goto, Kept
<1>4. Applied' /\ MigrationsInOrder'
    BY <1>0 DEF Stop, Goto, Applied, Promises, MigrationsInOrder
<1>5. SuccessMeansRunning' /\ RolledBack'
    BY <1>0 DEF Stop, Goto, Run, InRun, SuccessMeansRunning, RolledBack
<1>6. QED
    BY <1>1, <1>2, <1>3, <1>4, <1>5 DEF IInv, Promises

LEMMA UploadStep == IInv /\ Upload => IInv'
<1> SUFFICES ASSUME IInv, Upload PROVE IInv'
    OBVIOUS
<1>0. TypeOK /\ Run /\ Kept /\ Applied /\ Promises
    BY DEF IInv
<1>1. TypeOK'
    BY <1>0, ArgsType DEF Upload, UploadFails, Goto, Return, host, TypeOK,
                          PCs, Outcomes
<1>2. Run'
    BY <1>0, ArgsType DEF Upload, UploadFails, Goto, Return, host, TypeOK,
                          Run, LinkKept, InRun, OtelUntouched, FileOld,
                          FileNew, BakMade, Stopped, Fresh, Healthy,
                          UnitsDone, Undone
<1>3. Kept'
    BY <1>0 DEF Upload, Goto, Return, host, Kept
<1>4. Applied' /\ MigrationsInOrder'
    BY <1>0 DEF Upload, Goto, Return, host, Applied, Promises,
                MigrationsInOrder
<1>5. SuccessMeansRunning' /\ RolledBack'
    BY <1>0 DEF Upload, Goto, Return, host, Run, InRun, SuccessMeansRunning,
                RolledBack
<1>6. QED
    BY <1>1, <1>2, <1>3, <1>4, <1>5 DEF IInv, Promises

LEMMA MoveStep == IInv /\ Move => IInv'
<1> SUFFICES ASSUME IInv, Move PROVE IInv'
    OBVIOUS
<1>0. TypeOK /\ Run /\ Kept /\ Applied /\ Promises
    BY DEF IInv
<1>1. TypeOK'
  <2>1. file' \in [Units -> Versions \cup {None}]
    BY <1>0, ArgsType DEF Move, Sets, Executed, Skipped, TypeOK
  <2>2. pc' \in PCs /\ outcome' \in Outcomes /\ link' \in BOOLEAN
    BY <1>0 DEF Move, Goto, Return, TypeOK, PCs, Outcomes
  <2>3. next' \in 1 .. Migrations + 1
    BY <1>0 DEF Move, Goto, Return, TypeOK
  <2>4. UNCHANGED <<bak, up, schema, unit, args, before, faults>>
    BY DEF Move, Goto, Return
  <2>5. QED
    BY <1>0, <2>1, <2>2, <2>3, <2>4 DEF TypeOK
<1>2. Run'
    BY <1>0, ArgsType DEF Move, Sets, Executed, Skipped, Goto, Return,
                          TypeOK, Run, LinkKept, InRun, OtelUntouched,
                          FileOld, FileNew, BakMade, Stopped, Fresh,
                          Healthy, UnitsDone, Undone
<1>3. Kept'
    BY <1>0 DEF Move, Sets, Executed, Skipped, Goto, Return, TypeOK, Run,
                FileOld, BakMade, Kept
<1>4. Applied' /\ MigrationsInOrder'
    BY <1>0 DEF Move, Goto, Return, Applied, Promises, MigrationsInOrder
<1>5. SuccessMeansRunning' /\ RolledBack'
    BY <1>0 DEF Move, Goto, Return, Run, InRun, SuccessMeansRunning,
                RolledBack
<1>6. QED
    BY <1>1, <1>2, <1>3, <1>4, <1>5 DEF IInv, Promises

LEMMA StartStep == IInv /\ Start => IInv'
<1> SUFFICES ASSUME IInv, Start PROVE IInv'
    OBVIOUS
<1>0. TypeOK /\ Run /\ Kept /\ Applied /\ Promises
    BY DEF IInv
<1>1. TypeOK'
    BY <1>0, ArgsType DEF Start, Sets, Executed, Skipped, StartedNow,
                          Started, Goto, Return, TypeOK, PCs, Outcomes
<1>2. Run'
    BY <1>0, ArgsType DEF Start, Sets, Executed, Skipped, StartedNow,
                          Started, Goto, Return, TypeOK, Run, LinkKept,
                          InRun, OtelUntouched, FileOld, FileNew, BakMade,
                          Stopped, Fresh, Healthy, UnitsDone, Undone
<1>3. Kept'
    BY <1>0 DEF Start, Goto, Return, Kept
<1>4. Applied' /\ MigrationsInOrder'
    BY <1>0 DEF Start, Goto, Return, Applied, Promises, MigrationsInOrder
<1>5. SuccessMeansRunning' /\ RolledBack'
    BY <1>0 DEF Start, Goto, Return, Run, InRun, LinkKept,
                SuccessMeansRunning, RolledBack
<1>6. QED
    BY <1>1, <1>2, <1>3, <1>4, <1>5 DEF IInv, Promises

LEMMA HealthStep == IInv /\ Health => IInv'
<1> SUFFICES ASSUME IInv, Health PROVE IInv'
    OBVIOUS
<1>0. TypeOK /\ Run /\ Kept /\ Applied /\ Promises
    BY DEF IInv
<1>1. TypeOK'
    BY <1>0, ArgsType DEF Health, Started, Goto, host, TypeOK, PCs, Outcomes
<1>2. Run'
    BY <1>0, ArgsType DEF Health, Started, Goto, host, TypeOK, Run,
                          LinkKept, InRun, OtelUntouched, FileOld, FileNew,
                          BakMade, Stopped, Fresh, Healthy, UnitsDone,
                          Undone
<1>3. Kept'
    BY <1>0 DEF Health, Goto, host, Kept
<1>4. Applied' /\ MigrationsInOrder'
    BY <1>0 DEF Health, Goto, host, Applied, Promises, MigrationsInOrder
<1>5. SuccessMeansRunning' /\ RolledBack'
    BY <1>0 DEF Health, Goto, host, Run, InRun, SuccessMeansRunning,
                RolledBack
<1>6. QED
    BY <1>1, <1>2, <1>3, <1>4, <1>5 DEF IInv, Promises

LEMMA UndoStopStep == IInv /\ UndoStop => IInv'
<1> SUFFICES ASSUME IInv, UndoStop PROVE IInv'
    OBVIOUS
<1>0. TypeOK /\ Run /\ Kept /\ Applied /\ Promises
    BY DEF IInv
<1>1. TypeOK'
    BY <1>0, ArgsType DEF UndoStop, Sets, Executed, Skipped, Goto, TypeOK,
                          PCs, Outcomes
<1>2. Run'
    BY <1>0, ArgsType DEF UndoStop, Sets, Executed, Skipped, Goto, TypeOK,
                          Run, LinkKept, InRun, OtelUntouched, FileOld,
                          FileNew, BakMade, Stopped, Fresh, Healthy,
                          UnitsDone, Undone
<1>3. Kept'
    BY <1>0 DEF UndoStop, Goto, Kept
<1>4. Applied' /\ MigrationsInOrder'
    BY <1>0 DEF UndoStop, Goto, Applied, Promises, MigrationsInOrder
<1>5. SuccessMeansRunning' /\ RolledBack'
    BY <1>0 DEF UndoStop, Goto, Run, InRun, SuccessMeansRunning, RolledBack
<1>6. QED
    BY <1>1, <1>2, <1>3, <1>4, <1>5 DEF IInv, Promises

LEMMA UndoMoveStep == IInv /\ UndoMove => IInv'
<1> SUFFICES ASSUME IInv, UndoMove PROVE IInv'
    OBVIOUS
<1>0. TypeOK /\ Run /\ Kept /\ Applied /\ Promises
    BY DEF IInv
<1>1. TypeOK'
    BY <1>0, ArgsType DEF UndoMove, Executed, Skipped, Goto, TypeOK, PCs,
                          Outcomes
<1>2. Run'
    BY <1>0, ArgsType DEF UndoMove, Executed, Skipped, Goto, TypeOK, Run,
                          LinkKept, InRun, OtelUntouched, FileOld, FileNew,
                          BakMade, Stopped, Fresh, Healthy, UnitsDone,
                          Undone
<1>3. Kept'
    BY <1>0 DEF UndoMove, Executed, Skipped, Goto, TypeOK, Run, BakMade,
                Kept
<1>4. Applied' /\ MigrationsInOrder'
    BY <1>0 DEF UndoMove, Goto, Applied, Promises, MigrationsInOrder
<1>5. SuccessMeansRunning' /\ RolledBack'
    BY <1>0 DEF UndoMove, Goto, Run, InRun, SuccessMeansRunning, RolledBack
<1>6. QED
    BY <1>1, <1>2, <1>3, <1>4, <1>5 DEF IInv, Promises

LEMMA UndoStartStep == IInv /\ UndoStart => IInv'
<1> SUFFICES ASSUME IInv, UndoStart PROVE IInv'
    OBVIOUS
<1>0. TypeOK /\ Run /\ Kept /\ Applied /\ Promises
    BY DEF IInv
<1>1. TypeOK'
    BY <1>0, ArgsType DEF UndoStart, Sets, Executed, Skipped, StartedNow,
                          Started, Return, TypeOK, PCs, Outcomes
<1>2. Run'
    BY <1>0, ArgsType DEF UndoStart, Sets, Executed, Skipped, StartedNow,
                          Started, Return, TypeOK, Run, LinkKept, InRun,
                          OtelUntouched, FileOld, FileNew, BakMade, Stopped,
                          Fresh, Healthy, UnitsDone, Undone
<1>3. Kept'
    BY <1>0 DEF UndoStart, Return, Kept
<1>4. Applied' /\ MigrationsInOrder'
    BY <1>0 DEF UndoStart, Return, Applied, Promises, MigrationsInOrder
<1>5. SuccessMeansRunning' /\ RolledBack'
    BY <1>0 DEF UndoStart, Sets, Executed, Skipped, StartedNow, Started,
                Return, TypeOK, Run, LinkKept, Undone, SuccessMeansRunning,
                RolledBack
<1>6. QED
    BY <1>1, <1>2, <1>3, <1>4, <1>5 DEF IInv, Promises

LEMMA CleanupStep == IInv /\ Cleanup => IInv'
<1> SUFFICES ASSUME IInv, Cleanup PROVE IInv'
    OBVIOUS
<1>0. TypeOK /\ Run /\ Kept /\ Applied /\ Promises
    BY DEF IInv
<1>1. TypeOK'
    BY <1>0, ArgsType DEF Cleanup, Sets, Executed, Skipped, Continue, Goto,
                          Return, TypeOK, PCs, Outcomes
<1>2. Run'
    BY <1>0, ArgsType DEF Cleanup, Sets, Executed, Skipped, Continue, Goto,
                          Return, TypeOK, Run, LinkKept, InRun,
                          OtelUntouched, FileOld, FileNew, BakMade, Stopped,
                          Fresh, Healthy, UnitsDone, Undone
<1>3. Kept'
    BY <1>0, ArgsType DEF Cleanup, Sets, Executed, Skipped, Continue, Goto,
                          Return, TypeOK, Run, InRun, Healthy, Kept
<1>4. Applied' /\ MigrationsInOrder'
    BY <1>0 DEF Cleanup, Continue, Goto, Return, Applied, Promises,
                MigrationsInOrder
<1>5. SuccessMeansRunning' /\ RolledBack'
    BY <1>0, ArgsType DEF Cleanup, Sets, Executed, Skipped, Continue, Goto,
                          Return, TypeOK, Run, InRun, Healthy, UnitsDone,
                          SuccessMeansRunning, RolledBack
<1>6. QED
    BY <1>1, <1>2, <1>3, <1>4, <1>5 DEF IInv, Promises

LEMMA MigrateStep == IInv /\ Migrate => IInv'
<1> SUFFICES ASSUME IInv, Migrate PROVE IInv'
    OBVIOUS
<1>0. TypeOK /\ Run /\ Kept /\ Applied /\ Promises
    BY DEF IInv
<1>1. /\ UNCHANGED <<file, bak, up, unit, args, link, before, faults>>
      /\ pc = "migrate"
      /\ schema' = schema \/ (next <= Migrations /\ schema' = schema \cup {next})
    BY DEF Migrate, NextMigration, Return
<1>2. \/ /\ next <= Migrations /\ next' = next + 1
         /\ schema' = schema \cup {next}
         /\ pc' = pc /\ outcome' = outcome
      \/ /\ next' = 1 /\ pc' = "idle"
         /\ outcome' = "failed" \/ (outcome' = "done" /\ next > Migrations /\ schema' = schema)
    BY DEF Migrate, NextMigration, Return
<1>3. next \in 1 .. Migrations + 1 /\ schema \subseteq 1 .. Migrations
    BY <1>0 DEF TypeOK
<1>4. TypeOK'
  <2>1. next <= Migrations => next \in 1 .. Migrations
    BY <1>3
  <2>2. schema' \subseteq 1 .. Migrations
    BY <1>1, <1>3, <2>1
  <2>3. next' \in 1 .. Migrations + 1
    BY <1>2, <1>3
  <2>4. pc' \in PCs /\ outcome' \in Outcomes
    BY <1>0, <1>2 DEF TypeOK, PCs, Outcomes
  <2>5. QED
    BY <1>0, <1>1, <2>2, <2>3, <2>4 DEF TypeOK
<1>5. Run' /\ Kept'
    BY <1>0, <1>1, <1>2, ArgsType DEF TypeOK, Run, LinkKept, InRun, OtelUntouched,
       FileOld, FileNew, BakMade, Stopped, Fresh, Healthy, UnitsDone, Undone, Kept
<1>6. \A n \in 1 .. Migrations : n < next => n \in schema
    BY <1>0, <1>1 DEF Applied
<1>7. Applied'
    BY <1>1, <1>2, <1>3, <1>6 DEF Applied
<1>8. MigrationsInOrder'
  <2> SUFFICES ASSUME NEW n \in schema', NEW k \in 1 .. n PROVE k \in schema'
    BY DEF MigrationsInOrder
  <2>1. CASE n \in schema
    BY <1>0, <1>1, <2>1 DEF Promises, MigrationsInOrder
  <2>2. CASE n = next /\ next <= Migrations /\ schema' = schema \cup {next}
    BY <1>3, <1>6, <2>2
  <2>3. QED
    BY <1>1, <2>1, <2>2
<1>9. SuccessMeansRunning' /\ RolledBack'
  <2>1. outcome' = "done" => schema' = 1 .. Migrations
    <3>1. SUFFICES ASSUME outcome' = "done" PROVE schema = 1 .. Migrations /\ schema' = schema
      OBVIOUS
    <3>2. next > Migrations /\ schema' = schema
      BY <1>0, <1>1, <1>2, <3>1 DEF Run, InRun
    <3>3. \A n \in 1 .. Migrations : n < next
      BY <1>3, <3>2
    <3>4. QED
      BY <1>3, <1>6, <3>2, <3>3
  <2>2. ~Unnoticed => Upgraded("agent") /\ Upgraded("otel")
    BY <1>0, <1>1 DEF Run, UnitsDone
  <2>3. outcome' # "rolledBack"
    BY <1>0, <1>1, <1>2 DEF Run, InRun
  <2>4. QED
    BY <1>1, <2>1, <2>2, <2>3 DEF SuccessMeansRunning, RolledBack
<1>10. QED
    BY <1>4, <1>5, <1>7, <1>8, <1>9 DEF IInv, Promises

LEMMA DropLinkStep == IInv /\ DropLink => IInv'
<1> SUFFICES ASSUME IInv, DropLink PROVE IInv'
    OBVIOUS
<1>0. TypeOK /\ Run /\ Kept /\ Applied /\ Promises
    BY DEF IInv
<1>1. TypeOK'
    BY <1>0, ArgsType DEF DropLink, host, TypeOK, PCs, Outcomes
<1>2. Run'
    BY <1>0, ArgsType DEF DropLink, host, TypeOK, Run, LinkKept, InRun,
                          OtelUntouched, FileOld, FileNew, BakMade, Stopped,
                          Fresh, Healthy, UnitsDone, Undone
<1>3. Kept'
    BY <1>0 DEF DropLink, host, Kept
<1>4. Applied' /\ MigrationsInOrder'
    BY <1>0 DEF DropLink, host, Applied, Promises, MigrationsInOrder
<1>5. SuccessMeansRunning' /\ RolledBack'
    BY <1>0 DEF DropLink, host, Run, InRun, SuccessMeansRunning, RolledBack
<1>6. QED
    BY <1>1, <1>2, <1>3, <1>4, <1>5 DEF IInv, Promises

-----------------------------------------------------------------------------
LEMMA BeginStep ==
    ASSUME IInv, NEW cfg \in UpgradeConfig, Begin(cfg)
    PROVE  IInv'
<1>0. TypeOK /\ Run /\ Kept /\ Applied /\ Promises
    BY DEF IInv
<1>1. TypeOK'
    BY <1>0 DEF Begin, host, TypeOK, PCs, Outcomes
<1>2. Run' /\ Kept'
    BY <1>0 DEF Begin, host, UpgradeConfig, Run, LinkKept, InRun, OtelUntouched, FileOld,
       FileNew, BakMade, Stopped, Fresh, Healthy, UnitsDone, Undone, Kept
<1>3. Applied' /\ Promises'
    BY <1>0 DEF Begin, host, Applied, Promises, SuccessMeansRunning, RolledBack,
       MigrationsInOrder
<1>4. QED
    BY <1>1, <1>2, <1>3 DEF IInv

LEMMA StutterStep == IInv /\ UNCHANGED vars => IInv'
<1> SUFFICES ASSUME IInv, UNCHANGED vars PROVE IInv'
    OBVIOUS
<1>1. TypeOK'
    BY DEF IInv, TypeOK, vars
<1>2. Run' /\ Kept'
    BY DEF IInv, vars, Run, LinkKept, InRun, OtelUntouched, FileOld, FileNew, BakMade,
       Stopped, Fresh, Healthy, UnitsDone, Undone, Kept
<1>3. Applied' /\ Promises'
    BY DEF IInv, vars, Applied, Promises, SuccessMeansRunning, RolledBack, MigrationsInOrder
<1>4. QED
    BY <1>1, <1>2, <1>3 DEF IInv

(* The invariant holds throughout every sequence of runs of                *)
(* upgrade.go:RunUpgrade.                                                  *)
THEOREM Invariance == Spec => []IInv
<1>1. IInv /\ [Next]_vars => IInv'
    BY BackupStep, StopStep, UploadStep, MoveStep, StartStep, HealthStep, UndoStopStep,
       UndoMoveStep, UndoStartStep, CleanupStep, MigrateStep, DropLinkStep, BeginStep,
       StutterStep DEF Next, Step
<1>2. QED
    BY InitInv, <1>1, PTL DEF Spec

(* Every variable keeps its type.                                          *)
THEOREM TypeCorrectness == Spec => []TypeOK
<1>1. IInv => TypeOK
    BY DEF IInv
<1>2. QED
    BY Invariance, <1>1, PTL

(* A run that prints that it is complete has installed and started what    *)
(* was asked for and applied every migration, wherever the connection was  *)
(* lost, unless a remote command failed unnoticed.                         *)
THEOREM HonestSuccess == Spec => []SuccessMeansRunning
<1>1. IInv => SuccessMeansRunning
    BY DEF IInv, Promises
<1>2. QED
    BY Invariance, <1>1, PTL

(* The two rollbacks after a failed health check restore what the run      *)
(* found, file and service, on a reliable connection.                      *)
THEOREM RollbackRestores == Spec => []RolledBack
<1>1. IInv => RolledBack
    BY DEF IInv, Promises
<1>2. QED
    BY Invariance, <1>1, PTL

(* Between cp, mv and rm of the .bak there is always a working version,    *)
(* also when the run is cut off.                                           *)
THEOREM NoVersionLost == Spec => []WorkingVersionKept
<1>1. IInv => WorkingVersionKept
    BY DEF IInv, Kept, WorkingVersionKept
<1>2. QED
    BY Invariance, <1>1, PTL

(* runDDLMigrations applies a file only after all those before it.         *)
THEOREM OrderedMigrations == Spec => []MigrationsInOrder
<1>1. IInv => MigrationsInOrder
    BY DEF IInv, Promises
<1>2. QED
    BY Invariance, <1>1, PTL
-----------------------------------------------------------------------------
(* Every run ends: the steps left, at most so many.  Those of a unit come  *)
(* before those of the migrations, those of the agent before those of the  *)
(* OTel agent, and a rollback is shorter than what it replaces.            *)
StepsOfMigrations == Migrations + 1

StepsOfUnit == 8

StepsInUnit ==
    CASE pc = "backup"  -> 8
      [] pc = "stop"    -> 7
      [] pc = "upload"  -> 6
      [] pc = "move"    -> 5
      [] pc = "start"   -> 4
      [] pc = "health"  -> 3
      [] OTHER          -> 1

StepsOfRun == 2 * StepsOfUnit + StepsOfMigrations

StepsLeft ==
    CASE pc = "idle"      -> 0
      [] pc = "undoStart" -> 1
      [] pc = "undoMove"  -> 2
      [] pc = "undoStop"  -> 3
      [] pc = "migrate"   -> Migrations + 2 - next
      [] OTHER            -> StepsInUnit + StepsOfMigrations
                             + (IF unit = "agent" THEN StepsOfUnit ELSE 0)

(* Every step of a run lowers the count, and losing the connection does    *)
(* not raise it.                                                           *)
RunCountsDown ==
    [][/\ Step => StepsLeft' < StepsLeft
       /\ pc # "idle" => StepsLeft' <= StepsLeft]_vars

LEMMA StepsLeftRange ==
    ASSUME TypeOK
    PROVE  StepsLeft \in 0 .. StepsOfRun /\ (StepsLeft = 0 <=> pc = "idle")
<1>1. next \in 1 .. Migrations + 1 /\ Migrations \in Nat /\ StepsInUnit \in 1 .. 8
    BY DEF TypeOK, StepsInUnit
<1>. QED
    BY <1>1 DEF StepsLeft, StepsOfRun, StepsOfUnit, StepsOfMigrations

LEMMA StepCounts ==
    ASSUME TypeOK, Step
    PROVE  StepsLeft' < StepsLeft
<1>. USE DEF StepsLeft, StepsInUnit, StepsOfUnit, StepsOfMigrations
<1>0. next \in 1 .. Migrations + 1 /\ Migrations \in Nat
    BY DEF TypeOK
<1>1. CASE Backup \/ Stop
    BY <1>0, <1>1 DEF Backup, Stop, Goto, AfterBackup
<1>2. CASE Upload
    BY <1>0, <1>2 DEF Upload, Goto, Return
<1>3. CASE Move
    BY <1>0, <1>3 DEF Move, Goto, Return
<1>4. CASE Start
    BY <1>0, <1>4 DEF Start, Goto, Return
<1>5. CASE Health
    BY <1>0, <1>5 DEF Health, Goto
<1>6. CASE UndoStop \/ UndoMove \/ UndoStart
    BY <1>0, <1>6 DEF UndoStop, UndoMove, UndoStart, Goto, Return
<1>7. CASE Cleanup
    <2>1. StepsLeft = 1 + StepsOfMigrations + (IF unit = "agent" THEN 8 ELSE 0)
        BY <1>7 DEF Cleanup
    <2>2. CASE unit = "agent" /\ pc' = "backup" /\ unit' = "otel"
        BY <1>0, <2>1, <2>2
    <2>3. CASE Goto("migrate")
        BY <1>0, <2>1, <2>3 DEF Goto
    <2>4. CASE Return("done")
        BY <1>0, <2>1, <2>4 DEF Return
    <2>. QED
        BY <1>7, <2>2, <2>3, <2>4 DEF Cleanup, Continue
<1>8. CASE Migrate
    BY <1>0, <1>8 DEF Migrate, NextMigration, Return
<1>. QED
    BY <1>1, <1>2, <1>3, <1>4, <1>5, <1>6, <1>7, <1>8 DEF Step

(* RunUpgrade returns after a bounded number of steps, whatever fails and  *)
(* wherever the connection is lost: eight for the agent, eight for the     *)
(* OTel agent, one for each migration and one to report.  The count is 0   *)
(* when no run is under way and at no other time.                          *)
THEOREM RunIsBounded ==
    Spec => /\ [](StepsLeft \in 0 .. StepsOfRun /\ (StepsLeft = 0 <=> pc = "idle"))
            /\ RunCountsDown
<1>1. TypeOK => StepsLeft \in 0 .. StepsOfRun /\ (StepsLeft = 0 <=> pc = "idle")
    BY StepsLeftRange
<1>2. TypeOK /\ TypeOK' /\ [Next]_vars =>
        [/\ Step => StepsLeft' < StepsLeft
         /\ pc # "idle" => StepsLeft' <= StepsLeft]_vars
    <2>. SUFFICES ASSUME TypeOK, TypeOK', [Next]_vars
                  PROVE  /\ Step => StepsLeft' < StepsLeft
                         /\ pc # "idle" => StepsLeft' <= StepsLeft
        OBVIOUS
    <2>1. StepsLeft \in Int /\ StepsLeft' \in Int
        <3>1. next \in Int /\ next' \in Int /\ Migrations \in Int
            BY DEF TypeOK
        <3>. QED
            BY <3>1 DEF StepsLeft, StepsInUnit, StepsOfUnit, StepsOfMigrations
    <2>2. UNCHANGED <<pc, unit, next>> => StepsLeft' = StepsLeft
        BY DEF StepsLeft, StepsInUnit
    <2>3. pc # "idle" => Step \/ UNCHANGED <<pc, unit, next>>
        BY DEF Next, Begin, DropLink, vars
    <2>. QED
        BY <2>1, <2>2, <2>3, StepCounts
<1>. QED
    BY <1>1, <1>2, TypeCorrectness, PTL DEF Spec, RunCountsDown
-----------------------------------------------------------------------------
(* Where nothing fails, an upgrade to versions that work is not rolled     *)
(* back and does not fail, whatever the runs before it left behind.        *)
CleanUpgrade ==
    (faults = {} /\ args.agent \in Working /\ args.otel \in Working \cup {None}) =>
        outcome \in {None, "done"}

(* No step of such a run leads to a rollback.                              *)
OnCourse ==
    (faults = {} /\ args.agent \in Working /\ args.otel \in Working \cup {None}) =>
        /\ outcome \in {None, "done"}
        /\ pc \notin {"undoStop", "undoMove", "undoStart"}

LEMMA OnCourseStep == IInv /\ OnCourse /\ [Next]_vars => OnCourse'
<1>. SUFFICES ASSUME IInv, OnCourse, [Next]_vars, faults' = {},
                     args'.agent \in Working, args'.otel \in Working \cup {None}
              PROVE  /\ outcome' \in {None, "done"}
                     /\ pc' \notin {"undoStop", "undoMove", "undoStart"}
    BY DEF OnCourse
<1>0. /\ faults = {} /\ TypeOK
      /\ pc # "idle" => link
    BY DEF IInv, Run, LinkKept, Next, Begin, DropLink, Step, Backup, Stop, Upload, Move,
           Start, Health, UndoStop, UndoMove, UndoStart, Cleanup, Migrate, vars
<1>1. CASE \E cfg \in UpgradeConfig : Begin(cfg)
    BY <1>1 DEF Begin
<1>2. ASSUME args' = args
      PROVE  /\ outcome \in {None, "done"}
             /\ pc \notin {"undoStop", "undoMove", "undoStart"}
             /\ args.agent \in Working /\ args.otel \in Working \cup {None}
    BY <1>0, <1>2 DEF OnCourse
<1>3. CASE Backup \/ Stop
    BY <1>2, <1>3 DEF Backup, Stop, Goto, AfterBackup
<1>4. CASE Upload \/ Move \/ Start
    BY <1>0, <1>2, <1>4
       DEF Upload, Move, Start, UploadFails, Goto, Return
<1>5. CASE Health
    <2>1. args' = args /\ args[unit] \in Working \cup {None} /\ args[unit] # None
        BY <1>0, <1>2, <1>5 DEF Health, Goto, TypeOK, IInv, Run, InRun
    <2>2. up[unit] # None
        BY <1>0, <1>5, <2>1 DEF Health, IInv, Run, Fresh, Started
    <2>. QED
        BY <1>0, <1>2, <1>5, <2>1, <2>2 DEF Health, Goto
<1>6. CASE UndoStop \/ UndoMove \/ UndoStart
    BY <1>2, <1>6 DEF UndoStop, UndoMove, UndoStart, Goto, Return
<1>7. CASE Cleanup
    BY <1>2, <1>7 DEF Cleanup, Continue, Goto, Return
<1>8. CASE Migrate
    BY <1>0, <1>2, <1>8 DEF Migrate, Fails, NextMigration, Return
<1>9. CASE DropLink \/ UNCHANGED vars
    BY <1>0, <1>2, <1>9 DEF DropLink, vars
<1>. QED
    BY <1>1, <1>3, <1>4, <1>5, <1>6, <1>7, <1>8, <1>9 DEF Next, Step

(* Without a fault nothing ends an upgrade to working versions but its     *)
(* success: what it finds of earlier runs, to versions that do not work    *)
(* and rolled back or not, cannot fail it.                                 *)
THEOREM CleanUpgradeSucceeds == Spec => []CleanUpgrade
<1>1. Init => OnCourse
    BY DEF Init, OnCourse
<1>2. OnCourse => CleanUpgrade
    BY DEF OnCourse, CleanUpgrade
<1>. QED
    BY <1>1, <1>2, OnCourseStep, Invariance, PTL DEF Spec
=============================================================================
