------------------------------ MODULE Upgrade ------------------------------
(***************************************************************************)
(* k-o11y-db upgrade (internal/installer/upgrade.go): the binary of the DB *)
(* agent, then the config of the OTel agent, then the migrations, over an  *)
(* executor (internal/ssh) that reports fewer errors than it seems to.     *)
(*                                                                         *)
(* The binary and the config go the same way: copy to .bak, upload, mv,    *)
(* start, health check; a failed check moves the .bak back and starts that.*)
(* The agent is stopped before the upload, the OTel agent is restarted     *)
(* after the mv.  A file is named by the version it holds.                 *)
(*                                                                         *)
(* The operator may run upgrade again and again, to any version, whatever  *)
(* the last run left behind.                                               *)
(***************************************************************************)
EXTENDS Integers, FiniteSets

CONSTANTS
    Versions,       \* of the agent's binary and of the OTel config
    Working,        \* those that start and answer the health check
    Migrations,     \* number of files under sql/migrations
    FaultScenarios  \* sets of faults that may happen together

None  == "none"
Units == {"agent", "otel"}

(* "upload": UploadBytes fails although the connection is up.              *)
(* "command": a remote command exits non-zero without its effect.          *)
(* "link": the connection is lost or the operator stops the program.       *)
(* "health": the check fails although the service runs (it is slow, or     *)
(* ClickHouse is down, of which /health makes a 503).                      *)
(* "query": a migration fails.                                             *)
FaultKinds == {"upload", "command", "link", "health", "query"}

ASSUME VersionsAssumption   == None \notin Versions /\ Working \subseteq Versions
ASSUME MigrationsAssumption == Migrations \in Nat
ASSUME FaultsAssumption     == FaultScenarios \subseteq SUBSET FaultKinds

VARIABLES
    (* the host *)
    file,     \* what is at the path the service starts from
    bak,      \* the .bak beside it
    up,       \* the version that runs
    schema,   \* migrations that have been applied
    (* the program *)
    pc,       \* next step
    unit,     \* what is being upgraded
    args,     \* UpgradeConfig
    next,     \* migration to run next, 1 outside runDDLMigrations
    link,     \* the executor's connection works
    (* history *)
    outcome,  \* what the last run reported
    before,   \* file at the start of the run
    faults    \* the scenario

host == <<file, bak, up, schema>>
prog == <<pc, unit, args, next, link, outcome, before>>
vars == <<file, bak, up, schema, pc, unit, args, next, link, outcome, before, faults>>

UpgradeConfig == [agent : Versions, otel : Versions \cup {None}, ddl : BOOLEAN]
Outcomes == {None, "done", "failed", "rolledBack"}
PCs == {"idle", "backup", "stop", "upload", "move", "start", "health",
        "undoStop", "undoMove", "undoStart", "cleanup", "migrate"}

TypeOK ==
    /\ file \in [Units -> Versions \cup {None}]
    /\ bak \in [Units -> Versions \cup {None}]
    /\ up \in [Units -> Working \cup {None}]
    /\ schema \subseteq 1 .. Migrations
    /\ pc \in PCs
    /\ unit \in Units
    /\ args \in UpgradeConfig
    /\ next \in 1 .. Migrations + 1
    /\ link \in BOOLEAN
    /\ outcome \in Outcomes
    /\ before \in [Units -> Versions \cup {None}]
    /\ faults \in FaultScenarios

(* Mutant: whatever systemd starts is taken to run.                        *)
StartedAnyway(version) == version

(* A version that does not work is restarted by systemd for ever.          *)
Started(version) == IF version \in Working THEN version ELSE None

(* The agent is installed and runs; the OTel agent is optional.  An older  *)
(* host has some of the migrations.                                        *)
Init ==
    /\ file \in [Units -> Working \cup {None}]
    /\ file["agent"] # None
    /\ bak = [u \in Units |-> None]
    /\ up = file
    /\ \E n \in 0 .. Migrations : schema = 1 .. n
    /\ pc = "idle" /\ unit = "agent"
    /\ args \in UpgradeConfig /\ args.otel = None /\ ~args.ddl
    /\ next = 1
    /\ link = TRUE
    /\ outcome = None
    /\ before = file
    /\ faults \in FaultScenarios

-----------------------------------------------------------------------------
(* Commands over the executor.                                             *)

(* Exec and ExecSudo: a command may take effect or not, and neither its    *)
(* exit code nor, mostly, the error of a lost connection is looked at.     *)
Executed == link
Skipped  == ~link \/ "command" \in faults

(* A command sets what is at place of the unit to value, or does nothing.    *)
Sets(place, value) ==
    \/ Executed /\ place' = [place EXCEPT ![unit] = value]
    \/ Skipped /\ UNCHANGED place

UploadFails == ~link \/ "upload" \in faults

Goto(p) == pc' = p /\ UNCHANGED <<unit, args, next, link, outcome, before>>

Return(result) ==
    /\ pc' = "idle"
    /\ outcome' = result
    /\ next' = 1
    /\ UNCHANGED <<unit, args, link, before>>

-----------------------------------------------------------------------------
(* RunUpgrade.  A missing local binary ends it here, with nothing changed. *)

Begin(cfg) ==
    /\ pc = "idle"
    /\ args' = cfg
    /\ pc' = "backup" /\ unit' = "agent"
    /\ link' = TRUE
    /\ outcome' = None
    /\ before' = file
    /\ UNCHANGED <<host, next, faults>>

(* The connection is lost for the rest of the run.                         *)
DropLink ==
    /\ "link" \in faults
    /\ pc # "idle" /\ link
    /\ link' = FALSE
    /\ UNCHANGED <<host, pc, unit, args, next, outcome, before, faults>>

(* What comes after the unit: the OTel agent and the migrations on demand. *)
Continue ==
    \/ /\ unit = "agent" /\ args.otel # None
       /\ pc' = "backup" /\ unit' = "otel"
       /\ UNCHANGED <<args, next, link, outcome, before>>
    \/ /\ unit = "otel" \/ args.otel = None
       /\ args.ddl
       /\ Goto("migrate")
    \/ /\ unit = "otel" \/ args.otel = None
       /\ ~args.ddl
       /\ Return("done")

-----------------------------------------------------------------------------
(* upgradeDBAgent and upgradeOtelAgent.                                    *)

AfterBackup == IF unit = "agent" THEN "stop" ELSE "upload"

(* Mutant: cp -n, an old .bak is kept.                                     *)
BackupOnce ==
    /\ pc = "backup"
    /\ IF bak[unit] = None THEN Sets(bak, file[unit]) ELSE UNCHANGED bak
    /\ Goto(AfterBackup)
    /\ UNCHANGED <<file, up, schema, faults>>

(* Without a file cp fails.                                                *)
Backup ==
    /\ pc = "backup"
    /\ IF file[unit] # None THEN Sets(bak, file[unit]) ELSE UNCHANGED bak
    /\ Goto(AfterBackup)
    /\ UNCHANGED <<file, up, schema, faults>>

(* Mutant: the agent is not stopped.                                       *)
StopForgotten ==
    /\ pc = "stop"
    /\ Goto("upload")
    /\ UNCHANGED <<host, faults>>

Stop ==
    /\ pc = "stop"
    /\ Sets(up, None)
    /\ Goto("upload")
    /\ UNCHANGED <<file, bak, schema, faults>>

(* A failed upload returns as it is, with the agent stopped.               *)
Upload ==
    /\ pc = "upload"
    /\ \/ link /\ Goto("move")
       \/ UploadFails /\ Return("failed")
    /\ UNCHANGED <<host, faults>>

(* The agent's mv is the one whose error ends the upgrade; it may have     *)
(* taken effect when the connection is lost.                               *)
Move ==
    /\ pc = "move"
    /\ \/ /\ link \/ unit = "otel"
          /\ Sets(file, args[unit])
          /\ Goto("start")
       \/ /\ ~link /\ unit = "agent"
          /\ UNCHANGED file
          /\ Return("failed")
       \/ /\ link /\ "link" \in faults /\ unit = "agent"
          /\ Sets(file, args[unit])
          /\ pc' = "idle" /\ outcome' = "failed" /\ link' = FALSE
          /\ UNCHANGED <<unit, args, next, before>>
    /\ UNCHANGED <<bak, up, schema, faults>>

(* systemctl start does nothing when the agent runs; otelcol is restarted. *)
StartedNow == IF unit = "agent" /\ up[unit] # None THEN up[unit] ELSE Started(file[unit])

(* systemctl start of the agent has an error only when the connection is   *)
(* lost, and then the commands of its rollback fail as well.               *)
Start ==
    /\ pc = "start"
    /\ \/ /\ link \/ unit = "otel"
          /\ Sets(up, StartedNow)
          /\ Goto("health")
       \/ /\ ~link /\ unit = "agent"
          /\ UNCHANGED up
          /\ Return("rolledBack")
    /\ UNCHANGED <<file, bak, schema, faults>>

(* Mutant: lines 126-130 for both errors, the rollback does not stop.      *)
HealthNoStop ==
    /\ pc = "health"
    /\ \/ link /\ up[unit] # None /\ Goto("cleanup")
       \/ (~link \/ up[unit] = None \/ "health" \in faults) /\ Goto("undoMove")
    /\ UNCHANGED <<host, faults>>

(* curl -sf: somebody answers 200.  That it is the new version is not      *)
(* looked at.                                                              *)
Health ==
    /\ pc = "health"
    /\ \/ link /\ up[unit] # None /\ Goto("cleanup")
       \/ /\ ~link \/ up[unit] = None \/ "health" \in faults
          /\ Goto(IF unit = "agent" THEN "undoStop" ELSE "undoMove")
    /\ UNCHANGED <<host, faults>>

UndoStop ==
    /\ pc = "undoStop"
    /\ Sets(up, None)
    /\ Goto("undoMove")
    /\ UNCHANGED <<file, bak, schema, faults>>

(* Without a .bak mv fails and the new file stays.                         *)
UndoMove ==
    /\ pc = "undoMove"
    /\ \/ /\ Executed /\ bak[unit] # None
          /\ file' = [file EXCEPT ![unit] = bak[unit]]
          /\ bak' = [bak EXCEPT ![unit] = None]
       \/ /\ Skipped \/ bak[unit] = None
          /\ UNCHANGED <<file, bak>>
    /\ Goto("undoStart")
    /\ UNCHANGED <<up, schema, faults>>

UndoStart ==
    /\ pc = "undoStart"
    /\ Sets(up, StartedNow)
    /\ Return("rolledBack")
    /\ UNCHANGED <<file, bak, schema, faults>>

Cleanup ==
    /\ pc = "cleanup"
    /\ Sets(bak, None)
    /\ Continue
    /\ UNCHANGED <<file, up, schema, faults>>

-----------------------------------------------------------------------------
(* runDDLMigrations: every file, in the order of their names, each time.   *)

NextMigration ==
    /\ next' = next + 1
    /\ UNCHANGED <<pc, unit, args, link, outcome, before>>

(* An upload or a query fails, or the answer is lost with the connection.  *)
Fails == ~link \/ faults \cap {"upload", "query", "link"} # {}

(* Mutants: a failed file does not end the run; the loop does not advance. *)
MigrateOn ==
    /\ pc = "migrate"
    /\ \/ /\ next <= Migrations
          /\ \/ link /\ schema' = schema \cup {next}
             \/ Fails /\ UNCHANGED schema
          /\ NextMigration
       \/ next > Migrations /\ Return("done") /\ UNCHANGED schema
    /\ UNCHANGED <<file, bak, up, faults>>

MigrateSame ==
    /\ pc = "migrate"
    /\ next <= Migrations
    /\ schema' = schema \cup {next}
    /\ UNCHANGED <<file, bak, up, prog, faults>>

(* A file that is applied already has no effect (IF NOT EXISTS).  One that *)
(* fails may have taken effect.                                            *)
Migrate ==
    /\ pc = "migrate"
    /\ \/ /\ next <= Migrations
          /\ link
          /\ schema' = schema \cup {next}
          /\ NextMigration
       \/ /\ next <= Migrations
          /\ Fails
          /\ schema' = schema \/ (link /\ schema' = schema \cup {next})
          /\ Return("failed")
       \/ /\ next > Migrations
          /\ UNCHANGED schema
          /\ Return("done")
    /\ UNCHANGED <<file, bak, up, faults>>

Step ==
    \/ Backup \/ Stop \/ Upload \/ Move \/ Start \/ Health
    \/ UndoStop \/ UndoMove \/ UndoStart
    \/ Cleanup \/ Migrate

Next ==
    \/ \E cfg \in UpgradeConfig : Begin(cfg)
    \/ DropLink
    \/ Step

Spec == Init /\ [][Next]_vars

(* Commands return; the run goes on until RunUpgrade returns.              *)
FairSpec == Spec /\ WF_vars(Step)

-----------------------------------------------------------------------------
(* Properties.                                                             *)

(* A run that reports success has the requested agent and OTel config      *)
(* installed and running and every migration applied, wherever the         *)
(* connection was lost and whatever earlier runs left behind, as long as   *)
(* no command fails unnoticed.                                             *)
SuccessMeansRunning ==
    ("command" \notin faults /\ outcome = "done") =>
        /\ \A u \in Units : args[u] # None => file[u] = args[u] /\ up[u] = args[u]
        /\ args.ddl => schema = 1 .. Migrations

(* "Rolled back to the previous version" is true of file and service: what *)
(* was installed when the run began is installed again and runs if it can, *)
(* the .bak never being that of an earlier run.                            *)
RolledBack ==
    (faults \cap {"command", "link"} = {} /\ outcome = "rolledBack" /\ before[unit] # None) =>
        /\ file[unit] = before[unit]
        /\ up[unit] = Started(before[unit])

(* At no point of a run that found a working version is there none on the  *)
(* host, so that a run that is cut off anywhere can be repaired by hand.   *)
WorkingVersionKept ==
    "command" \notin faults =>
        \A u \in Units : before[u] \in Working => {file[u], bak[u]} \cap Working # {}

(* No migration is applied before those that come before it, over any      *)
(* number of runs that fail half way.                                      *)
MigrationsInOrder == \A n \in schema : 1 .. n \subseteq schema

(* Every run comes to an end.                                              *)
RunEnds == (pc # "idle") ~> (pc = "idle")

-----------------------------------------------------------------------------
(* What the repository says and the code does not do.                      *)

(* After an upgrade that reports success the agent runs the new binary:    *)
(* upgradeDBAgent "replaces the agent binary and restarts the service".    *)
DoneMeansReplaced == outcome = "done" => up["agent"] = args.agent
=============================================================================
