----------------------------- MODULE Installer -----------------------------
(***************************************************************************)
(* k-o11y-db install, post-install and uninstall (internal/installer) on   *)
(* the Keeper host and the ClickHouse host, run by an operator in any      *)
(* order, again and again, whatever the last run left behind.              *)
(*                                                                         *)
(* Four units are installed alike: package, config, start, check.  A       *)
(* config is named by the settings it was rendered from.  Over the         *)
(* executors (internal/ssh) a remote command that exits non-zero is no     *)
(* error; only clickhouse-client's exit code is looked at.                 *)
(*                                                                         *)
(* The other users of ClickHouse act beside the program: SigNoz creates    *)
(* its schema, collectors write, the user saves settings, and the agent    *)
(* restarts the server when it changes the S3 storage.                     *)
(***************************************************************************)
EXTENDS Integers, FiniteSets

CONSTANTS
    Configs,        \* settings an operator may ask for
    MetaFiles,      \* number of SQL files of metadata tables (4 in the code)
    Builds,         \* files a build embeds under the name it asks for
    Requests,       \* what the operators of these hosts ask for
    FaultScenarios, \* sets of faults that may happen together in a run
    MaxFaultyRuns   \* bound on the runs with faults; the others are not bounded

None     == "none"
Units    == {"keeper", "clickhouse", "agent", "otel"}
Programs == {"install", "post", "uninstall"}
Files    == 1 .. MetaFiles

(* "link": no connection, or it is lost, or the operator stops the program.*)
(* "command": a remote command exits non-zero without its effect.          *)
(* "upload": UploadBytes fails, or there is no local file to upload.       *)
(* "slow": a service is not active yet when it is checked.                 *)
(* "query": clickhouse-client exits non-zero.                              *)
FaultKinds == {"link", "command", "upload", "slow", "query"}

ASSUME ConfigsAssumption   == None \notin Configs
ASSUME MetaFilesAssumption == MetaFiles \in Nat \ {0}
ASSUME BuildsAssumption    == Builds \subseteq SUBSET Files
ASSUME RequestsAssumption  ==
    Requests \subseteq [conf : Configs, agent : BOOLEAN, otel : BOOLEAN, keep : BOOLEAN]
ASSUME ScenariosAssumption == FaultScenarios \subseteq SUBSET FaultKinds
ASSUME FaultyAssumption    == MaxFaultyRuns \in Nat

VARIABLES
    (* the hosts *)
    installed,  \* units whose package or binary is there
    conf,       \* conf[u]: the config of unit u
    up,         \* up[u]: the config u runs with
    (* in the data directories *)
    stored,     \* what has been stored, of Stored
    tables,     \* metadata tables
    settings,   \* the 'global' row of data_lifecycle_config
    (* the program *)
    prog, args, embedded,
    pc,         \* next step
    unit,       \* the unit it is about
    next,       \* the SQL file it is about
    link,       \* the executor's connection works
    (* history *)
    outcome,    \* what the last run reported
    older,      \* units that ran, with or over other settings, when it began
    restarted,  \* the agent has restarted ClickHouse since
    faults,     \* its scenario
    faulty      \* runs so far that may have faults

hosts  == <<installed, conf, up>>
data   == <<stored, tables, settings>>
asked  == <<prog, args, embedded, older, faults, faulty>>
choice == <<asked, restarted>>
flow   == <<pc, unit, next, link, outcome>>
vars   == <<installed, conf, up, stored, tables, settings, prog, args, embedded,
            older, faults, faulty, restarted, pc, unit, next, link, outcome>>

(* "nodes": rows of cluster_nodes, which its view "nodeView" fills; "views":*)
(* the other views and the dictionaries of clickhouse-ddl.sql.             *)
Stored == {"coordination", "signoz", "telemetry", "nodes", "nodeView", "views"}
PCs == {"idle", "connect", "package", "config", "start", "check", "ddl", "meta", "row",
        "stop", "purge", "unconf", "wipe"}

TypeOK ==
    /\ installed \subseteq Units
    /\ conf \in [Units -> Configs \cup {None}]
    /\ up \in [Units -> Configs \cup {None}]
    /\ stored \subseteq Stored
    /\ tables \subseteq Files
    /\ settings \in {None, "default", "user"}
    /\ prog \in Programs
    /\ args \in Requests
    /\ embedded \in Builds
    /\ pc \in PCs
    /\ unit \in Units
    /\ next \in 1 .. MetaFiles + 1
    /\ link \in BOOLEAN
    /\ outcome \in {None, "done", "failed"}
    /\ older \subseteq Units
    /\ restarted \in BOOLEAN
    /\ faults \subseteq FaultKinds
    /\ faulty \in 0 .. MaxFaultyRuns

(* Two bare hosts.                                                         *)
Init ==
    /\ installed = {}
    /\ conf = [u \in Units |-> None]
    /\ up = conf
    /\ stored = {} /\ tables = {} /\ settings = None
    /\ prog = "uninstall" /\ args \in Requests
    /\ embedded \in Builds
    /\ pc = "idle" /\ unit = "keeper" /\ next = 1 /\ link = FALSE
    /\ outcome = None
    /\ older = {} /\ restarted = FALSE
    /\ faults = {} /\ faulty = 0

-----------------------------------------------------------------------------
(* Commands and the flow of the program.                                   *)

Skipped == ~link \/ "command" \in faults

(* A command sets what is at place of the unit to value, or does nothing.  *)
Sets(place, value) ==
    \/ link /\ place' = [place EXCEPT ![unit] = value]
    \/ Skipped /\ UNCHANGED place

Goto(p) == pc' = p /\ UNCHANGED <<unit, next, link, outcome>>

Turn(u, p) == unit' = u /\ pc' = p /\ UNCHANGED <<next, link, outcome>>

Return(result) ==
    /\ pc' = "idle"
    /\ outcome' = result
    /\ unit' = "keeper" /\ next' = 1
    /\ link' = FALSE

(* install, post-install and uninstall, past their prompts.                *)
Begin(p, a, f) ==
    /\ pc = "idle"
    /\ prog' = p /\ args' = a /\ faults' = f
    /\ faulty' = faulty + (IF f = {} THEN 0 ELSE 1)
    /\ faulty' <= MaxFaultyRuns
    /\ pc' = "connect"
    /\ unit' = IF p = "install" THEN "keeper" ELSE "clickhouse"
    /\ link' = FALSE
    /\ outcome' = None
    /\ older' = {u \in Units : up[u] # None /\ {up[u], conf[u]} # {a.conf}}
    /\ restarted' = FALSE
    /\ UNCHANGED <<hosts, data, embedded, next>>

FirstStep ==
    CASE prog = "install"   -> "package"
      [] prog = "post"      -> "ddl"
      [] prog = "uninstall" -> "stop"

(* NewExecutor for the host of the unit.                                   *)
Connect ==
    /\ pc = "connect"
    /\ \/ link' = TRUE /\ pc' = FirstStep /\ UNCHANGED <<unit, next, outcome>>
       \/ "link" \in faults /\ Return("failed")
    /\ UNCHANGED <<hosts, data, choice>>

DropLink ==
    /\ "link" \in faults
    /\ pc # "idle" /\ link
    /\ link' = FALSE
    /\ UNCHANGED <<hosts, data, choice, pc, unit, next, outcome>>

-----------------------------------------------------------------------------
(* InstallKeeper, InstallClickHouse, InstallAgent and InstallOtelAgent.    *)

(* A package leaves a service that runs alone or restarts it; the agent is *)
(* a binary that is uploaded.                                              *)
Package ==
    /\ pc = "package"
    /\ \/ /\ link
          /\ installed' = installed \cup {unit}
          /\ \/ UNCHANGED up
             \/ /\ unit # "agent" /\ up[unit] # None
                /\ up' = [up EXCEPT ![unit] = conf[unit]]
          /\ Goto("config")
       \/ /\ link /\ "command" \in faults
          /\ UNCHANGED <<installed, up>>
          /\ Goto("config")
       \/ /\ ~link \/ (unit = "agent" /\ "upload" \in faults)
          /\ UNCHANGED <<installed, up>>
          /\ Return("failed")
    /\ UNCHANGED <<conf, data, choice>>

(* The files of the unit; the upload of the last may fail after the others.*)
Config ==
    /\ pc = "config"
    /\ \/ link /\ Sets(conf, args.conf) /\ Goto("start")
       \/ link /\ "upload" \in faults /\ Sets(conf, args.conf) /\ Return("failed")
       \/ (~link \/ "upload" \in faults) /\ UNCHANGED conf /\ Return("failed")
    /\ UNCHANGED <<installed, up, data, choice>>

Startable(u) == IF u \in installed THEN conf[u] ELSE None

(* systemctl start does nothing when the unit runs; otelcol is restarted.  *)
StartedNow ==
    IF unit # "otel" /\ up[unit] # None THEN up[unit] ELSE Startable(unit)

(* An error of the start of ClickHouse is not looked at.                   *)
Start ==
    /\ pc = "start"
    /\ \/ link /\ Sets(up, StartedNow) /\ Goto("check")
       \/ ~link /\ unit = "clickhouse" /\ UNCHANGED up /\ Goto("check")
       \/ ~link /\ unit # "clickhouse" /\ UNCHANGED up /\ Return("failed")
    /\ UNCHANGED <<installed, conf, data, choice>>

(* What comes after a unit: the Keeper host, then the ClickHouse host.     *)
AfterInstall ==
    \/ unit = "keeper" /\ Turn("clickhouse", "connect")
    \/ unit = "clickhouse" /\ args.agent /\ Turn("agent", "package")
    \/ unit = "clickhouse" /\ ~args.agent /\ Return("done")
    \/ unit \in {"agent", "otel"} /\ Return("done")

(* Mutant: the error of is-active is looked at and its output is not.      *)
CheckError ==
    /\ pc = "check"
    /\ \/ link /\ AfterInstall
       \/ ~link /\ Return("failed")
    /\ UNCHANGED <<hosts, data, choice>>

(* systemctl is-active, for the OTel agent its health endpoint.            *)
Check ==
    /\ pc = "check"
    /\ \/ link /\ up[unit] # None /\ AfterInstall
       \/ (~link \/ up[unit] = None \/ "slow" \in faults) /\ Return("failed")
    /\ UNCHANGED <<hosts, data, choice>>

-----------------------------------------------------------------------------
(* RunPostInstall.                                                         *)

Answers == link /\ up["clickhouse"] # None
Fails   == ~Answers \/ faults \cap {"upload", "query", "link"} # {}

(* clickhouse-ddl.sql drops cluster_nodes_mv, truncates cluster_nodes and  *)
(* creates the view again: what is stored after each of the three.         *)
WithoutNodeView == stored \ {"nodeView"}
NodesTruncated  == WithoutNodeView \ {"nodes"}
NodeViewCreated == NodesTruncated \cup {"nodeView"}

(* It drops and creates its other views before that, and its dictionaries  *)
(* after it, and ends at the first statement that fails: not begun, in the *)
(* first views, at cluster_nodes, in the dictionaries, or with all of them.*)
BrokenOff ==
    {stored, stored \ {"views"}, WithoutNodeView, NodesTruncated, NodeViewCreated,
     NodeViewCreated \ {"views"}, NodeViewCreated \cup {"views"}}

(* A run of it that fails may leave a host without views it had, and       *)
(* without the rows of cluster_nodes or what fills them.                   *)
ApplyDDL ==
    /\ pc = "ddl"
    /\ \/ /\ Answers /\ "signoz" \in stored
          /\ stored' = NodeViewCreated \cup {"views"}
          /\ Goto("meta")
       \/ /\ Fails \/ "signoz" \notin stored
          /\ stored' = stored \/ (Answers /\ "signoz" \in stored /\ stored' \in BrokenOff)
          /\ Return("failed")
    /\ UNCHANGED <<hosts, tables, settings, choice>>

(* Mutants: a table that exists is an error; the loop goes on past its end.*)
ApplyFileOnce ==
    /\ pc = "meta"
    /\ next \in Files
    /\ \/ /\ Answers /\ next \in embedded /\ next \notin tables
          /\ tables' = tables \cup {next}
          /\ next' = next + 1
          /\ pc' = IF next = 1 THEN "row" ELSE "meta"
          /\ UNCHANGED <<unit, link, outcome>>
       \/ /\ Fails \/ next \notin embedded \/ next \in tables
          /\ UNCHANGED tables
          /\ Return("failed")
    /\ UNCHANGED <<hosts, stored, settings, choice>>

ApplyFilePast ==
    /\ pc = "meta"
    /\ next' = next + 1
    /\ tables' = tables \cup ({next} \cap Files)
    /\ pc' = IF next = 1 THEN "row" ELSE "meta"
    /\ UNCHANGED <<hosts, stored, settings, choice, unit, link, outcome>>

(* applySQLFile: ReadSQL finds the file or not.  A table that exists stays *)
(* as it is, and the row of the first table comes before the second file.  *)
ApplyFile ==
    /\ pc = "meta"
    /\ next \in Files
    /\ \/ /\ Answers /\ next \in embedded
          /\ tables' = tables \cup {next}
          /\ next' = next + 1
          /\ pc' = IF next = 1 THEN "row" ELSE "meta"
          /\ UNCHANGED <<unit, link, outcome>>
       \/ /\ Fails \/ next \notin embedded
          /\ UNCHANGED tables
          /\ Return("failed")
    /\ UNCHANGED <<hosts, stored, settings, choice>>

(* Mutant: without WHERE NOT EXISTS the newer row wins.                    *)
InsertRowAlways ==
    /\ pc = "row"
    /\ \/ Answers /\ settings' = "default" /\ Goto("meta")
       \/ Fails /\ UNCHANGED settings /\ Return("failed")
    /\ UNCHANGED <<hosts, stored, tables, choice>>

InsertRow ==
    /\ pc = "row"
    /\ \/ /\ Answers
          /\ settings' = IF settings = None THEN "default" ELSE settings
          /\ Goto("meta")
       \/ Fails /\ UNCHANGED settings /\ Return("failed")
    /\ UNCHANGED <<hosts, stored, tables, choice>>

(* The OTel agent on demand.                                               *)
AfterSQL ==
    /\ pc = "meta"
    /\ next \notin Files
    /\ \/ args.otel /\ Turn("otel", "package")
       \/ ~args.otel /\ Return("done")
    /\ UNCHANGED <<hosts, data, choice>>

-----------------------------------------------------------------------------
(* UninstallClickHouse, with the agent and the OTel agent of its host, and *)
(* UninstallKeeper: no result of a command is looked at.                   *)

StopUnit ==
    /\ pc = "stop"
    /\ Sets(up, None)
    /\ Goto("purge")
    /\ UNCHANGED <<installed, conf, data, choice>>

(* apt-get purge may stop a service that runs again, or leave its process. *)
Purge ==
    /\ pc = "purge"
    /\ \/ link /\ installed' = installed \ {unit} /\ UNCHANGED up
       \/ /\ link /\ unit # "agent"
          /\ installed' = installed \ {unit}
          /\ up' = [up EXCEPT ![unit] = None]
       \/ Skipped /\ UNCHANGED <<installed, up>>
    /\ Goto("unconf")
    /\ UNCHANGED <<conf, data, choice>>

(* Mutant: the OTel agent is forgotten.                                    *)
AfterRemoveNoOtel ==
    \/ unit = "clickhouse" /\ Turn("agent", "stop")
    \/ unit \in {"agent", "otel"} /\ Turn("keeper", "connect")
    \/ unit = "keeper" /\ Return("done")

AfterRemove ==
    \/ unit = "clickhouse" /\ Turn("agent", "stop")
    \/ unit = "agent" /\ Turn("otel", "stop")
    \/ unit = "otel" /\ Turn("keeper", "connect")
    \/ unit = "keeper" /\ Return("done")

RemoveConfig ==
    /\ pc = "unconf"
    /\ Sets(conf, None)
    /\ IF unit \in {"clickhouse", "keeper"} THEN Goto("wipe") ELSE AfterRemove
    /\ UNCHANGED <<installed, up, data, choice>>

(* The data directory of the unit, unless --keep-data.                     *)
Wipe ==
    /\ pc = "wipe"
    /\ \/ /\ link /\ ~args.keep /\ unit = "clickhouse"
          /\ stored' = stored \cap {"coordination"}
          /\ tables' = {} /\ settings' = None
       \/ /\ link /\ ~args.keep /\ unit = "keeper"
          /\ stored' = stored \ {"coordination"}
          /\ UNCHANGED <<tables, settings>>
       \/ (args.keep \/ Skipped) /\ UNCHANGED data
    /\ AfterRemove
    /\ UNCHANGED <<hosts, choice>>

-----------------------------------------------------------------------------
(* The other users of the hosts.                                           *)

Serves == up["clickhouse"] # None

(* The Host chart is deployed: SigNoz creates its tables on the cluster.   *)
DeploySigNoz ==
    /\ Serves /\ up["keeper"] # None
    /\ stored' = stored \cup {"signoz", "coordination"}
    /\ UNCHANGED <<hosts, tables, settings, choice, flow>>

(* Metrics of nodes among it go through the view into cluster_nodes.       *)
Collect ==
    /\ Serves /\ "signoz" \in stored
    /\ \/ stored' = stored \cup {"telemetry"}
       \/ "nodeView" \in stored /\ stored' = stored \cup {"telemetry", "nodes"}
    /\ UNCHANGED <<hosts, tables, settings, choice, flow>>

SaveSettings ==
    /\ Serves /\ 1 \in tables
    /\ settings' = "user"
    /\ UNCHANGED <<hosts, stored, tables, choice, flow>>

(* The S3 activator of the agent: systemctl restart clickhouse-server.     *)
AgentRestartsClickHouse ==
    /\ up["agent"] # None
    /\ "clickhouse" \in installed
    /\ up' = [up EXCEPT !["clickhouse"] = conf["clickhouse"]]
    /\ restarted' = TRUE
    /\ UNCHANGED <<installed, conf, data, asked, flow>>

Others == DeploySigNoz \/ Collect \/ SaveSettings \/ AgentRestartsClickHouse

Step ==
    \/ Connect
    \/ Package \/ Config \/ Start \/ Check
    \/ ApplyDDL \/ ApplyFile \/ InsertRow \/ AfterSQL
    \/ StopUnit \/ Purge \/ RemoveConfig \/ Wipe

Next ==
    \/ \E p \in Programs, a \in Requests, f \in FaultScenarios : Begin(p, a, f)
    \/ DropLink
    \/ Step
    \/ Others

Spec == Init /\ [][Next]_vars

(* Commands return; a run goes on until the program has returned.          *)
FairSpec == Spec /\ WF_vars(Step)

-----------------------------------------------------------------------------
(* Properties.                                                             *)

Reliable == "command" \notin faults

(* The units the run was to install.                                       *)
Wanted ==
    CASE prog = "install" -> {"keeper", "clickhouse"} \cup (IF args.agent THEN {"agent"} ELSE {})
      [] prog = "post" -> IF args.otel THEN {"otel"} ELSE {}
      [] prog = "uninstall" -> {}

(* It runs; the agent may stop a ClickHouse whose config is missing.       *)
Runs(u) == up[u] # None \/ (u = "clickhouse" /\ restarted)

(* u is as the run asked for.  A unit that ran already goes on with what   *)
(* it was started with, and so does a ClickHouse that the agent, running   *)
(* already, restarts before its config is written.                         *)
AsAsked(u) ==
    /\ u \in installed
    /\ conf[u] = args.conf
    /\ up[u] # None
    /\ \/ up[u] = args.conf
       \/ u # "otel" /\ u \in older
       \/ u = "clickhouse" /\ restarted

(* A run that reports success has its units running, and if all remote     *)
(* commands had their effect, as asked; one of post-install has views,     *)
(* tables and settings in any case, since it looks at the exit codes of    *)
(* clickhouse-client.                                                      *)
DoneMeansInstalled ==
    outcome = "done" =>
        /\ \A u \in Wanted : Runs(u) /\ (Reliable => AsAsked(u))
        /\ prog = "post" =>
               {"views", "nodeView"} \subseteq stored /\ tables = Files /\ settings # None

(* A finished uninstall over a connection that held leaves no unit and,    *)
(* without --keep-data, no data.  The exception: the agent is stopped      *)
(* after ClickHouse is removed and may have started it again meanwhile.    *)
UninstallLeavesNothing ==
    (outcome = "done" /\ prog = "uninstall" /\ faults \cap {"command", "link"} = {}) =>
        /\ installed = {}
        /\ \A u \in Units : conf[u] = None
        /\ \A u \in Units \ {"clickhouse"} : up[u] = None
        /\ \/ up["clickhouse"] # None /\ restarted
           \/ /\ up["clickhouse"] = None
              /\ args.keep \/ (stored = {} /\ tables = {} /\ settings = None)

Kept ==
    /\ stored \cap {"telemetry", "coordination"} \subseteq stored'
    /\ "nodes" \in stored => "nodes" \in stored' \/ (prog = "post" /\ pc = "ddl")
    /\ tables \subseteq tables'
    /\ settings = "user" => settings' = "user"

Removing == pc # "idle" /\ prog = "uninstall" /\ ~args.keep

(* Telemetry, Keeper's metadata, metadata tables and the settings of the   *)
(* user survive every run, however often it is repeated and wherever it    *)
(* fails, but an uninstall without --keep-data.  The rows of cluster_nodes,*)
(* collected without a TTL, survive the same but the DDL of post-install,  *)
(* which truncates that table in every run, the first and any later one.   *)
KeptUntilRemoved == [][Removing \/ Kept]_vars

(* What post-install needs: a ClickHouse that serves and has its config if *)
(* the agent restarts it, the schema of SigNoz, and a build that has the   *)
(* files it asks for.                                                      *)
Ready ==
    prog = "post" =>
        /\ Serves /\ conf["clickhouse"] # None
        /\ "signoz" \in stored
        /\ embedded = Files

(* A run in which nothing fails succeeds, whatever the runs before it did  *)
(* or left undone.                                                         *)
CleanRunSucceeds ==
    (pc = "connect" /\ faults = {} /\ Ready) ~> (pc = "idle" /\ outcome = "done")
=============================================================================
