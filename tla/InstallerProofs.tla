-------------------------- MODULE InstallerProofs --------------------------
(***************************************************************************)
(* Proofs about Installer for any settings, files, builds, requests, fault *)
(* scenarios and number of faulty runs: TypeOK, DoneMeansInstalled,        *)
(* UninstallLeavesNothing and KeptUntilRemoved, that every run ends, and   *)
(* that one without faults cannot end but well.                            *)
(*                                                                         *)
(* What a run promises when it ends it has built up unit by unit, while    *)
(* the agent restarts ClickHouse and its other users write to it.  The     *)
(* inductive invariant says how far it has come: FlowOK which steps belong *)
(* to which program, BuiltSoFar what an installer has left behind it,      *)
(* SchemaSoFar the same of post-install's SQL, and RemovedSoFar of the     *)
(* uninstall.                                                              *)
(***************************************************************************)
EXTENDS Installer, TLAPS

(* The steps of installing a unit, of removing one, and those of a unit    *)
(* that is stopped.                                                        *)
Building == {"package", "config", "start", "check"}
Unbuilding == {"stop", "purge", "unconf", "wipe"}
Stopped == {"purge", "unconf", "wipe"}

(* Which steps belong to which program and unit.                           *)
FlowOK ==
    /\ pc # "idle" => outcome = None
    /\ prog # "post" \/ pc \in {"idle", "connect", "ddl"} => next = 1
    /\ pc = "connect" => unit \in {"keeper", "clickhouse"}
    /\ pc = "connect" /\ prog = "post" => unit = "clickhouse"
    /\ pc \in Building =>
           \/ prog = "install" /\ unit \in {"keeper", "clickhouse"}
           \/ prog = "install" /\ unit = "agent" /\ args.agent
           \/ prog = "post" /\ unit = "otel" /\ args.otel
    /\ pc \in {"ddl", "meta", "row"} => prog = "post" /\ unit = "clickhouse"
    /\ pc \in Unbuilding => prog = "uninstall"
    /\ pc = "wipe" => unit \in {"clickhouse", "keeper"}

(* A unit this run of install has finished with.                           *)
Behind(u) ==
    /\ prog = "install"
    /\ \/ u = "keeper" /\ unit \in {"clickhouse", "agent"}
       \/ u = "clickhouse" /\ unit = "agent"

(* A unit that runs has the settings asked for in it and under it, unless  *)
(* it has an excuse.                                                       *)
Settled(u) ==
    \/ up[u] = None
    \/ u \in older
    \/ u = "clickhouse" /\ restarted
    \/ up[u] = args.conf /\ conf[u] = args.conf

(* What an install, or the OTel step of post-install, has built.           *)
BuiltSoFar ==
    pc # "idle" /\ prog # "uninstall" =>
        /\ \A u \in Units : Behind(u) => Runs(u) /\ (Reliable => AsAsked(u))
        /\ Reliable =>
               /\ \A u \in Units : Settled(u)
               /\ pc \in {"config", "start", "check"} => unit \in installed
               /\ pc \in {"start", "check"} => conf[unit] = args.conf
               /\ pc = "check" /\ unit = "otel" => up["otel"] = args.conf

(* What the SQL of post-install has left: the tables before next.          *)
SchemaSoFar ==
    pc # "idle" /\ prog = "post" =>
        /\ pc \notin {"connect", "ddl"} =>
               {"views", "nodeView"} \subseteq stored
        /\ pc \in {"meta", "row"} => \A f \in Files : f < next => f \in tables
        /\ pc = "row" => next = 2
        /\ pc = "meta" /\ next > 1 => settings # None
        /\ pc \in Building => tables = Files /\ settings # None

(* Nothing but the link or a command can spoil an uninstall.               *)
Sound == faults \cap {"command", "link"} = {}

(* A unit the uninstall has finished with, in the order of the program.    *)
Past(u) ==
    \/ u = "clickhouse" /\ unit # "clickhouse"
    \/ u = "agent" /\ unit \in {"otel", "keeper"}
    \/ u = "otel" /\ unit = "keeper"

Gone(u) ==
    /\ u \notin installed
    /\ conf[u] = None
    /\ u # "clickhouse" => up[u] = None

(* What an uninstall has removed.  Data written by a ClickHouse that the   *)
(* agent brought back is excused.                                          *)
RemovedSoFar ==
    pc # "idle" /\ prog = "uninstall" /\ Sound =>
        /\ pc # "connect" => link
        /\ \A u \in Units : Past(u) => Gone(u)
        /\ pc \in Stopped /\ unit # "clickhouse" => up[unit] = None
        /\ pc \in Stopped \/ unit # "clickhouse" =>
               up["clickhouse"] = None \/ restarted
        /\ pc \in {"unconf", "wipe"} => unit \notin installed
        /\ pc = "wipe" => conf[unit] = None
        /\ unit # "clickhouse" /\ ~args.keep =>
               \/ up["clickhouse"] # None
               \/ /\ stored \subseteq {"coordination"}
                  /\ tables = {} /\ settings = None

(* The inductive invariant.                                                *)
IInv ==
    /\ TypeOK
    /\ FlowOK
    /\ BuiltSoFar
    /\ SchemaSoFar
    /\ RemovedSoFar
    /\ DoneMeansInstalled
    /\ UninstallLeavesNothing

-----------------------------------------------------------------------------
(* A run begins, connects or loses its connection.                         *)
LEMMA BeginKeeps ==
    ASSUME IInv, NEW p \in Programs, NEW a \in Requests,
           NEW f \in FaultScenarios, Begin(p, a, f)
    PROVE  IInv'
<1>1. TypeOK'
  <2>1. faulty' \in 0 .. MaxFaultyRuns
    BY FaultyAssumption DEF Begin, IInv, TypeOK
  <2>2. f \subseteq FaultKinds
    BY ScenariosAssumption
  <2>3. older' \subseteq Units
    BY DEF Begin
  <2>. QED
    BY <2>1, <2>2, <2>3 DEF Begin, IInv, TypeOK, hosts, data, Units, PCs
<1>2. FlowOK'
  BY DEF Begin, IInv, data, FlowOK, Building, Unbuilding
<1>3. BuiltSoFar'
  BY DEF Begin, IInv, hosts, data, BuiltSoFar, Behind, Runs, Settled,
         Reliable
<1>4. SchemaSoFar'
  BY DEF Begin, IInv, data, Building, SchemaSoFar
<1>5. RemovedSoFar'
  BY DEF Begin, IInv, data, RemovedSoFar, Past, Stopped
<1>6. outcome' # "done"
  BY DEF Begin, IInv, None
<1>7. DoneMeansInstalled'
  BY <1>6 DEF DoneMeansInstalled
<1>8. UninstallLeavesNothing'
  BY <1>6 DEF UninstallLeavesNothing
<1>. QED
  BY <1>1, <1>2, <1>3, <1>4, <1>5, <1>7, <1>8 DEF IInv

LEMMA ConnectKeeps ==
    ASSUME IInv, Connect
    PROVE  IInv'
<1>1. TypeOK'
  <2>1. next' \in 1 .. MetaFiles + 1
    BY MetaFilesAssumption
       DEF Connect, FirstStep, Return, IInv, TypeOK, Files, choice, flow
  <2>2. /\ pc' \in PCs
        /\ unit' \in Units
        /\ link' \in BOOLEAN
        /\ outcome' \in {None, "done", "failed"}
    BY DEF Connect, FirstStep, Return, IInv, TypeOK, PCs, Units, Programs,
           choice, flow
  <2>3. /\ installed' \subseteq Units
        /\ conf' \in [Units -> Configs \cup {None}]
        /\ up' \in [Units -> Configs \cup {None}]
    BY RequestsAssumption DEF Connect, FirstStep, Return, IInv, TypeOK, hosts
  <2>4. /\ stored' \subseteq Stored
        /\ tables' \subseteq Files
        /\ settings' \in {None, "default", "user"}
    BY DEF Connect, FirstStep, Return, IInv, TypeOK, data, Stored
  <2>. QED
    BY <2>1, <2>2, <2>3, <2>4
       DEF Connect, FirstStep, Return, IInv, TypeOK, hosts, data, asked,
           choice, flow
<1>2. FlowOK'
  BY DEF Connect, FirstStep, Return, IInv, data, asked, choice, FlowOK,
         Building, Unbuilding, TypeOK, Programs
<1>3. BuiltSoFar'
  BY DEF Connect, FirstStep, Return, IInv, hosts, data, asked, choice,
         TypeOK, BuiltSoFar, Behind, Runs, AsAsked, Settled, Reliable,
         Programs
<1>4. SchemaSoFar'
  BY DEF Connect, FirstStep, Return, IInv, data, asked, choice, Building,
         SchemaSoFar
<1>5. RemovedSoFar'
  BY DEF Connect, FirstStep, Return, IInv, hosts, data, asked, choice,
         RemovedSoFar, Past, Gone, Sound, Stopped
<1>6. outcome' # "done"
  BY DEF Connect, FirstStep, Return, IInv, FlowOK, None, choice
<1>7. DoneMeansInstalled'
  BY <1>6 DEF DoneMeansInstalled
<1>8. UninstallLeavesNothing'
  BY <1>6 DEF UninstallLeavesNothing
<1>. QED
  BY <1>1, <1>2, <1>3, <1>4, <1>5, <1>7, <1>8 DEF IInv

LEMMA DropLinkKeeps ==
    ASSUME IInv, DropLink
    PROVE  IInv'
<1>1. TypeOK'
  BY BuildsAssumption, ScenariosAssumption, FaultyAssumption
     DEF DropLink, IInv, hosts, data, asked, choice, TypeOK, Programs, PCs
<1>2. FlowOK'
  BY DEF DropLink, IInv, data, asked, choice, FlowOK
<1>3. BuiltSoFar'
  BY DEF DropLink, IInv, hosts, data, asked, choice, BuiltSoFar, Behind,
         Runs, AsAsked, Settled, Reliable
<1>4. SchemaSoFar'
  BY DEF DropLink, IInv, data, asked, choice, SchemaSoFar
<1>5. RemovedSoFar'
  BY DEF DropLink, IInv, data, asked, choice, RemovedSoFar, Sound, Stopped
<1>6. outcome' # "done"
  BY DEF DropLink, IInv, FlowOK, None, choice
<1>7. DoneMeansInstalled'
  BY <1>6 DEF DoneMeansInstalled
<1>8. UninstallLeavesNothing'
  BY <1>6 DEF UninstallLeavesNothing
<1>. QED
  BY <1>1, <1>2, <1>3, <1>4, <1>5, <1>7, <1>8 DEF IInv

-----------------------------------------------------------------------------
(* A unit is installed: each step extends what BuiltSoFar says of it, and  *)
(* the last one puts it behind the run.                                    *)
LEMMA PackageKeeps ==
    ASSUME IInv, Package
    PROVE  IInv'
<1>1. TypeOK'
  <2>1. next' \in 1 .. MetaFiles + 1
    BY MetaFilesAssumption
       DEF Package, Goto, Return, IInv, TypeOK, Files, choice, flow
  <2>2. /\ pc' \in PCs
        /\ unit' \in Units
        /\ link' \in BOOLEAN
        /\ outcome' \in {None, "done", "failed"}
    BY DEF Package, Goto, Return, IInv, TypeOK, PCs, Units, Programs, choice,
           flow
  <2>3. /\ installed' \subseteq Units
        /\ conf' \in [Units -> Configs \cup {None}]
        /\ up' \in [Units -> Configs \cup {None}]
    BY RequestsAssumption DEF Package, Goto, Return, IInv, TypeOK, hosts
  <2>4. /\ stored' \subseteq Stored
        /\ tables' \subseteq Files
        /\ settings' \in {None, "default", "user"}
    BY DEF Package, Goto, Return, IInv, TypeOK, data, Stored
  <2>. QED
    BY <2>1, <2>2, <2>3, <2>4
       DEF Package, Goto, Return, IInv, TypeOK, hosts, data, asked, choice,
           flow
<1>2. FlowOK'
  BY DEF Package, Goto, Return, IInv, data, asked, choice, FlowOK, Building,
         Unbuilding
<1>3. BuiltSoFar'
  BY DEF Package, Goto, Return, IInv, data, asked, choice, TypeOK,
         BuiltSoFar, Behind, Runs, AsAsked, Settled, Reliable
<1>4. SchemaSoFar'
  BY DEF Package, Goto, Return, IInv, data, asked, choice, Building,
         SchemaSoFar
<1>5. RemovedSoFar'
  BY DEF Package, Goto, Return, IInv, data, asked, choice, TypeOK,
         RemovedSoFar, Past, Gone, Sound, Units, Stopped
<1>6. outcome' # "done"
  BY DEF Package, Goto, Return, IInv, FlowOK, None, choice
<1>7. DoneMeansInstalled'
  BY <1>6 DEF DoneMeansInstalled
<1>8. UninstallLeavesNothing'
  BY <1>6 DEF UninstallLeavesNothing
<1>. QED
  BY <1>1, <1>2, <1>3, <1>4, <1>5, <1>7, <1>8 DEF IInv

LEMMA ConfigKeeps ==
    ASSUME IInv, Config
    PROVE  IInv'
<1>1. TypeOK'
  <2>1. next' \in 1 .. MetaFiles + 1
    BY MetaFilesAssumption
       DEF Config, Sets, Skipped, Goto, Return, IInv, TypeOK, Files, choice,
           flow
  <2>2. /\ pc' \in PCs
        /\ unit' \in Units
        /\ link' \in BOOLEAN
        /\ outcome' \in {None, "done", "failed"}
    BY DEF Config, Sets, Skipped, Goto, Return, IInv, TypeOK, PCs, Units,
           Programs, choice, flow
  <2>3. /\ installed' \subseteq Units
        /\ conf' \in [Units -> Configs \cup {None}]
        /\ up' \in [Units -> Configs \cup {None}]
    BY RequestsAssumption
       DEF Config, Sets, Skipped, Goto, Return, IInv, TypeOK, hosts
  <2>4. /\ stored' \subseteq Stored
        /\ tables' \subseteq Files
        /\ settings' \in {None, "default", "user"}
    BY DEF Config, Sets, Skipped, Goto, Return, IInv, TypeOK, data, Stored
  <2>. QED
    BY <2>1, <2>2, <2>3, <2>4
       DEF Config, Sets, Skipped, Goto, Return, IInv, TypeOK, hosts, data,
           asked, choice, flow
<1>2. FlowOK'
  BY DEF Config, Sets, Skipped, Goto, Return, IInv, data, asked, choice,
         FlowOK, Building, Unbuilding
<1>3. BuiltSoFar'
  BY DEF Config, Sets, Skipped, Goto, Return, IInv, data, asked, choice,
         TypeOK, BuiltSoFar, Behind, Runs, AsAsked, Settled, Reliable
<1>4. SchemaSoFar'
  BY DEF Config, Sets, Skipped, Goto, Return, IInv, data, asked, choice,
         Building, SchemaSoFar
<1>5. RemovedSoFar'
  BY DEF Config, Sets, Skipped, Goto, Return, IInv, data, asked, choice,
         TypeOK, RemovedSoFar, Past, Gone, Sound, Stopped
<1>6. outcome' # "done"
  BY DEF Config, Sets, Skipped, Goto, Return, IInv, FlowOK, None, choice
<1>7. DoneMeansInstalled'
  BY <1>6 DEF DoneMeansInstalled
<1>8. UninstallLeavesNothing'
  BY <1>6 DEF UninstallLeavesNothing
<1>. QED
  BY <1>1, <1>2, <1>3, <1>4, <1>5, <1>7, <1>8 DEF IInv

LEMMA StartKeeps ==
    ASSUME IInv, Start
    PROVE  IInv'
<1>1. TypeOK'
  <2>1. next' \in 1 .. MetaFiles + 1
    BY MetaFilesAssumption
       DEF Start, Sets, Skipped, StartedNow, Startable, Goto, Return, IInv,
           TypeOK, Files, choice, flow
  <2>2. /\ pc' \in PCs
        /\ unit' \in Units
        /\ link' \in BOOLEAN
        /\ outcome' \in {None, "done", "failed"}
    BY DEF Start, Sets, Skipped, StartedNow, Startable, Goto, Return, IInv,
           TypeOK, PCs, Units, Programs, choice, flow
  <2>3. /\ installed' \subseteq Units
        /\ conf' \in [Units -> Configs \cup {None}]
        /\ up' \in [Units -> Configs \cup {None}]
    BY RequestsAssumption
       DEF Start, Sets, Skipped, StartedNow, Startable, Goto, Return, IInv,
           TypeOK, hosts
  <2>4. /\ stored' \subseteq Stored
        /\ tables' \subseteq Files
        /\ settings' \in {None, "default", "user"}
    BY DEF Start, Sets, Skipped, StartedNow, Startable, Goto, Return, IInv,
           TypeOK, data, Stored
  <2>. QED
    BY <2>1, <2>2, <2>3, <2>4
       DEF Start, Sets, Skipped, StartedNow, Startable, Goto, Return, IInv,
           TypeOK, hosts, data, asked, choice, flow
<1>2. FlowOK'
  BY DEF Start, Sets, Skipped, StartedNow, Startable, Goto, Return, IInv,
         data, asked, choice, FlowOK, Building, Unbuilding
<1>3. BuiltSoFar'
  BY DEF Start, Sets, Skipped, StartedNow, Startable, Goto, Return, IInv,
         data, asked, choice, TypeOK, BuiltSoFar, Behind, Runs, AsAsked,
         Settled, Reliable
<1>4. SchemaSoFar'
  BY DEF Start, Sets, Skipped, StartedNow, Startable, Goto, Return, IInv,
         data, asked, choice, Building, SchemaSoFar
<1>5. RemovedSoFar'
  BY DEF Start, Sets, Skipped, StartedNow, Startable, Goto, Return, IInv,
         data, asked, choice, TypeOK, RemovedSoFar, Past, Gone, Sound, Units,
         Stopped
<1>6. outcome' # "done"
  BY DEF Start, Sets, Skipped, StartedNow, Startable, Goto, Return, IInv,
         FlowOK, None, choice
<1>7. DoneMeansInstalled'
  BY <1>6 DEF DoneMeansInstalled
<1>8. UninstallLeavesNothing'
  BY <1>6 DEF UninstallLeavesNothing
<1>. QED
  BY <1>1, <1>2, <1>3, <1>4, <1>5, <1>7, <1>8 DEF IInv

LEMMA CheckKeeps ==
    ASSUME IInv, Check
    PROVE  IInv'
<1>1. TypeOK'
  <2>1. next' \in 1 .. MetaFiles + 1
    BY MetaFilesAssumption
       DEF Check, AfterInstall, Turn, Return, IInv, TypeOK, Files, choice,
           flow
  <2>2. /\ pc' \in PCs
        /\ unit' \in Units
        /\ link' \in BOOLEAN
        /\ outcome' \in {None, "done", "failed"}
    BY DEF Check, AfterInstall, Turn, Return, IInv, TypeOK, PCs, Units,
           Programs, choice, flow
  <2>3. /\ installed' \subseteq Units
        /\ conf' \in [Units -> Configs \cup {None}]
        /\ up' \in [Units -> Configs \cup {None}]
    BY RequestsAssumption
       DEF Check, AfterInstall, Turn, Return, IInv, TypeOK, hosts
  <2>4. /\ stored' \subseteq Stored
        /\ tables' \subseteq Files
        /\ settings' \in {None, "default", "user"}
    BY DEF Check, AfterInstall, Turn, Return, IInv, TypeOK, data, Stored
  <2>. QED
    BY <2>1, <2>2, <2>3, <2>4
       DEF Check, AfterInstall, Turn, Return, IInv, TypeOK, hosts, data,
           asked, choice, flow
<1>2. FlowOK'
  BY DEF Check, AfterInstall, Turn, Return, IInv, data, asked, choice,
         FlowOK, Building, Unbuilding
<1>3. BuiltSoFar'
  BY DEF Check, AfterInstall, Turn, Return, IInv, hosts, data, asked, choice,
         BuiltSoFar, Behind, Runs, AsAsked, Settled, Reliable
<1>4. SchemaSoFar'
  BY DEF Check, AfterInstall, Turn, Return, IInv, data, asked, choice,
         Building, SchemaSoFar
<1>5. RemovedSoFar'
  BY DEF Check, AfterInstall, Turn, Return, IInv, data, asked, choice,
         FlowOK, Building, RemovedSoFar, Stopped
<1>6. DoneMeansInstalled'
  BY DEF Check, AfterInstall, Turn, Return, IInv, hosts, data, asked, choice,
         FlowOK, Building, DoneMeansInstalled, Wanted, Runs, AsAsked,
         Reliable, BuiltSoFar, Behind, Settled, SchemaSoFar, Units
<1>7. UninstallLeavesNothing'
  BY DEF Check, AfterInstall, Turn, Return, IInv, data, asked, choice,
         FlowOK, UninstallLeavesNothing, Building
<1>. QED
  BY <1>1, <1>2, <1>3, <1>4, <1>5, <1>6, <1>7 DEF IInv

-----------------------------------------------------------------------------
(* The SQL of post-install and its row; nothing but an uninstall takes away*)
(* what an earlier file left, so the next file finds it.                   *)

(* The DDL touches views and cluster_nodes and nothing else, and with both *)
(* kinds of views in place it has come to its end.                         *)
LEMMA DDLTouches ==
    ASSUME IInv, ApplyDDL
    PROVE  /\ stored' \subseteq Stored
           /\ stored \ {"views", "nodeView", "nodes"} \subseteq stored'
           /\ pc' = "meta" => {"views", "nodeView"} \subseteq stored'
           /\ pc' \in {"meta", "idle"}
<1>1. NodeViewCreated \cup {"views"} \subseteq Stored
  BY DEF NodeViewCreated, NodesTruncated, WithoutNodeView, IInv, TypeOK, Stored
<1>2. \A s \in BrokenOff :
          s \subseteq Stored /\ stored \ {"views", "nodeView", "nodes"} \subseteq s
  BY DEF BrokenOff, NodeViewCreated, NodesTruncated, WithoutNodeView, IInv, TypeOK,
     Stored
<1>3. CASE pc' = "meta"
  <2>1. stored' = NodeViewCreated \cup {"views"}
    BY <1>3 DEF ApplyDDL, Return
  <2>. QED
    BY <1>1, <1>3, <2>1 DEF NodeViewCreated, NodesTruncated, WithoutNodeView
<1>4. CASE pc' # "meta"
  <2>1. pc' = "idle" /\ (stored' = stored \/ stored' \in BrokenOff)
    BY <1>4 DEF ApplyDDL, Goto, Return
  <2>. QED
    BY <1>2, <1>4, <2>1 DEF IInv, TypeOK
<1>. QED
  BY <1>3, <1>4

LEMMA ApplyDDLKeeps ==
    ASSUME IInv, ApplyDDL
    PROVE  IInv'
<1>1. TypeOK'
  <2>1. next' \in 1 .. MetaFiles + 1
    BY MetaFilesAssumption
       DEF ApplyDDL, Answers, Fails, Goto, Return, IInv, TypeOK, Files,
           choice, flow
  <2>2. /\ pc' \in PCs
        /\ unit' \in Units
        /\ link' \in BOOLEAN
        /\ outcome' \in {None, "done", "failed"}
    BY DEF ApplyDDL, Answers, Fails, Goto, Return, IInv, TypeOK, PCs, Units,
           Programs, choice, flow
  <2>3. /\ installed' \subseteq Units
        /\ conf' \in [Units -> Configs \cup {None}]
        /\ up' \in [Units -> Configs \cup {None}]
    BY RequestsAssumption
       DEF ApplyDDL, Answers, Fails, Goto, Return, IInv, TypeOK, hosts
  <2>4. /\ stored' \subseteq Stored
        /\ tables' \subseteq Files
        /\ settings' \in {None, "default", "user"}
    BY DDLTouches DEF ApplyDDL, IInv, TypeOK
  <2>. QED
    BY <2>1, <2>2, <2>3, <2>4
       DEF ApplyDDL, Answers, Fails, Goto, Return, IInv, TypeOK, hosts, data,
           asked, choice, flow
<1>2. FlowOK'
  BY DEF ApplyDDL, Answers, Fails, Goto, Return, IInv, asked, choice, FlowOK,
         Building, Unbuilding
<1>3. BuiltSoFar'
  BY DEF ApplyDDL, Answers, Fails, Goto, Return, IInv, hosts, asked, choice,
         BuiltSoFar, Behind, Runs, AsAsked, Settled, Reliable
<1>4. SchemaSoFar'
  <2>1. CASE pc' = "meta"
    <3>1. next' = 1
      BY <2>1 DEF ApplyDDL, Goto, Return, IInv, FlowOK
    <3>2. \A f \in Files : ~(f < next')
      BY <3>1, MetaFilesAssumption DEF Files
    <3>. QED
      BY <2>1, <3>1, <3>2, DDLTouches DEF SchemaSoFar, Building
  <2>2. CASE pc' = "idle"
    BY <2>2 DEF SchemaSoFar
  <2>. QED
    BY <2>1, <2>2, DDLTouches
<1>5. RemovedSoFar'
  BY DEF ApplyDDL, Answers, Fails, Goto, Return, IInv, hosts, asked, choice,
         RemovedSoFar, Past, Gone, Sound, Stopped
<1>6. outcome' # "done"
  BY DEF ApplyDDL, Answers, Fails, Goto, Return, IInv, FlowOK, None, choice
<1>7. DoneMeansInstalled'
  BY <1>6 DEF DoneMeansInstalled
<1>8. UninstallLeavesNothing'
  BY <1>6 DEF UninstallLeavesNothing
<1>. QED
  BY <1>1, <1>2, <1>3, <1>4, <1>5, <1>7, <1>8 DEF IInv

LEMMA ApplyFileKeeps ==
    ASSUME IInv, ApplyFile
    PROVE  IInv'
<1>1. TypeOK'
  <2>1. next' \in 1 .. MetaFiles + 1
    BY MetaFilesAssumption
       DEF ApplyFile, Answers, Fails, Return, IInv, TypeOK, Files, choice,
           flow
  <2>2. /\ pc' \in PCs
        /\ unit' \in Units
        /\ link' \in BOOLEAN
        /\ outcome' \in {None, "done", "failed"}
    BY DEF ApplyFile, Answers, Fails, Return, IInv, TypeOK, PCs, Units,
           Programs, choice, flow
  <2>3. /\ installed' \subseteq Units
        /\ conf' \in [Units -> Configs \cup {None}]
        /\ up' \in [Units -> Configs \cup {None}]
    BY RequestsAssumption
       DEF ApplyFile, Answers, Fails, Return, IInv, TypeOK, hosts
  <2>4. /\ stored' \subseteq Stored
        /\ tables' \subseteq Files
        /\ settings' \in {None, "default", "user"}
    BY DEF ApplyFile, Answers, Fails, Return, IInv, TypeOK, data, Stored
  <2>. QED
    BY <2>1, <2>2, <2>3, <2>4
       DEF ApplyFile, Answers, Fails, Return, IInv, TypeOK, hosts, data,
           asked, choice, flow
<1>2. FlowOK'
  BY DEF ApplyFile, Answers, Fails, Return, IInv, asked, choice, FlowOK,
         Building, Unbuilding
<1>3. BuiltSoFar'
  BY DEF ApplyFile, Answers, Fails, Return, IInv, hosts, asked, choice,
         BuiltSoFar, Behind, Runs, AsAsked, Settled, Reliable
<1>4. SchemaSoFar'
  BY DEF ApplyFile, Answers, Fails, Return, IInv, asked, choice, Building,
         SchemaSoFar, Files
<1>5. RemovedSoFar'
  BY DEF ApplyFile, Answers, Fails, Return, IInv, hosts, asked, choice,
         RemovedSoFar, Past, Gone, Sound, Stopped
<1>6. outcome' # "done"
  BY DEF ApplyFile, Answers, Fails, Return, IInv, FlowOK, None, choice
<1>7. DoneMeansInstalled'
  BY <1>6 DEF DoneMeansInstalled
<1>8. UninstallLeavesNothing'
  BY <1>6 DEF UninstallLeavesNothing
<1>. QED
  BY <1>1, <1>2, <1>3, <1>4, <1>5, <1>7, <1>8 DEF IInv

LEMMA InsertRowKeeps ==
    ASSUME IInv, InsertRow
    PROVE  IInv'
<1>1. TypeOK'
  <2>1. next' \in 1 .. MetaFiles + 1
    BY MetaFilesAssumption
       DEF InsertRow, Answers, Fails, Goto, Return, IInv, TypeOK, Files,
           choice, flow
  <2>2. /\ pc' \in PCs
        /\ unit' \in Units
        /\ link' \in BOOLEAN
        /\ outcome' \in {None, "done", "failed"}
    BY DEF InsertRow, Answers, Fails, Goto, Return, IInv, TypeOK, PCs, Units,
           Programs, choice, flow
  <2>3. /\ installed' \subseteq Units
        /\ conf' \in [Units -> Configs \cup {None}]
        /\ up' \in [Units -> Configs \cup {None}]
    BY RequestsAssumption
       DEF InsertRow, Answers, Fails, Goto, Return, IInv, TypeOK, hosts
  <2>4. /\ stored' \subseteq Stored
        /\ tables' \subseteq Files
        /\ settings' \in {None, "default", "user"}
    BY DEF InsertRow, Answers, Fails, Goto, Return, IInv, TypeOK, data, Stored
  <2>. QED
    BY <2>1, <2>2, <2>3, <2>4
       DEF InsertRow, Answers, Fails, Goto, Return, IInv, TypeOK, hosts,
           data, asked, choice, flow
<1>2. FlowOK'
  BY DEF InsertRow, Answers, Fails, Goto, Return, IInv, asked, choice,
         FlowOK, Building, Unbuilding
<1>3. BuiltSoFar'
  BY DEF InsertRow, Answers, Fails, Goto, Return, IInv, hosts, asked, choice,
         BuiltSoFar, Behind, Runs, AsAsked, Settled, Reliable
<1>4. SchemaSoFar'
  BY DEF InsertRow, Answers, Fails, Goto, Return, IInv, asked, choice,
         Building, SchemaSoFar, None
<1>5. RemovedSoFar'
  BY DEF InsertRow, Answers, Fails, Goto, Return, IInv, hosts, asked, choice,
         RemovedSoFar, Past, Gone, Sound, Stopped
<1>6. outcome' # "done"
  BY DEF InsertRow, Answers, Fails, Goto, Return, IInv, FlowOK, None, choice
<1>7. DoneMeansInstalled'
  BY <1>6 DEF DoneMeansInstalled
<1>8. UninstallLeavesNothing'
  BY <1>6 DEF UninstallLeavesNothing
<1>. QED
  BY <1>1, <1>2, <1>3, <1>4, <1>5, <1>7, <1>8 DEF IInv

(* When the SQL is done every file has been applied.                       *)
LEMMA SchemaComplete ==
    ASSUME IInv, AfterSQL
    PROVE  /\ {"views", "nodeView"} \subseteq stored
           /\ tables = Files /\ settings # None
<1>1. prog = "post" /\ pc = "meta"
  BY DEF IInv, FlowOK, AfterSQL
<1>2. next = MetaFiles + 1
  BY MetaFilesAssumption DEF IInv, TypeOK, AfterSQL, Files
<1>3. \A f \in Files : f \in tables
  BY <1>1, <1>2, MetaFilesAssumption DEF IInv, SchemaSoFar, Files
<1>4. {"views", "nodeView"} \subseteq stored /\ settings # None
  BY <1>1, <1>2, MetaFilesAssumption DEF IInv, SchemaSoFar
<1>. QED
  BY <1>3, <1>4 DEF IInv, TypeOK

LEMMA AfterSQLKeeps ==
    ASSUME IInv, AfterSQL
    PROVE  IInv'
<1>1. TypeOK'
  <2>1. next' \in 1 .. MetaFiles + 1
    BY MetaFilesAssumption
       DEF AfterSQL, Turn, Return, IInv, TypeOK, Files, choice, flow
  <2>2. /\ pc' \in PCs
        /\ unit' \in Units
        /\ link' \in BOOLEAN
        /\ outcome' \in {None, "done", "failed"}
    BY DEF AfterSQL, Turn, Return, IInv, TypeOK, PCs, Units, Programs,
           choice, flow
  <2>3. /\ installed' \subseteq Units
        /\ conf' \in [Units -> Configs \cup {None}]
        /\ up' \in [Units -> Configs \cup {None}]
    BY RequestsAssumption DEF AfterSQL, Turn, Return, IInv, TypeOK, hosts
  <2>4. /\ stored' \subseteq Stored
        /\ tables' \subseteq Files
        /\ settings' \in {None, "default", "user"}
    BY DEF AfterSQL, Turn, Return, IInv, TypeOK, data, Stored
  <2>. QED
    BY <2>1, <2>2, <2>3, <2>4
       DEF AfterSQL, Turn, Return, IInv, TypeOK, hosts, data, asked, choice,
           flow
<1>2. FlowOK'
  BY DEF AfterSQL, Turn, Return, IInv, data, asked, choice, FlowOK, Building,
         Unbuilding
<1>3. BuiltSoFar'
  BY DEF AfterSQL, Turn, Return, IInv, hosts, data, asked, choice,
         BuiltSoFar, Behind, Runs, Settled, Reliable
<1>4. SchemaSoFar'
  BY SchemaComplete
     DEF AfterSQL, Turn, Return, IInv, data, asked, choice, SchemaSoFar,
         Building, FlowOK
<1>5. RemovedSoFar'
  BY DEF AfterSQL, Turn, Return, IInv, data, asked, choice, FlowOK,
         RemovedSoFar, Stopped
<1>6. DoneMeansInstalled'
  BY SchemaComplete
     DEF AfterSQL, Turn, Return, IInv, data, asked, choice, FlowOK,
         DoneMeansInstalled, Wanted, None
<1>7. UninstallLeavesNothing'
  BY DEF AfterSQL, Turn, Return, IInv, data, asked, choice, FlowOK,
         UninstallLeavesNothing
<1>. QED
  BY <1>1, <1>2, <1>3, <1>4, <1>5, <1>6, <1>7 DEF IInv

-----------------------------------------------------------------------------
(* A unit is removed, in the order stop, purge, remove config, wipe.       *)
LEMMA StopUnitKeeps ==
    ASSUME IInv, StopUnit
    PROVE  IInv'
<1>1. TypeOK'
  BY BuildsAssumption, ScenariosAssumption, FaultyAssumption
     DEF StopUnit, Sets, Skipped, Goto, IInv, data, asked, choice, TypeOK,
         Programs, PCs
<1>2. FlowOK'
  BY DEF StopUnit, Sets, Skipped, Goto, IInv, data, asked, choice, FlowOK,
         Building, Unbuilding
<1>3. BuiltSoFar'
  BY DEF StopUnit, Sets, Skipped, Goto, IInv, data, asked, choice, TypeOK,
         BuiltSoFar, Behind, Runs, AsAsked, Settled, Reliable
<1>4. SchemaSoFar'
  BY DEF StopUnit, Sets, Skipped, Goto, IInv, data, asked, choice, Building,
         SchemaSoFar
<1>5. RemovedSoFar'
  BY DEF StopUnit, Sets, Skipped, Goto, IInv, data, asked, choice, TypeOK,
         RemovedSoFar, Past, Gone, Sound, Units, Stopped
<1>6. outcome' # "done"
  BY DEF StopUnit, Sets, Skipped, Goto, IInv, FlowOK, None, choice
<1>7. DoneMeansInstalled'
  BY <1>6 DEF DoneMeansInstalled
<1>8. UninstallLeavesNothing'
  BY <1>6 DEF UninstallLeavesNothing
<1>. QED
  BY <1>1, <1>2, <1>3, <1>4, <1>5, <1>7, <1>8 DEF IInv

LEMMA PurgeKeeps ==
    ASSUME IInv, Purge
    PROVE  IInv'
<1>1. TypeOK'
  BY BuildsAssumption, ScenariosAssumption, FaultyAssumption
     DEF Purge, Skipped, Goto, IInv, data, asked, choice, TypeOK, Programs,
         PCs
<1>2. FlowOK'
  BY DEF Purge, Skipped, Goto, IInv, data, asked, choice, FlowOK, Building,
         Unbuilding
<1>3. BuiltSoFar'
  BY DEF Purge, Skipped, Goto, IInv, data, asked, choice, TypeOK, BuiltSoFar,
         Behind, Runs, AsAsked, Settled, Reliable
<1>4. SchemaSoFar'
  BY DEF Purge, Skipped, Goto, IInv, data, asked, choice, Building,
         SchemaSoFar
<1>5. RemovedSoFar'
  BY DEF Purge, Skipped, Goto, IInv, data, asked, choice, TypeOK,
         RemovedSoFar, Past, Gone, Sound, Stopped
<1>6. outcome' # "done"
  BY DEF Purge, Skipped, Goto, IInv, FlowOK, None, choice
<1>7. DoneMeansInstalled'
  BY <1>6 DEF DoneMeansInstalled
<1>8. UninstallLeavesNothing'
  BY <1>6 DEF UninstallLeavesNothing
<1>. QED
  BY <1>1, <1>2, <1>3, <1>4, <1>5, <1>7, <1>8 DEF IInv

LEMMA RemoveConfigKeeps ==
    ASSUME IInv, RemoveConfig
    PROVE  IInv'
<1>1. TypeOK'
  BY BuildsAssumption, ScenariosAssumption, FaultyAssumption
     DEF RemoveConfig, Sets, Skipped, AfterRemove, Goto, Turn, Return, IInv,
         data, asked, choice, TypeOK, Units, Programs, PCs
<1>2. FlowOK'
  BY DEF RemoveConfig, Sets, Skipped, AfterRemove, Goto, Turn, Return, IInv,
         data, asked, choice, FlowOK, Building, Unbuilding
<1>3. BuiltSoFar'
  BY DEF RemoveConfig, Sets, Skipped, AfterRemove, Goto, Turn, Return, IInv,
         data, asked, choice, FlowOK, Unbuilding, BuiltSoFar, Behind, Runs,
         Reliable
<1>4. SchemaSoFar'
  BY DEF RemoveConfig, Sets, Skipped, AfterRemove, Goto, Turn, Return, IInv,
         data, asked, choice, Building, SchemaSoFar
<1>5. RemovedSoFar'
  BY DEF RemoveConfig, Sets, Skipped, AfterRemove, Goto, Turn, Return, IInv,
         data, asked, choice, TypeOK, RemovedSoFar, Past, Gone, Sound,
         Stopped
<1>6. outcome' # "done"
  BY DEF RemoveConfig, Sets, Skipped, AfterRemove, Goto, Turn, Return, IInv,
         FlowOK, None, choice, PCs
<1>7. DoneMeansInstalled'
  BY <1>6 DEF DoneMeansInstalled
<1>8. UninstallLeavesNothing'
  BY <1>6 DEF UninstallLeavesNothing
<1>. QED
  BY <1>1, <1>2, <1>3, <1>4, <1>5, <1>7, <1>8 DEF IInv

LEMMA WipeKeeps ==
    ASSUME IInv, Wipe
    PROVE  IInv'
<1>1. TypeOK'
  <2>1. next' \in 1 .. MetaFiles + 1
    BY MetaFilesAssumption
       DEF Wipe, Skipped, AfterRemove, Turn, Return, IInv, TypeOK, Files,
           choice, flow
  <2>2. /\ pc' \in PCs
        /\ unit' \in Units
        /\ link' \in BOOLEAN
        /\ outcome' \in {None, "done", "failed"}
    BY DEF Wipe, Skipped, AfterRemove, Turn, Return, IInv, TypeOK, PCs,
           Units, Programs, choice, flow
  <2>3. /\ installed' \subseteq Units
        /\ conf' \in [Units -> Configs \cup {None}]
        /\ up' \in [Units -> Configs \cup {None}]
    BY RequestsAssumption
       DEF Wipe, Skipped, AfterRemove, Turn, Return, IInv, TypeOK, hosts
  <2>4. /\ stored' \subseteq Stored
        /\ tables' \subseteq Files
        /\ settings' \in {None, "default", "user"}
    BY DEF Wipe, Skipped, AfterRemove, Turn, Return, IInv, TypeOK, data, Stored
  <2>. QED
    BY <2>1, <2>2, <2>3, <2>4
       DEF Wipe, Skipped, AfterRemove, Turn, Return, IInv, TypeOK, hosts,
           data, asked, choice, flow
<1>2. FlowOK'
  BY DEF Wipe, Skipped, AfterRemove, Turn, Return, IInv, data, asked, choice,
         FlowOK, Building, Unbuilding
<1>3. BuiltSoFar'
  BY DEF Wipe, Skipped, AfterRemove, Turn, Return, IInv, data, asked, choice,
         FlowOK, Unbuilding, BuiltSoFar, Behind, Runs, Reliable
<1>4. SchemaSoFar'
  BY DEF Wipe, Skipped, AfterRemove, Turn, Return, IInv, data, asked, choice,
         FlowOK, Unbuilding, SchemaSoFar
<1>5. RemovedSoFar'
  BY DEF Wipe, Skipped, AfterRemove, Turn, Return, IInv, hosts, data, asked,
         choice, RemovedSoFar, Past, Gone, Sound, Stopped
<1>6. DoneMeansInstalled'
  BY DEF Wipe, Skipped, AfterRemove, Turn, Return, IInv, data, asked, choice,
         FlowOK, Unbuilding, DoneMeansInstalled, Wanted, Runs, Reliable,
         Behind
<1>7. UninstallLeavesNothing'
  BY DEF Wipe, Skipped, AfterRemove, Turn, Return, IInv, hosts, data, asked,
         choice, TypeOK, UninstallLeavesNothing, RemovedSoFar, Past, Gone,
         Sound, Units, Stopped
<1>. QED
  BY <1>1, <1>2, <1>3, <1>4, <1>5, <1>6, <1>7 DEF IInv

-----------------------------------------------------------------------------
(* The other users of the hosts: they take nothing away, and the agent may *)
(* only restart ClickHouse, which restarted records.                       *)
LEMMA DeploySigNozKeeps ==
    ASSUME IInv, DeploySigNoz
    PROVE  IInv'
<1>1. TypeOK'
  BY BuildsAssumption, ScenariosAssumption, FaultyAssumption
     DEF DeploySigNoz, Serves, IInv, hosts, asked, choice, flow, TypeOK,
         Programs, Stored, PCs
<1>2. FlowOK'
  BY DEF DeploySigNoz, Serves, IInv, asked, choice, flow, FlowOK
<1>3. BuiltSoFar'
  BY DEF DeploySigNoz, Serves, IInv, hosts, asked, choice, flow, BuiltSoFar,
         Behind, Runs, AsAsked, Settled, Reliable
<1>4. SchemaSoFar'
  BY DEF DeploySigNoz, Serves, IInv, asked, choice, flow, SchemaSoFar
<1>5. RemovedSoFar'
  BY DEF DeploySigNoz, Serves, IInv, hosts, asked, choice, flow,
         RemovedSoFar, Past, Gone, Sound, Stopped
<1>6. DoneMeansInstalled'
  BY DEF DeploySigNoz, Serves, IInv, hosts, asked, choice, flow,
         DoneMeansInstalled, Wanted, Runs, AsAsked, Reliable, Behind
<1>7. UninstallLeavesNothing'
  BY DEF DeploySigNoz, Serves, IInv, asked, choice, flow,
         UninstallLeavesNothing, Units
<1>. QED
  BY <1>1, <1>2, <1>3, <1>4, <1>5, <1>6, <1>7 DEF IInv

LEMMA CollectKeeps ==
    ASSUME IInv, Collect
    PROVE  IInv'
<1>1. TypeOK'
  BY BuildsAssumption, ScenariosAssumption, FaultyAssumption
     DEF Collect, Serves, IInv, hosts, asked, choice, flow, TypeOK, Programs,
         Stored, PCs
<1>2. FlowOK'
  BY DEF Collect, Serves, IInv, asked, choice, flow, FlowOK
<1>3. BuiltSoFar'
  BY DEF Collect, Serves, IInv, hosts, asked, choice, flow, BuiltSoFar,
         Behind, Runs, AsAsked, Settled, Reliable
<1>4. SchemaSoFar'
  BY DEF Collect, Serves, IInv, asked, choice, flow, SchemaSoFar
<1>5. RemovedSoFar'
  BY DEF Collect, Serves, IInv, hosts, asked, choice, flow, RemovedSoFar,
         Past, Gone, Sound, Stopped
<1>6. DoneMeansInstalled'
  BY DEF Collect, Serves, IInv, hosts, asked, choice, flow,
         DoneMeansInstalled, Wanted, Runs, AsAsked, Reliable, Behind
<1>7. UninstallLeavesNothing'
  BY DEF Collect, Serves, IInv, hosts, asked, choice, flow,
         UninstallLeavesNothing
<1>. QED
  BY <1>1, <1>2, <1>3, <1>4, <1>5, <1>6, <1>7 DEF IInv

LEMMA SaveSettingsKeeps ==
    ASSUME IInv, SaveSettings
    PROVE  IInv'
<1>1. TypeOK'
  BY BuildsAssumption, ScenariosAssumption, FaultyAssumption
     DEF SaveSettings, Serves, IInv, hosts, asked, choice, flow, TypeOK,
         Programs, PCs
<1>2. FlowOK'
  BY DEF SaveSettings, Serves, IInv, asked, choice, flow, FlowOK
<1>3. BuiltSoFar'
  BY DEF SaveSettings, Serves, IInv, hosts, asked, choice, flow, BuiltSoFar,
         Behind, Runs, AsAsked, Settled, Reliable
<1>4. SchemaSoFar'
  BY DEF SaveSettings, Serves, IInv, asked, choice, flow, SchemaSoFar, None
<1>5. RemovedSoFar'
  BY DEF SaveSettings, Serves, IInv, hosts, asked, choice, flow,
         RemovedSoFar, Past, Gone, Sound, Stopped
<1>6. DoneMeansInstalled'
  BY DEF SaveSettings, Serves, IInv, hosts, asked, choice, flow,
         DoneMeansInstalled, Wanted, Runs, AsAsked, Reliable, Behind, None
<1>7. UninstallLeavesNothing'
  BY DEF SaveSettings, Serves, IInv, hosts, asked, choice, flow,
         UninstallLeavesNothing
<1>. QED
  BY <1>1, <1>2, <1>3, <1>4, <1>5, <1>6, <1>7 DEF IInv

LEMMA AgentRestartsClickHouseKeeps ==
    ASSUME IInv, AgentRestartsClickHouse
    PROVE  IInv'
<1>1. TypeOK'
  BY BuildsAssumption, ScenariosAssumption, FaultyAssumption
     DEF AgentRestartsClickHouse, IInv, data, asked, flow, TypeOK, Programs,
         PCs
<1>2. FlowOK'
  BY DEF AgentRestartsClickHouse, IInv, data, asked, flow, FlowOK
<1>3. BuiltSoFar'
  BY RequestsAssumption, ConfigsAssumption
     DEF AgentRestartsClickHouse, IInv, data, asked, flow, TypeOK,
         BuiltSoFar, Behind, Runs, AsAsked, Settled, Reliable
<1>4. SchemaSoFar'
  BY DEF AgentRestartsClickHouse, IInv, data, asked, flow, SchemaSoFar
<1>5. RemovedSoFar'
  BY DEF AgentRestartsClickHouse, IInv, data, asked, flow, RemovedSoFar,
         Past, Gone, Sound, Units, Stopped
<1>6. DoneMeansInstalled'
  BY RequestsAssumption, ConfigsAssumption
     DEF AgentRestartsClickHouse, IInv, data, asked, flow, TypeOK, Programs,
         DoneMeansInstalled, Wanted, Runs, AsAsked, Reliable
<1>7. UninstallLeavesNothing'
  BY DEF AgentRestartsClickHouse, IInv, data, asked, flow,
         UninstallLeavesNothing
<1>. QED
  BY <1>1, <1>2, <1>3, <1>4, <1>5, <1>6, <1>7 DEF IInv

-----------------------------------------------------------------------------
(* All steps together.                                                     *)
LEMMA InitInv == Init => IInv
<1>. SUFFICES ASSUME Init PROVE IInv
  OBVIOUS
<1>1. TypeOK
  <2>1. /\ installed \subseteq Units /\ stored \subseteq Stored
        /\ tables \subseteq Files /\ older \subseteq Units
        /\ faults \subseteq FaultKinds
    BY DEF Init
  <2>2. /\ conf \in [Units -> Configs \cup {None}]
        /\ up \in [Units -> Configs \cup {None}]
    BY DEF Init
  <2>3. next \in 1 .. MetaFiles + 1 /\ faulty \in 0 .. MaxFaultyRuns
    BY MetaFilesAssumption, FaultyAssumption DEF Init
  <2>4. /\ settings \in {None, "default", "user"} /\ prog \in Programs
        /\ args \in Requests /\ embedded \in Builds /\ pc \in PCs
        /\ unit \in Units /\ link \in BOOLEAN
        /\ outcome \in {None, "done", "failed"} /\ restarted \in BOOLEAN
    BY DEF Init, Programs, PCs, Units
  <2>. QED
    BY <2>1, <2>2, <2>3, <2>4 DEF TypeOK
<1>2. FlowOK /\ BuiltSoFar /\ SchemaSoFar /\ RemovedSoFar
  BY DEF Init, FlowOK, BuiltSoFar, SchemaSoFar, RemovedSoFar, Building,
         Unbuilding
<1>3. DoneMeansInstalled /\ UninstallLeavesNothing
  BY DEF Init, DoneMeansInstalled, UninstallLeavesNothing, None
<1>. QED
  BY <1>1, <1>2, <1>3 DEF IInv

LEMMA StutterKeeps == IInv /\ UNCHANGED vars => IInv'
<1>. SUFFICES ASSUME IInv, UNCHANGED vars PROVE IInv'
  OBVIOUS
<1>1. TypeOK' /\ FlowOK'
  BY DEF vars, IInv, TypeOK, FlowOK
<1>2. BuiltSoFar'
  BY DEF vars, IInv, BuiltSoFar, Behind, Runs, AsAsked, Settled, Reliable
<1>3. SchemaSoFar'
  BY DEF vars, IInv, SchemaSoFar
<1>4. RemovedSoFar'
  BY DEF vars, IInv, RemovedSoFar, Past, Gone, Sound
<1>5. DoneMeansInstalled'
  BY DEF vars, IInv, DoneMeansInstalled, Wanted, Runs, AsAsked, Reliable
<1>6. UninstallLeavesNothing'
  BY DEF vars, IInv, UninstallLeavesNothing
<1>. QED
  BY <1>1, <1>2, <1>3, <1>4, <1>5, <1>6 DEF IInv

LEMMA StepKeeps == IInv /\ Step => IInv'
BY ConnectKeeps, PackageKeeps, ConfigKeeps, StartKeeps, CheckKeeps,
   ApplyDDLKeeps, ApplyFileKeeps, InsertRowKeeps, AfterSQLKeeps, StopUnitKeeps,
   PurgeKeeps, RemoveConfigKeeps, WipeKeeps
   DEF Step

LEMMA NextKeeps == IInv /\ [Next]_vars => IInv'
<1>. SUFFICES ASSUME IInv, [Next]_vars PROVE IInv'
  OBVIOUS
<1>1. CASE \E p \in Programs, a \in Requests, f \in FaultScenarios :
             Begin(p, a, f)
  BY <1>1, BeginKeeps
<1>2. CASE DropLink
  BY <1>2, DropLinkKeeps
<1>3. CASE Step
  BY <1>3, StepKeeps
<1>4. CASE Others
  BY <1>4, DeploySigNozKeeps, CollectKeeps, SaveSettingsKeeps,
     AgentRestartsClickHouseKeeps DEF Others
<1>5. CASE UNCHANGED vars
  BY <1>5, StutterKeeps
<1>. QED
  BY <1>1, <1>2, <1>3, <1>4, <1>5 DEF Next

-----------------------------------------------------------------------------
(* The inductive invariant holds in every state.                           *)
THEOREM InstallerInvariance == Spec => []IInv
BY InitInv, NextKeeps, PTL DEF Spec

(* The types of the hosts and of the program.                              *)
THEOREM InstallerTypes == Spec => []TypeOK
<1>1. IInv => TypeOK
  BY DEF IInv
<1>. QED
  BY <1>1, InstallerInvariance, PTL

(* Reported success of install and post-install is real, for any settings, *)
(* in any sequence of runs and failures.                                   *)
THEOREM SuccessIsReal == Spec => []DoneMeansInstalled
<1>1. IInv => DoneMeansInstalled
  BY DEF IInv
<1>. QED
  BY <1>1, InstallerInvariance, PTL

(* A finished uninstall leaves nothing behind, whatever it found.          *)
THEOREM UninstallIsComplete == Spec => []UninstallLeavesNothing
<1>1. IInv => UninstallLeavesNothing
  BY DEF IInv
<1>. QED
  BY <1>1, InstallerInvariance, PTL

(* A step that is not one of such an uninstall keeps them.                 *)
LEMMA RunsKeep == IInv /\ [Next]_vars => [Removing \/ Kept]_vars
<1>. SUFFICES ASSUME IInv, Next PROVE Removing \/ Kept
  OBVIOUS
<1>1. CASE \E p \in Programs, a \in Requests, f \in FaultScenarios :
             Begin(p, a, f)
  BY <1>1 DEF Begin, data, Kept
<1>2. CASE DropLink
  BY <1>2 DEF DropLink, data, Kept
<1>3. CASE Connect \/ Package \/ Config \/ Start \/ Check
  BY <1>3 DEF Connect, Package, Config, Start, Check, data, Kept
<1>4. CASE ApplyDDL
  <2>1. prog = "post" /\ pc = "ddl" /\ UNCHANGED <<tables, settings>>
    BY <1>4 DEF ApplyDDL, IInv, FlowOK
  <2>2. stored \cap {"telemetry", "coordination"} \subseteq stored'
    BY <1>4, DDLTouches
  <2>. QED
    BY <2>1, <2>2 DEF Kept
<1>5. CASE ApplyFile \/ InsertRow \/ AfterSQL
  BY <1>5 DEF ApplyFile, InsertRow, AfterSQL, data, Kept, None
<1>6. CASE StopUnit \/ Purge \/ RemoveConfig
  BY <1>6 DEF StopUnit, Purge, RemoveConfig, data, Kept
<1>7. CASE Wipe
  BY <1>7 DEF Wipe, IInv, FlowOK, Unbuilding, data, Kept, Removing
<1>8. CASE Others
  BY <1>8 DEF Others, DeploySigNoz, Collect, SaveSettings,
              AgentRestartsClickHouse, data, Kept
<1>. QED
  BY <1>1, <1>2, <1>3, <1>4, <1>5, <1>6, <1>7, <1>8 DEF Next, Step

(* No run but an uninstall without --keep-data destroys telemetry, Keeper's*)
(* metadata, a metadata table or the user's settings, and none but that and*)
(* the DDL of post-install empties cluster_nodes.                          *)
THEOREM DataIsKept == Spec => KeptUntilRemoved
BY InstallerInvariance, RunsKeep, PTL DEF Spec, KeptUntilRemoved
-----------------------------------------------------------------------------
(* CleanRunSucceeds, up to its fairness: a run in which nothing fails stays*)
(* on course until it reports success, and no run goes on for ever.        *)
OnCourse ==
    /\ pc # "idle" /\ faults = {}
    /\ pc # "connect" => link
    /\ pc = "check" => up[unit] # None
    /\ pc \in {"connect", "ddl", "meta", "row"} => Ready

CourseKept ==
    [][OnCourse => OnCourse' \/ (pc' = "idle" /\ outcome' = "done")]_vars

(* Four steps for a unit, then those of the units after it, a host that is *)
(* connected to among them.                                                *)
StepsInUnit ==
    CASE pc \in {"package", "stop"} -> 4
      [] pc \in {"config", "purge"} -> 3
      [] pc \in {"start", "unconf"} -> 2
      [] OTHER                      -> 1

StepsAfterUnit ==
    CASE prog = "uninstall" /\ unit = "clickhouse" -> 13
      [] prog = "uninstall" /\ unit = "agent"      -> 9
      [] prog = "uninstall" /\ unit = "otel"       -> 5
      [] prog = "install" /\ unit = "keeper"       -> 9
      [] prog = "install" /\ unit = "clickhouse"   -> 4
      [] OTHER                                     -> 0

(* The files, the row after the first of them, and the OTel agent.         *)
StepsOfFiles ==
    MetaFiles + 6 - next + (IF pc = "row" \/ next = 1 THEN 1 ELSE 0)

StepsLeft ==
    CASE pc = "idle"            -> 0
      [] pc \in {"meta", "row"} -> StepsOfFiles
      [] pc = "ddl"             -> MetaFiles + 7
      [] pc = "connect"         -> IF prog = "post" THEN MetaFiles + 8
                                   ELSE StepsAfterUnit + 5
      [] OTHER                  -> StepsAfterUnit + StepsInUnit

StepsOfRun == MetaFiles + 18

(* Every step lowers the count; losing the connection and the other users  *)
(* of the hosts do not raise it.                                           *)
RunCountsDown ==
    [][/\ Step => StepsLeft' < StepsLeft
       /\ pc # "idle" => StepsLeft' <= StepsLeft]_vars

(* Who has waited for a start still runs, and who answered still does: the *)
(* agent restarts a ClickHouse that has its config.                        *)
LEMMA CourseStep ==
    ASSUME IInv, OnCourse, Next
    PROVE  OnCourse' \/ (pc' = "idle" /\ outcome' = "done")
<1>0. /\ TypeOK /\ FlowOK /\ BuiltSoFar
      /\ pc # "idle" /\ faults = {} /\ Reliable
      /\ args.conf \in Configs /\ args.conf # None
  BY RequestsAssumption, ConfigsAssumption DEF IInv, OnCourse, TypeOK, Reliable
<1>1. CASE Connect
  BY <1>0, <1>1 DEF Connect, FirstStep, OnCourse, Ready, Serves, Return, hosts, data,
     choice, asked, TypeOK, Programs
<1>2. CASE Package \/ Config
  BY <1>0, <1>2 DEF Package, Config, OnCourse, Goto, Return, choice, asked
<1>3. CASE Start
  <2>1. link /\ unit \in installed /\ conf[unit] = args.conf /\ unit \in Units
    BY <1>0, <1>3 DEF Start, OnCourse, BuiltSoFar, FlowOK, Building, TypeOK
  <2>2. StartedNow # None
    BY <1>0, <2>1 DEF StartedNow, Startable
  <2>3. up' = [up EXCEPT ![unit] = StartedNow] /\ Goto("check")
    BY <1>0, <1>3, <2>1 DEF Start, Sets, Skipped
  <2>. QED
    BY <1>0, <1>3, <2>1, <2>2, <2>3 DEF Start, OnCourse, Goto, choice, asked, TypeOK
<1>4. CASE Check
  BY <1>0, <1>4 DEF Check, AfterInstall, OnCourse, Ready, Turn, Return, choice, asked,
     FlowOK, Building
<1>5. ASSUME pc \in {"ddl", "meta", "row"}
      PROVE  /\ link /\ Answers /\ ~Fails /\ Ready
             /\ "signoz" \in stored /\ embedded = Files
  BY <1>0, <1>5 DEF OnCourse, Ready, Answers, Fails, Serves, FlowOK
<1>6. CASE ApplyDDL
  <2>1. "signoz" \in stored'
    BY <1>5, <1>6, DDLTouches DEF ApplyDDL
  <2>. QED
    BY <1>0, <1>5, <1>6, <2>1
       DEF ApplyDDL, OnCourse, Ready, Serves, Goto, hosts, choice, asked
<1>7. CASE ApplyFile \/ InsertRow
  <2>1. ApplyFile => /\ pc' \in {"meta", "row"}
                     /\ UNCHANGED <<unit, link, outcome, hosts, stored, choice>>
    BY <1>5 DEF ApplyFile
  <2>2. InsertRow => /\ pc' \in {"meta", "row"}
                     /\ UNCHANGED <<unit, link, outcome, hosts, stored, choice>>
    BY <1>5 DEF InsertRow, Goto
  <2>3. pc \in {"meta", "row"}
    BY <1>7 DEF ApplyFile, InsertRow
  <2>. QED
    BY <1>0, <1>5, <1>7, <2>1, <2>2, <2>3
       DEF OnCourse, Ready, Serves, hosts, choice, asked
<1>8. CASE AfterSQL
  <2>1. CASE Turn("otel", "package")
    BY <1>0, <1>5, <1>8, <2>1 DEF AfterSQL, OnCourse, Turn, choice, asked
  <2>2. CASE Return("done")
    BY <2>2 DEF Return
  <2>. QED
    BY <1>8, <2>1, <2>2 DEF AfterSQL
<1>9. CASE StopUnit \/ Purge
  BY <1>0, <1>9 DEF StopUnit, Purge, OnCourse, Goto, choice, asked
<1>10. CASE RemoveConfig \/ Wipe
  BY <1>0, <1>10 DEF RemoveConfig, Wipe, AfterRemove, OnCourse, Ready, Goto, Turn,
     Return, choice, asked, FlowOK, Unbuilding
<1>11. CASE DeploySigNoz \/ Collect \/ SaveSettings
  BY <1>0, <1>11 DEF DeploySigNoz, Collect, SaveSettings, OnCourse, Ready, Serves,
     hosts, choice, asked, flow
<1>12. CASE AgentRestartsClickHouse
  <2>1. up' = [up EXCEPT !["clickhouse"] = conf["clickhouse"]]
    BY <1>12 DEF AgentRestartsClickHouse
  <2>2. /\ up'["clickhouse"] = conf["clickhouse"]
        /\ \A u \in Units \ {"clickhouse"} : up'[u] = up[u]
    BY <1>0, <2>1 DEF TypeOK, Units
  <2>3. pc = "check" => conf[unit] = args.conf
    BY <1>0 DEF BuiltSoFar, FlowOK, Building
  <2>4. pc = "check" => up'[unit] # None
    BY <1>0, <2>2, <2>3 DEF OnCourse, TypeOK
  <2>. QED
    BY <1>0, <1>12, <2>2, <2>4
       DEF AgentRestartsClickHouse, OnCourse, Ready, Serves, data, asked, flow
<1>13. ~DropLink /\ \A p \in Programs, a \in Requests, f \in FaultScenarios : ~Begin(p, a, f)
  BY <1>0 DEF DropLink, Begin
<1>. QED
  BY <1>1, <1>2, <1>3, <1>4, <1>5, <1>6, <1>7, <1>8, <1>9, <1>10, <1>11, <1>12, <1>13
     DEF Next, Step, Others

LEMMA StepsLeftRange ==
    ASSUME IInv
    PROVE  StepsLeft \in 0 .. StepsOfRun /\ (StepsLeft = 0 <=> pc = "idle")
<1>1. next \in 1 .. MetaFiles + 1 /\ MetaFiles \in Nat
  BY MetaFilesAssumption DEF IInv, TypeOK
<1>2. StepsInUnit \in 1 .. 4 /\ StepsAfterUnit \in 0 .. 13
  BY DEF StepsInUnit, StepsAfterUnit
<1>3. StepsOfFiles \in 5 .. MetaFiles + 6
  BY <1>1 DEF StepsOfFiles, IInv, SchemaSoFar, FlowOK
<1>. QED
  BY <1>1, <1>2, <1>3 DEF StepsLeft, StepsOfRun

LEMMA StepCounts ==
    ASSUME IInv, Step
    PROVE  StepsLeft' < StepsLeft
<1>0. /\ FlowOK /\ SchemaSoFar /\ prog \in Programs /\ unit \in Units
      /\ next \in 1 .. MetaFiles + 1 /\ MetaFiles \in Nat
  BY MetaFilesAssumption DEF IInv, TypeOK
<1>1. CASE pc' = "idle"
  <2>1. pc # "idle"
    BY DEF Step, Connect, Package, Config, Start, Check, ApplyDDL, ApplyFile, InsertRow,
       AfterSQL, StopUnit, Purge, RemoveConfig, Wipe
  <2>2. StepsLeft' = 0
    BY <1>1 DEF StepsLeft
  <2>. QED
    BY <2>1, <2>2, StepsLeftRange DEF StepsOfRun
<1>. USE DEF StepsLeft, StepsInUnit, StepsAfterUnit
<1>2. CASE Connect /\ pc' # "idle"
  BY <1>0, <1>2 DEF Connect, FirstStep, Return, choice, asked, Programs, FlowOK
<1>3. CASE (Package \/ Config \/ Start) /\ pc' # "idle"
  BY <1>0, <1>3 DEF Package, Config, Start, Goto, Return, choice, asked
<1>4. CASE Check /\ pc' # "idle"
  BY <1>0, <1>4 DEF Check, AfterInstall, Turn, Return, choice, asked, FlowOK, Building
<1>5. CASE ApplyDDL /\ pc' # "idle"
  BY <1>0, <1>5 DEF ApplyDDL, Goto, Return, FlowOK, StepsOfFiles
<1>6. CASE ApplyFile /\ pc' # "idle"
  BY <1>0, <1>6 DEF ApplyFile, Return, Files, StepsOfFiles
<1>7. CASE InsertRow /\ pc' # "idle"
  BY <1>0, <1>7 DEF InsertRow, Goto, Return, StepsOfFiles, SchemaSoFar, FlowOK
<1>8. CASE AfterSQL /\ pc' # "idle"
  BY <1>0, <1>8 DEF AfterSQL, Turn, Return, Files, StepsOfFiles, choice, asked, FlowOK
<1>9. CASE StopUnit \/ Purge
  BY <1>0, <1>9 DEF StopUnit, Purge, Goto, choice, asked
<1>10. CASE (RemoveConfig \/ Wipe) /\ pc' # "idle"
  BY <1>0, <1>10 DEF RemoveConfig, Wipe, AfterRemove, Goto, Turn, Return, choice, asked,
     FlowOK, Unbuilding
<1>. QED
  BY <1>1, <1>2, <1>3, <1>4, <1>5, <1>6, <1>7, <1>8, <1>9, <1>10 DEF Step

(* Nobody but the program moves it.                                        *)
LEMMA OthersCount ==
    ASSUME IInv, pc # "idle", [Next]_vars, ~Step
    PROVE  StepsLeft' = StepsLeft
<1>1. UNCHANGED <<pc, unit, next, prog>>
  BY DEF Next, Begin, DropLink, Others, DeploySigNoz, Collect, SaveSettings,
     AgentRestartsClickHouse, choice, asked, flow, vars
<1>. QED
  BY <1>1 DEF StepsLeft, StepsInUnit, StepsAfterUnit, StepsOfFiles

(* A run of install, post-install or uninstall in which nothing fails, and *)
(* which finds what it needs, can only end by reporting success, whatever  *)
(* earlier runs left and the other users of the hosts do meanwhile.        *)
THEOREM CleanRunsStayOnCourse ==
    Spec => /\ [](pc = "connect" /\ faults = {} /\ Ready => OnCourse)
            /\ CourseKept
<1>1. pc = "connect" /\ faults = {} /\ Ready => OnCourse
  BY DEF OnCourse
<1>2. IInv /\ [Next]_vars =>
        [OnCourse => OnCourse' \/ (pc' = "idle" /\ outcome' = "done")]_vars
  BY CourseStep
<1>. QED
  BY <1>1, <1>2, InstallerInvariance, PTL DEF Spec, CourseKept

(* Every run ends after a bounded number of steps, whatever fails: at most *)
(* one for each SQL file and eighteen.  The count is 0 when no run is under*)
(* way and at no other time.                                               *)
THEOREM RunIsBounded ==
    Spec => /\ [](StepsLeft \in 0 .. StepsOfRun /\ (StepsLeft = 0 <=> pc = "idle"))
            /\ RunCountsDown
<1>1. IInv => StepsLeft \in 0 .. StepsOfRun /\ (StepsLeft = 0 <=> pc = "idle")
  BY StepsLeftRange
<1>2. IInv /\ IInv' /\ [Next]_vars =>
        [/\ Step => StepsLeft' < StepsLeft
         /\ pc # "idle" => StepsLeft' <= StepsLeft]_vars
  <2>. SUFFICES ASSUME IInv, IInv', [Next]_vars
                PROVE  /\ Step => StepsLeft' < StepsLeft
                       /\ pc # "idle" => StepsLeft' <= StepsLeft
    OBVIOUS
  <2>1. StepsLeft \in Int /\ StepsLeft' \in Int
    <3>1. next \in Int /\ next' \in Int /\ MetaFiles \in Int
      BY MetaFilesAssumption DEF IInv, TypeOK
    <3>. QED
      BY <3>1 DEF StepsLeft, StepsInUnit, StepsAfterUnit, StepsOfFiles
  <2>. QED
    BY <2>1, StepCounts, OthersCount
<1>. QED
  BY <1>1, <1>2, InstallerInvariance, PTL DEF Spec, RunCountsDown
=============================================================================
