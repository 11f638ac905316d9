-------------------------- MODULE GlacierCronProofs --------------------------
(***************************************************************************)
(* The safety of the scheduler and the cron script on one host, for any    *)
(* number of loops and of overlapping runs of the script.                  *)
(*                                                                         *)
(* The argument is rely-guarantee.  A step of either side is Monotone and  *)
(* keeps every local backup it does not own; a local backup that exists is *)
(* never taken by another.  Under such steps the invariants of the loops   *)
(* and runs that did not move hold on.  That the cycles of the agent and   *)
(* the runs of the script end is proved by counting their steps down.      *)
(***************************************************************************)
EXTENDS GlacierCron, BackupCycleProofs

Monotone ==
    /\ today <= today'
    /\ remote \subseteq remote'
    /\ \A c \in (rows' \ rows) \cup (ingested' \ ingested) : today - LateDays <= c[2]

KeepsLocal(d) == d \in localNames' /\ CellsOf(localCells, d) \subseteq localCells'

(* ScriptInv of one run, but for OneOwnerPerDate.                          *)
RunInv(k) ==
    /\ cron[k].pc # "off" =>
           cron[k].cfg \in Settings /\ cron[k].part < today - LateDays
    /\ cron[k].pc \in OwnsBackup => cron[k].part \in localNames
    /\ cron[k].ok => cron[k].pc \in {"clean", "drop", "status"}
    /\ cron[k].pc = "drop" => cron[k].ok
    /\ cron[k].pc \in {"shadow", "upload"} =>
           CellsOf(rows, cron[k].part) \subseteq localCells
    /\ (cron[k].pc = "verify" \/ cron[k].ok) =>
           CellsOf(rows, cron[k].part) \subseteq remote

LEMMA RunInvs ==
    ScriptInv <=> OneOwnerPerDate /\ ScriptSuccessArchived /\ \A k \in Runs : RunInv(k)
BY DEF ScriptInv, RunInv, DateClosed, OwnsName, BackupComplete

-----------------------------------------------------------------------------
(* What the agent guarantees.                                              *)

(* The loops that hold a local backup of day d.                            *)
HeldByLoop(d) == \E l \in Loops : loop[l].pc \in HoldsBackup /\ loop[l].part = d

AgentGuarantee ==
    /\ Monotone
    /\ \A d \in localNames : ~HeldByLoop(d) => KeepsLocal(d)
    /\ \A l \in Loops : loop'[l].pc \in HoldsBackup =>
           \/ loop[l].pc \in HoldsBackup /\ loop'[l].part = loop[l].part
           \/ loop'[l].part \notin localNames

LEMMA TodayInt == TypeOK => today \in Int /\ LateDays \in Int
BY LatenessAssumption DEF TypeOK, Days

(* A step that leaves all data alone and gives no loop a local backup.     *)
LEMMA StillGuarantee ==
    ASSUME TypeOK, UNCHANGED <<today, rows, ingested, localNames, localCells, remote>>,
           \A l \in Loops : loop'[l].pc \in HoldsBackup => loop'[l] = loop[l]
    PROVE  AgentGuarantee
<1>1. Monotone
  BY TodayInt DEF Monotone
<1>2. \A d \in localNames : KeepsLocal(d)
  BY DEF KeepsLocal, CellsOf
<1> QED
  BY <1>1, <1>2 DEF AgentGuarantee

LEMMA ControlGuarantee == TypeOK /\ Control => AgentGuarantee
<1> SUFFICES ASSUME TypeOK, Control PROVE AgentGuarantee
  OBVIOUS
<1>1. UNCHANGED <<today, rows, ingested, localNames, localCells, remote>>
  BY DEF Control, Start, StartAgain, StartResume, Launch, Stop, Cancel, AgentRestart, storeVars
<1>2. ASSUME NEW cfg, Launch(cfg)
      PROVE  AgentGuarantee
  <2> DEFINE r == [Dead EXCEPT !.pc = "gate", !.cfg = cfg]
  <2>1. stopCh + 1 \in Loops
    BY <1>2, BoundsAssumption DEF TypeOK, Launch, Loops
  <2>2. loop'[stopCh + 1] = r /\ \A m \in Loops : m # stopCh + 1 => loop'[m] = loop[m]
    BY <1>2, <2>1, GotoFacts DEF Launch
  <2>3. r.pc \notin HoldsBackup
    BY DEF Dead, HoldsBackup
  <2> HIDE DEF r
  <2> QED
    BY <1>1, <2>2, <2>3, StillGuarantee
<1>3. CASE (\E cfg \in Polled : Start(cfg)) \/ StartResume
  BY <1>2, <1>3 DEF Start, StartResume
<1>4. CASE (\E cfg \in Polled : StartAgain(cfg)) \/ Stop \/ Cancel
  BY <1>1, <1>4, StillGuarantee DEF StartAgain, Stop, Cancel
<1>5. CASE AgentRestart
  <2>1. \A l \in Loops : loop'[l].pc \notin HoldsBackup
    BY <1>5 DEF AgentRestart, Dead, HoldsBackup
  <2> QED
    BY <1>1, <2>1, StillGuarantee
<1> QED
  BY <1>3, <1>4, <1>5 DEF Control

LEMMA EnvironmentGuarantee == TypeOK /\ Environment => AgentGuarantee
<1> SUFFICES ASSUME TypeOK, Environment PROVE AgentGuarantee
  OBVIOUS
<1>0. today \in Int /\ LateDays \in Int
  BY TodayInt
<1>1. UNCHANGED <<localNames, localCells, remote, loop>>
  BY DEF Environment, Ingest, NextDay, SaveSettings
<1>2. Monotone
  <2>1. ASSUME NEW t \in Tables, NEW d \in Days, Ingest(t, d) PROVE Monotone
    BY <1>0, <2>1 DEF Ingest, Monotone
  <2>2. CASE NextDay
    BY <1>0, <2>2 DEF NextDay, Monotone
  <2>3. ASSUME NEW n \in Totals, NEW g \in {0, 1}, NEW f \in Frequencies, SaveSettings(n, g, f)
        PROVE  Monotone
    BY <1>0, <2>3 DEF SaveSettings, Monotone
  <2> QED
    BY <2>1, <2>2, <2>3 DEF Environment
<1> QED
  BY <1>1, <1>2 DEF AgentGuarantee, KeepsLocal, CellsOf

(* runLoop and runBackup: a loop deletes no local backup but its own.      *)
LEMMA RunLoopGuarantee ==
    ASSUME IInv, NEW l \in Loops, RunLoop(l)
    PROVE  AgentGuarantee
<1>0. TypeOK /\ loop[l].part \in Days /\ today \in Int /\ LateDays \in Int
  BY TodayInt DEF IInv, TypeOK, LoopState
<1>1. ASSUME UNCHANGED <<today, rows, ingested, localNames, localCells, remote>>,
             loop'[l].pc \notin HoldsBackup,
             \A m \in Loops : m # l => loop'[m] = loop[m]
      PROVE  AgentGuarantee
  BY <1>0, <1>1, StillGuarantee
<1>2. CASE Gate(l)
  <2> DEFINE p == IF ShouldCatchUp(loop[l].cfg) THEN "query" ELSE "select"
  <2>1. p \notin HoldsBackup
    BY DEF HoldsBackup
  <2>2. Goto(l, [loop[l] EXCEPT !.pc = p])
    BY <1>2 DEF Gate
  <2> HIDE DEF p
  <2> QED
    BY <1>0, <1>1, <1>2, <2>1, <2>2, MoveFacts DEF Gate, storeVars
<1>3. CASE EnterSelect(l)
  BY <1>0, <1>1, <1>3, SelectFacts DEF EnterSelect, storeVars, HoldsBackup
<1>4. CASE SelectDone(l) \/ SelectStop(l)
  <2>1. Dead.pc \notin HoldsBackup
    BY DEF Dead, HoldsBackup
  <2> QED
    BY <1>0, <1>1, <1>4, <2>1, GotoFacts DEF SelectDone, SelectStop, Return, storeVars
<1>5. CASE SelectTick(l)
  BY <1>0, <1>1, <1>5, MoveFacts DEF SelectTick, storeVars, HoldsBackup
<1>6. CASE QueryFail(l) \/ UpdateStatus(l) \/ UpdateStatusFail(l)
  BY <1>0, <1>1, <1>6, EndCycleFacts
     DEF QueryFail, UpdateStatus, UpdateStatusFail, storeVars, HoldsBackup
<1>7. ASSUME NEW found, TakePartitions(l, found)
      PROVE  AgentGuarantee
  <2> DEFINE taken == Oldest(found, MaxPartitionsPerRun)
             next  == IF found = {} THEN "status" ELSE "archive"
  <2>1. next \notin HoldsBackup
    BY DEF HoldsBackup
  <2>2. /\ Goto(l, [loop[l] EXCEPT !.pc = next, !.ch = 0, !.target = taken,
                                   !.todo = taken, !.bad = {}])
        /\ UNCHANGED storeVars
    BY <1>7 DEF TakePartitions
  <2> HIDE DEF taken, next
  <2> QED
    BY <1>0, <1>1, <2>1, <2>2, QueryFacts DEF storeVars
<1>8. ASSUME NEW d \in Days, CreateBackup(l, d)
      PROVE  AgentGuarantee
  <2>1. loop'[l].part = d /\ \A m \in Loops : m # l => loop'[m] = loop[m]
    BY <1>0, <1>8, CreateFacts DEF CreateBackup
  <2>2. d \notin localNames
    BY <1>8 DEF CreateBackup
  <2> QED
    BY <1>0, <1>8, <2>1, <2>2
       DEF CreateBackup, AgentGuarantee, Monotone, KeepsLocal, CellsOf
<1>9. ASSUME NEW d \in Days, CreateFail(l, d)
      PROVE  AgentGuarantee
  <2>1. loop'[l].pc \notin HoldsBackup /\ \A m \in Loops : m # l => loop'[m] = loop[m]
    BY <1>0, <1>9, PartitionDoneFacts DEF CreateFail, HoldsBackup
  <2> QED
    BY <1>0, <1>9, <2>1
       DEF CreateFail, AgentGuarantee, Monotone, KeepsLocal, CellsOf
<1>10. CASE Upload(l) \/ UploadFail(l)
  <2>1. /\ loop[l].pc \in HoldsBackup /\ loop'[l].part = loop[l].part
        /\ \A m \in Loops : m # l => loop'[m] = loop[m]
    BY <1>0, <1>10, MoveFacts DEF Upload, UploadFail, HoldsBackup
  <2> QED
    BY <1>0, <1>10, <2>1
       DEF Upload, UploadFail, Uploaded, AgentGuarantee, Monotone, KeepsLocal, CellsOf
<1>11. CASE AbortUpload(l) \/ CleanLocal(l)
  <2>1. loop'[l].pc \notin HoldsBackup /\ \A m \in Loops : m # l => loop'[m] = loop[m]
    BY <1>0, <1>11, PartitionDoneFacts, CleanFacts DEF AbortUpload, CleanLocal, HoldsBackup
  <2>2. HeldByLoop(loop[l].part)
    BY <1>11 DEF AbortUpload, CleanLocal, HeldByLoop, HoldsBackup
  <2>3. Monotone
    <3>1. UNCHANGED <<today, rows, ingested, remote>>
      BY <1>11 DEF AbortUpload, CleanLocal
    <3> QED
      BY <1>0, <3>1 DEF Monotone
  <2>4. \A d \in localNames : d # loop[l].part => KeepsLocal(d)
    BY <1>11 DEF AbortUpload, CleanLocal, DeleteLocal, KeepsLocal, CellsOf
  <2> QED
    BY <2>1, <2>2, <2>3, <2>4 DEF AgentGuarantee
<1>12. ASSUME NEW t \in DROP_TABLES, DropTable(l, t) \/ SkipTable(l, t)
       PROVE  AgentGuarantee
  <2>1. loop'[l].pc \notin HoldsBackup /\ \A m \in Loops : m # l => loop'[m] = loop[m]
    BY <1>0, <1>12, TableFacts DEF DropTable, SkipTable, HoldsBackup
  <2> QED
    BY <1>0, <1>12, <2>1
       DEF DropTable, SkipTable, storeVars, AgentGuarantee, Monotone, KeepsLocal, CellsOf
<1>13. CASE DropsDone(l)
  BY <1>0, <1>1, <1>13, PartitionDoneFacts DEF DropsDone, storeVars, HoldsBackup
<1>14. CASE QueryPartitions(l) \/ QueryCut(l)
  BY <1>7, <1>14, QueryFinds
<1> QED
  BY <1>2, <1>3, <1>4, <1>5, <1>6, <1>8, <1>9, <1>10, <1>11, <1>12, <1>13, <1>14
     DEF RunLoop, Cycle

LEMMA AgentGuarantees == IInv /\ Next => AgentGuarantee
<1>1. IInv => TypeOK
  BY DEF IInv
<1> QED
  BY <1>1, ControlGuarantee, EnvironmentGuarantee, RunLoopGuarantee DEF Next

-----------------------------------------------------------------------------
(* Type correctness of the script.                                         *)

LEMMA BecomeFacts ==
    ASSUME HostTypeOK, NEW k \in Runs, NEW r, Become(k, r)
    PROVE  /\ cron'[k] = r
           /\ \A j \in Runs : j # k => cron'[j] = cron[j]
           /\ r \in RunState => cron' \in [Runs -> RunState]
BY DEF Become, HostTypeOK

LEMMA OffFacts ==
    /\ Off \in RunState
    /\ Off.pc = "off" /\ Off.ok = FALSE
BY DEF Off, RunState, RunPCs

LEMMA RunFields ==
    ASSUME NEW s \in RunState, NEW p \in RunPCs
    PROVE  LET r == [s EXCEPT !.pc = p]
           IN  /\ r \in RunState
               /\ r.pc = p /\ r.cfg = s.cfg /\ r.part = s.part /\ r.ok = s.ok
BY DEF RunState

LEMMA RunMoves ==
    ASSUME HostTypeOK, NEW k \in Runs, NEW p \in RunPCs, Move(k, p)
    PROVE  /\ cron'[k].pc = p /\ cron'[k].cfg = cron[k].cfg
           /\ cron'[k].part = cron[k].part /\ cron'[k].ok = cron[k].ok
           /\ \A j \in Runs : j # k => cron'[j] = cron[j]
           /\ cron' \in [Runs -> RunState]
<1> DEFINE r == [cron[k] EXCEPT !.pc = p]
<1>1. cron[k] \in RunState
  BY DEF HostTypeOK
<1>2. /\ r \in RunState
      /\ r.pc = p /\ r.cfg = cron[k].cfg /\ r.part = cron[k].part /\ r.ok = cron[k].ok
  BY <1>1, RunFields
<1>3. Become(k, r)
  BY DEF Move
<1> HIDE DEF r
<1> QED
  BY <1>2, <1>3, BecomeFacts

LEMMA RunExits ==
    ASSUME HostTypeOK, NEW k \in Runs, Exit(k)
    PROVE  /\ cron'[k].pc = "off" /\ cron'[k].ok = FALSE
           /\ \A j \in Runs : j # k => cron'[j] = cron[j]
           /\ cron' \in [Runs -> RunState]
BY OffFacts, BecomeFacts DEF Exit

LEMMA RunVerified ==
    ASSUME HostTypeOK, NEW k \in Runs, NEW b \in BOOLEAN,
           Become(k, [cron[k] EXCEPT !.pc = "clean", !.ok = b])
    PROVE  /\ cron'[k].pc = "clean" /\ cron'[k].cfg = cron[k].cfg
           /\ cron'[k].part = cron[k].part
           /\ \A j \in Runs : j # k => cron'[j] = cron[j]
           /\ cron' \in [Runs -> RunState]
<1>1. ASSUME NEW s \in RunState
      PROVE  LET r == [s EXCEPT !.pc = "clean", !.ok = b]
             IN  r \in RunState /\ r.pc = "clean" /\ r.cfg = s.cfg /\ r.part = s.part
  BY DEF RunState, RunPCs
<1> DEFINE r == [cron[k] EXCEPT !.pc = "clean", !.ok = b]
<1>2. r \in RunState /\ r.pc = "clean" /\ r.cfg = cron[k].cfg /\ r.part = cron[k].part
  BY <1>1 DEF HostTypeOK
<1> HIDE DEF r
<1> QED
  BY <1>2, BecomeFacts DEF r

LEMMA RunDrops ==
    ASSUME HostTypeOK, NEW k \in Runs, NEW T \in SUBSET DROP_TABLES, NEW p \in RunPCs,
           Become(k, [cron[k] EXCEPT !.pc = p, !.drops = T])
    PROVE  /\ cron'[k].pc = p /\ cron'[k].cfg = cron[k].cfg
           /\ cron'[k].part = cron[k].part /\ cron'[k].ok = cron[k].ok
           /\ \A j \in Runs : j # k => cron'[j] = cron[j]
           /\ cron' \in [Runs -> RunState]
<1>1. ASSUME NEW s \in RunState
      PROVE  LET r == [s EXCEPT !.pc = p, !.drops = T]
             IN  /\ r \in RunState
                 /\ r.pc = p /\ r.cfg = s.cfg /\ r.part = s.part /\ r.ok = s.ok
  BY DEF RunState
<1> DEFINE r == [cron[k] EXCEPT !.pc = p, !.drops = T]
<1>2. /\ r \in RunState
      /\ r.pc = p /\ r.cfg = cron[k].cfg /\ r.part = cron[k].part /\ r.ok = cron[k].ok
  BY <1>1 DEF HostTypeOK
<1>3. Become(k, r)
  OBVIOUS
<1> HIDE DEF r
<1> QED
  BY <1>2, <1>3, BecomeFacts

LEMMA RunSkips ==
    ASSUME HostTypeOK, NEW k \in Runs, NEW t,
           Become(k, [cron[k] EXCEPT !.drops = @ \ {t}])
    PROVE  /\ cron'[k].pc = cron[k].pc /\ cron'[k].cfg = cron[k].cfg
           /\ cron'[k].part = cron[k].part /\ cron'[k].ok = cron[k].ok
           /\ \A j \in Runs : j # k => cron'[j] = cron[j]
           /\ cron' \in [Runs -> RunState]
<1>1. ASSUME NEW s \in RunState
      PROVE  LET r == [s EXCEPT !.drops = @ \ {t}]
             IN  /\ r \in RunState
                 /\ r.pc = s.pc /\ r.cfg = s.cfg /\ r.part = s.part /\ r.ok = s.ok
  BY DEF RunState
<1> DEFINE r == [cron[k] EXCEPT !.drops = @ \ {t}]
<1>2. /\ r \in RunState
      /\ r.pc = cron[k].pc /\ r.cfg = cron[k].cfg /\ r.part = cron[k].part
      /\ r.ok = cron[k].ok
  BY <1>1 DEF HostTypeOK
<1>3. Become(k, r)
  OBVIOUS
<1> HIDE DEF r
<1> QED
  BY <1>2, <1>3, BecomeFacts

(* The settings of a run, from the row or from the cache.                  *)
LEMMA RunEnters ==
    ASSUME HostTypeOK, NEW k \in Runs, NEW cfg \in Settings, NEW b \in BOOLEAN,
           Enter(k, cfg, b), cron[k].pc = "off"
    PROVE  /\ \/ cron' = cron
              \/ /\ cron'[k].pc = "count" /\ cron'[k].cfg = cfg /\ cron'[k].ok = FALSE
                 /\ cron'[k].part < today - LateDays
           /\ \A j \in Runs : j # k => cron'[j] = cron[j]
           /\ cron' \in [Runs -> RunState]
<1> DEFINE r == [pc |-> "count", cfg |-> cfg, cold |-> b,
                 part |-> today - cfg.total, ok |-> FALSE, drops |-> {}]
<1>1. today - cfg.total \in Int /\ today - cfg.total < today - LateDays
  <2>1. cfg.total \in Totals
    BY DEF Settings
  <2>2. \A n \in Totals : n \in Int /\ LateDays < n
    BY LatenessAssumption
  <2>3. cfg.total \in Int /\ LateDays < cfg.total
    BY <2>1, <2>2, Zenon
  <2> QED
    BY <2>3, TodayInt DEF HostTypeOK
<1>2. /\ r \in RunState /\ r.pc = "count" /\ r.cfg = cfg /\ r.ok = FALSE
      /\ r.part = today - cfg.total
  BY <1>1 DEF RunState, RunPCs
<1>3. cron' = cron \/ Become(k, r)
  BY DEF Enter
<1>4. cron \in [Runs -> RunState]
  BY DEF HostTypeOK
<1> HIDE DEF r
<1> QED
  BY <1>1, <1>2, <1>3, <1>4, BecomeFacts

LEMMA SettingsType == TypeOK => SettingsOf(lifecycle) \in Settings
BY DEF TypeOK, Row, SettingsOf, Settings

-----------------------------------------------------------------------------
(* What a run of the script guarantees.                                    *)

ScriptGuarantee(k) ==
    /\ UNCHANGED <<today, ingested, ctrlVars, loop>>
    /\ rows' \subseteq rows
    /\ remote \subseteq remote'
    /\ \A d \in localNames :
           ~(cron[k].pc \in OwnsBackup /\ cron[k].part = d) => KeepsLocal(d)
    /\ \A j \in Runs : j # k => cron'[j] = cron[j]
    /\ cron'[k].pc \in OwnsBackup =>
           \/ cron[k].pc \in OwnsBackup /\ cron'[k].part = cron[k].part
           \/ cron'[k].part \notin localNames
    /\ OnlyIngested' /\ NoDataLoss' /\ BackupOnlyKept'
    /\ RunInv(k)'
    /\ HostTypeOK'

LEMMA HostFacts ==
    ASSUME HostInv, NEW k \in Runs
    PROVE  /\ HostTypeOK /\ TypeOK /\ RunInv(k)
           /\ OnlyIngested /\ NoDataLoss /\ BackupOnlyKept
           /\ cron[k] \in RunState
BY RunInvs DEF HostInv, HostTypeOK, ArchiveInv

(* Steps that only move the program counter, or end the run.               *)
LEMMA QuietRun ==
    ASSUME HostInv, NEW k \in Runs, UNCHANGED vars, cache' \subseteq Settings,
           cron' \in [Runs -> RunState], RunInv(k)',
           cron'[k].pc \in OwnsBackup =>
               cron[k].pc \in OwnsBackup /\ cron'[k].part = cron[k].part,
           \A j \in Runs : j # k => cron'[j] = cron[j]
    PROVE  ScriptGuarantee(k)
<1>1. UNCHANGED <<today, rows, ingested, localNames, localCells, remote, ctrlVars, loop>>
  BY DEF vars, ctrlVars
<1>2. HostTypeOK'
  BY HostFacts DEF HostTypeOK, TypeOK, vars
<1>3. OnlyIngested' /\ NoDataLoss' /\ BackupOnlyKept'
  BY <1>1, HostFacts DEF OnlyIngested, NoDataLoss, BackupOnlyKept
<1> QED
  BY <1>1, <1>2, <1>3 DEF ScriptGuarantee, KeepsLocal, CellsOf

(* A run that is over.                                                     *)
LEMMA OffRunInv ==
    ASSUME NEW k \in Runs, cron'[k].pc = "off", cron'[k].ok = FALSE
    PROVE  RunInv(k)'
BY DEF RunInv, OwnsBackup

LEMMA EnterGuarantee ==
    ASSUME HostInv, NEW k \in Runs, ReadConfig(k) \/ ReadCache(k)
    PROVE  ScriptGuarantee(k)
<1>0. HostTypeOK /\ TypeOK /\ RunInv(k) /\ cron[k].pc = "off"
  BY HostFacts DEF ReadConfig, ReadCache
<1>1. PICK cfg \in Settings, b \in BOOLEAN : Enter(k, cfg, b)
  BY <1>0, SettingsType DEF ReadConfig, ReadCache, HostTypeOK
<1>2. UNCHANGED vars
  BY DEF ReadConfig, ReadCache
<1>3. cache' \subseteq Settings
  BY <1>0, SettingsType DEF ReadConfig, ReadCache, HostTypeOK
<1>4. /\ \/ cron' = cron
         \/ /\ cron'[k].pc = "count" /\ cron'[k].cfg = cfg /\ cron'[k].ok = FALSE
            /\ cron'[k].part < today - LateDays
      /\ \A j \in Runs : j # k => cron'[j] = cron[j]
      /\ cron' \in [Runs -> RunState]
  BY <1>0, <1>1, RunEnters
<1>5. UNCHANGED <<today, rows, localNames, localCells, remote>>
  BY <1>2 DEF vars
<1>6. RunInv(k)'
  <2>1. CASE cron' = cron
    BY <1>0, <1>5, <2>1 DEF RunInv, CellsOf
  <2>2. CASE /\ cron'[k].pc = "count" /\ cron'[k].cfg = cfg /\ cron'[k].ok = FALSE
             /\ cron'[k].part < today - LateDays
    BY <1>5, <2>2 DEF RunInv, OwnsBackup
  <2> QED
    BY <1>4, <2>1, <2>2
<1>7. cron'[k].pc \in OwnsBackup =>
          cron[k].pc \in OwnsBackup /\ cron'[k].part = cron[k].part
  BY <1>4 DEF OwnsBackup
<1> QED
  BY <1>2, <1>3, <1>4, <1>6, <1>7, QuietRun

(* Steps to a phase in which no local backup is held.                      *)
LEMMA PhaseGuarantee ==
    ASSUME HostInv, NEW k \in Runs, CountParts(k) \/ LoadCreds(k) \/ DropsEnd(k)
    PROVE  ScriptGuarantee(k)
<1>0. HostTypeOK /\ RunInv(k) /\ cron[k] \in RunState
  BY HostFacts
<1>1. UNCHANGED vars /\ cache' = cache
  BY DEF CountParts, LoadCreds, DropsEnd
<1>2. CASE Exit(k)
  BY <1>0, <1>1, <1>2, RunExits, OffRunInv, QuietRun DEF HostTypeOK, OwnsBackup
<1>3. ASSUME NEW p \in {"creds", "create", "status"}, Move(k, p), cron[k].pc # "off",
             cron[k].ok => p = "status"
      PROVE  ScriptGuarantee(k)
  <2>1. p \in RunPCs /\ p \notin OwnsBackup /\ p # "off" /\ p # "drop"
    BY DEF RunPCs, OwnsBackup
  <2>2. /\ cron'[k].pc = p /\ cron'[k].cfg = cron[k].cfg
        /\ cron'[k].part = cron[k].part /\ cron'[k].ok = cron[k].ok
        /\ \A j \in Runs : j # k => cron'[j] = cron[j]
        /\ cron' \in [Runs -> RunState]
    BY <1>0, <1>3, <2>1, RunMoves
  <2>3. UNCHANGED <<today, rows, localNames, localCells, remote>>
    BY <1>1 DEF vars
  <2>4. RunInv(k)'
    BY <1>0, <1>3, <2>1, <2>2, <2>3 DEF RunInv, CellsOf, OwnsBackup
  <2> QED
    BY <1>0, <1>1, <2>1, <2>2, <2>4, QuietRun DEF HostTypeOK
<1> QED
  BY <1>0, <1>2, <1>3 DEF CountParts, LoadCreds, DropsEnd, RunInv

LEMMA KillGuarantee ==
    ASSUME HostInv, NEW k \in Runs, Kill(k)
    PROVE  ScriptGuarantee(k)
BY HostFacts, RunExits, OffRunInv, QuietRun DEF Kill, HostTypeOK, OwnsBackup

(* create: the name was free, so no loop and no other run has it.          *)
LEMMA CreateGuarantee ==
    ASSUME HostInv, NEW k \in Runs, CreateArchive(k) \/ CreateArchiveFail(k)
    PROVE  ScriptGuarantee(k)
<1>0. HostTypeOK /\ TypeOK /\ RunInv(k) /\ OnlyIngested /\ NoDataLoss /\ BackupOnlyKept
      /\ cron[k].pc = "create"
  BY HostFacts DEF CreateArchive, CreateArchiveFail
<1>1. UNCHANGED <<today, rows, ingested, remote, lifecycle, ctrlVars, loop, cache>>
  BY DEF CreateArchive, CreateArchiveFail
<1>2. /\ cron'[k].cfg = cron[k].cfg
      /\ cron'[k].part = cron[k].part /\ cron'[k].ok = cron[k].ok
      /\ \A j \in Runs : j # k => cron'[j] = cron[j]
      /\ cron' \in [Runs -> RunState]
      /\ \/ /\ cron'[k].pc = "shadow"
            /\ cron[k].part \notin localNames
            /\ localNames' = localNames \cup {cron[k].part}
            /\ localCells' = localCells \cup CellsOf(rows, cron[k].part)
         \/ cron'[k].pc = "status" /\ UNCHANGED localCells
  <2>1. "shadow" \in RunPCs /\ "status" \in RunPCs
    BY DEF RunPCs
  <2> QED
    BY <1>0, <2>1, RunMoves DEF CreateArchive, CreateArchiveFail
<1>3. /\ localNames \subseteq localNames' /\ localNames' \subseteq Days
      /\ localCells \subseteq localCells' /\ localCells' \subseteq localCells \cup rows
  BY <1>0 DEF CreateArchive, CreateArchiveFail, CellsOf, TypeOK
<1>4. OnlyIngested' /\ NoDataLoss' /\ BackupOnlyKept'
  BY <1>0, <1>1, <1>3 DEF OnlyIngested, NoDataLoss, BackupOnlyKept
<1>5. HostTypeOK'
  BY <1>0, <1>1, <1>2, <1>3 DEF HostTypeOK, TypeOK, ctrlVars
<1>6. RunInv(k)'
  BY <1>0, <1>1, <1>2 DEF RunInv, CellsOf, OwnsBackup
<1> QED
  BY <1>1, <1>2, <1>3, <1>4, <1>5, <1>6 DEF ScriptGuarantee, KeepsLocal, CellsOf, OwnsBackup

(* delete local, after an empty shadow or an upload: the run deletes its   *)
(* own backup.                                                             *)
LEMMA DeleteGuarantee ==
    ASSUME HostInv, NEW k \in Runs, CheckShadow(k) \/ CleanArchive(k)
    PROVE  ScriptGuarantee(k)
<1>0. HostTypeOK /\ TypeOK /\ RunInv(k) /\ OnlyIngested /\ NoDataLoss /\ BackupOnlyKept
      /\ cron[k].pc \in {"shadow", "clean"} /\ cron[k] \in RunState
  BY HostFacts DEF CheckShadow, CleanArchive
<1>1. UNCHANGED <<today, rows, ingested, remote, lifecycle, ctrlVars, loop, cache>>
  BY DEF CheckShadow, CleanArchive
<1>2. cron[k].pc \in OwnsBackup
  BY <1>0 DEF OwnsBackup
<1>3. /\ localNames' \subseteq localNames /\ localCells' \subseteq localCells
      /\ localNames \ {cron[k].part} \subseteq localNames'
      /\ localCells \ CellsOf(localCells, cron[k].part) \subseteq localCells'
  BY DEF CheckShadow, CleanArchive, DeleteLocal
<1>4. /\ \A j \in Runs : j # k => cron'[j] = cron[j]
      /\ cron' \in [Runs -> RunState]
      /\ \/ /\ cron'[k].pc = "upload" /\ cron[k].pc = "shadow"
            /\ UNCHANGED <<localNames, localCells>>
            /\ cron'[k].cfg = cron[k].cfg
            /\ cron'[k].part = cron[k].part /\ cron'[k].ok = cron[k].ok
         \/ /\ cron'[k].pc = "drop" /\ cron[k].ok
            /\ cron'[k].cfg = cron[k].cfg
            /\ cron'[k].part = cron[k].part /\ cron'[k].ok = cron[k].ok
         \/ /\ cron'[k].pc = "status"
            /\ cron'[k].cfg = cron[k].cfg
            /\ cron'[k].part = cron[k].part /\ cron'[k].ok = cron[k].ok
         \/ cron'[k].pc = "off" /\ cron'[k].ok = FALSE
  <2>1. {"upload", "drop", "status"} \subseteq RunPCs
    BY DEF RunPCs
  <2>2. CASE CheckShadow(k)
    BY <1>0, <2>1, <2>2, RunMoves, RunExits DEF CheckShadow
  <2>3. CASE CleanArchive(k) /\ cron[k].ok
    BY <1>0, <2>1, <2>3, RunDrops DEF CleanArchive
  <2>4. CASE CleanArchive(k) /\ ~cron[k].ok
    <3>1. Become(k, [cron[k] EXCEPT !.pc = "status"])
      BY <2>4 DEF CleanArchive
    <3>2. cron[k].pc = "clean"
      BY <2>4 DEF CleanArchive
    <3> QED
      BY <1>0, <2>1, <3>1, <3>2, RunMoves DEF Move
  <2> QED
    BY <2>2, <2>3, <2>4
<1>5. OnlyIngested' /\ NoDataLoss' /\ BackupOnlyKept'
  BY <1>0, <1>1, <1>3 DEF OnlyIngested, NoDataLoss, BackupOnlyKept
<1>6. HostTypeOK'
  BY <1>0, <1>1, <1>3, <1>4 DEF HostTypeOK, TypeOK, ctrlVars
<1>7. RunInv(k)'
  BY <1>0, <1>1, <1>4 DEF RunInv, CellsOf, OwnsBackup
<1>8. \A d \in localNames : d # cron[k].part => KeepsLocal(d)
  BY <1>3 DEF KeepsLocal, CellsOf
<1> QED
  BY <1>1, <1>2, <1>4, <1>5, <1>6, <1>7, <1>8 DEF ScriptGuarantee, OwnsBackup

(* upload and list remote.                                                 *)
LEMMA UploadGuarantee ==
    ASSUME HostInv, NEW k \in Runs, UploadArchive(k) \/ UploadArchiveFail(k)
    PROVE  ScriptGuarantee(k)
<1> DEFINE S == CellsOf(localCells, cron[k].part)
<1>0. HostTypeOK /\ TypeOK /\ RunInv(k) /\ OnlyIngested /\ NoDataLoss /\ BackupOnlyKept
      /\ cron[k].pc = "upload"
  BY HostFacts DEF UploadArchive, UploadArchiveFail
<1>1. UNCHANGED <<today, rows, ingested, localNames, localCells, lifecycle, ctrlVars, loop,
                  cache>>
  BY DEF UploadArchive, UploadArchiveFail
<1>2. /\ cron'[k].cfg = cron[k].cfg
      /\ cron'[k].part = cron[k].part /\ cron'[k].ok = cron[k].ok
      /\ \A j \in Runs : j # k => cron'[j] = cron[j]
      /\ cron' \in [Runs -> RunState]
      /\ remote \subseteq remote' /\ remote' \subseteq remote \cup S
      /\ \/ cron'[k].pc = "verify" /\ S \subseteq remote'
         \/ cron'[k].pc = "clean"
  <2>1. {"verify", "clean"} \subseteq RunPCs
    BY DEF RunPCs
  <2> QED
    BY <1>0, <2>1, RunMoves DEF UploadArchive, UploadArchiveFail, Uploaded
<1>3. S \subseteq localCells /\ CellsOf(rows, cron[k].part) \subseteq S
  BY <1>0 DEF CellsOf, RunInv
<1> HIDE DEF S
<1>4. OnlyIngested' /\ NoDataLoss' /\ BackupOnlyKept'
  BY <1>0, <1>1, <1>2, <1>3 DEF OnlyIngested, NoDataLoss, BackupOnlyKept
<1>5. HostTypeOK'
  BY <1>0, <1>1, <1>2, <1>3 DEF HostTypeOK, TypeOK, ctrlVars
<1>6. RunInv(k)'
  BY <1>0, <1>1, <1>2, <1>3 DEF RunInv, CellsOf, OwnsBackup
<1> QED
  BY <1>0, <1>1, <1>2, <1>4, <1>5, <1>6 DEF ScriptGuarantee, KeepsLocal, CellsOf, OwnsBackup

LEMMA VerifyGuarantee ==
    ASSUME HostInv, NEW k \in Runs, VerifyUpload(k)
    PROVE  ScriptGuarantee(k)
<1>0. HostTypeOK /\ RunInv(k) /\ cron[k].pc = "verify"
      /\ UNCHANGED vars /\ cache' = cache
  BY HostFacts DEF VerifyUpload
<1>1. /\ cron'[k].pc = "clean" /\ cron'[k].cfg = cron[k].cfg
      /\ cron'[k].part = cron[k].part
      /\ \A j \in Runs : j # k => cron'[j] = cron[j]
      /\ cron' \in [Runs -> RunState]
  BY <1>0, RunVerified DEF VerifyUpload
<1>2. UNCHANGED <<today, rows, localNames, localCells, remote>>
  BY <1>0 DEF vars
<1>3. RunInv(k)'
  BY <1>0, <1>1, <1>2 DEF RunInv, CellsOf, OwnsBackup
<1> QED
  BY <1>0, <1>1, <1>3, QuietRun DEF HostTypeOK, OwnsBackup

(* The last loop over DROP_TABLES: what leaves ClickHouse is in the bucket.*)
LEMMA DropGuarantee ==
    ASSUME HostInv, NEW k \in Runs, NEW t \in DROP_TABLES,
           DropPartition(k, t) \/ SkipPartition(k, t)
    PROVE  ScriptGuarantee(k)
<1> DEFINE c == <<t, cron[k].part>>
<1>0. HostTypeOK /\ TypeOK /\ RunInv(k) /\ OnlyIngested /\ NoDataLoss /\ BackupOnlyKept
      /\ cron[k].pc = "drop"
  BY HostFacts DEF DropPartition, SkipPartition
<1>1. UNCHANGED <<today, ingested, localNames, localCells, remote, lifecycle, ctrlVars, loop,
                  cache>>
  BY DEF DropPartition, SkipPartition, vars, ctrlVars
<1>2. /\ cron'[k].pc = cron[k].pc /\ cron'[k].cfg = cron[k].cfg
      /\ cron'[k].part = cron[k].part /\ cron'[k].ok = cron[k].ok
      /\ \A j \in Runs : j # k => cron'[j] = cron[j]
      /\ cron' \in [Runs -> RunState]
  BY <1>0, RunSkips DEF DropPartition, SkipPartition
<1>3. rows' = rows \/ (c \in rows /\ rows' = rows \ {c})
  BY DEF DropPartition, SkipPartition, vars
<1>4. c \in rows => c \in remote /\ c \in DROP_TABLES \X Days
  BY <1>0 DEF RunInv, CellsOf, TypeOK, Cells
<1> HIDE DEF c
<1>5. OnlyIngested' /\ NoDataLoss' /\ BackupOnlyKept'
  BY <1>0, <1>1, <1>3, <1>4 DEF OnlyIngested, NoDataLoss, BackupOnlyKept
<1>6. HostTypeOK'
  BY <1>0, <1>1, <1>2, <1>3 DEF HostTypeOK, TypeOK, ctrlVars
<1>7. RunInv(k)'
  BY <1>0, <1>1, <1>2, <1>3 DEF RunInv, CellsOf, OwnsBackup
<1> QED
  BY <1>1, <1>2, <1>3, <1>5, <1>6, <1>7 DEF ScriptGuarantee, KeepsLocal, CellsOf

LEMMA StatusGuarantee ==
    ASSUME HostInv, NEW k \in Runs, WriteStatus(k)
    PROVE  ScriptGuarantee(k)
<1>0. HostTypeOK /\ TypeOK /\ RunInv(k) /\ OnlyIngested /\ NoDataLoss /\ BackupOnlyKept
      /\ cron[k].pc = "status" /\ cron[k] \in RunState
  BY HostFacts DEF WriteStatus
<1>1. UNCHANGED <<today, rows, ingested, localNames, localCells, remote, ctrlVars, loop, cache>>
  BY DEF WriteStatus
<1>2. /\ cron'[k].pc = "off" /\ cron'[k].ok = FALSE
      /\ \A j \in Runs : j # k => cron'[j] = cron[j]
      /\ cron' \in [Runs -> RunState]
  BY <1>0, RunExits DEF WriteStatus
<1>3. lifecycle' \in Row
  <2>1. cron[k].cfg.total \in Totals /\ cron[k].cfg.glacier \in {0, 1}
    BY <1>0 DEF RunInv, Settings
  <2>2. \A b : CronRow(cron[k].cfg, b) \in Row
    BY <1>0, <2>1, CronFrequencyAssumption DEF CronRow, Row, Statuses, TypeOK
  <2> QED
    BY <1>0, <2>2 DEF WriteStatus, TypeOK
<1>4. HostTypeOK'
  BY <1>0, <1>1, <1>2, <1>3 DEF HostTypeOK, TypeOK, ctrlVars
<1>5. OnlyIngested' /\ NoDataLoss' /\ BackupOnlyKept'
  BY <1>0, <1>1 DEF OnlyIngested, NoDataLoss, BackupOnlyKept
<1> QED
  BY <1>1, <1>2, <1>4, <1>5, OffRunInv DEF ScriptGuarantee, KeepsLocal, CellsOf, OwnsBackup

LEMMA ScriptGuarantees ==
    ASSUME HostInv, NEW k \in Runs, Script(k)
    PROVE  ScriptGuarantee(k)
BY EnterGuarantee, PhaseGuarantee, KillGuarantee, CreateGuarantee, DeleteGuarantee,
   UploadGuarantee, VerifyGuarantee, DropGuarantee, StatusGuarantee DEF Script

-----------------------------------------------------------------------------
(* The inductive invariant.                                                *)

(* A run that did not move, after a step that is Monotone and keeps its    *)
(* local backup.                                                           *)
LEMMA RestingRun ==
    ASSUME HostTypeOK, HostTypeOK', NEW k \in Runs, RunInv(k), Monotone,
           cron'[k] = cron[k],
           cron[k].pc \in OwnsBackup => KeepsLocal(cron[k].part)
    PROVE  RunInv(k)'
<1>1. today \in Int /\ today' \in Int /\ LateDays \in Int /\ cron[k].part \in Int
  BY LatenessAssumption DEF HostTypeOK, TypeOK, Days, RunState
<1>2. /\ rows' \subseteq Tables \X Int /\ ingested' \subseteq Tables \X Int
  BY DEF HostTypeOK, TypeOK, Cells, Days
<1>3. cron[k].pc # "off" => /\ cron[k].part < today' - LateDays
                            /\ CellsOf(rows', cron[k].part) \subseteq CellsOf(rows, cron[k].part)
  BY <1>1, <1>2 DEF RunInv, Monotone, CellsOf
<1>4. cron[k].pc \in {"shadow", "upload"} =>
          CellsOf(rows', cron[k].part) \subseteq localCells'
  BY <1>3 DEF RunInv, OwnsBackup, KeepsLocal, CellsOf
<1>5. (cron[k].pc = "verify" \/ cron[k].ok) =>
          CellsOf(rows', cron[k].part) \subseteq remote'
  BY <1>3 DEF RunInv, Monotone, CellsOf
<1> QED
  BY <1>1, <1>3, <1>4, <1>5 DEF RunInv, OwnsBackup, KeepsLocal

(* With NoDataLoss a run that is ok has all of its date in the bucket.     *)
LEMMA SuccessFromRuns ==
    ASSUME NoDataLoss, \A k \in Runs : RunInv(k)
    PROVE  ScriptSuccessArchived
BY DEF NoDataLoss, RunInv, ScriptSuccessArchived, CellsOf

LEMMA AgentStep == HostInv /\ Agent => HostInv'
<1> SUFFICES ASSUME HostInv, Agent PROVE HostInv'
  OBVIOUS
<1>0. IInv /\ HostTypeOK
  BY DEF HostInv, HostTypeOK, IInv
<1>1. IInv' /\ AgentGuarantee /\ cron' = cron /\ cache' = cache
  BY <1>0, StepInv, AgentGuarantees DEF Agent, cronVars
<1>2. HostTypeOK' /\ ArchiveInv'
  BY <1>0, <1>1 DEF HostTypeOK, IInv
<1>3. \A k \in Runs : RunInv(k) /\ OneOwnerPerDate
  BY RunInvs DEF HostInv
<1>4. ASSUME NEW k \in Runs, cron[k].pc \in OwnsBackup
      PROVE  KeepsLocal(cron[k].part) /\ cron[k].part \in localNames
  BY <1>1, <1>3, <1>4 DEF RunInv, AgentGuarantee, HeldByLoop, OneOwnerPerDate
<1>5. \A k \in Runs : RunInv(k)'
  BY <1>0, <1>1, <1>2, <1>3, <1>4, RestingRun DEF AgentGuarantee
<1>6. OneOwnerPerDate'
  <2>1. ASSUME NEW k \in Runs, cron[k].pc \in OwnsBackup, NEW l \in Loops,
               loop'[l].pc \in HoldsBackup
        PROVE  loop'[l].part # cron[k].part
    BY <1>1, <1>3, <1>4, <2>1 DEF AgentGuarantee, OneOwnerPerDate
  <2>2. \A k \in Runs : cron[k].pc \in OwnsBackup =>
            \A j \in Runs \ {k} : cron[j].pc \in OwnsBackup => cron[j].part # cron[k].part
    BY <1>3 DEF OneOwnerPerDate
  <2> QED
    BY <1>1, <2>1, <2>2 DEF OneOwnerPerDate
<1>7. ScriptSuccessArchived'
  BY <1>2, <1>5, SuccessFromRuns DEF ArchiveInv, NoDataLoss, RunInv, ScriptSuccessArchived,
     CellsOf
<1> QED
  BY <1>2, <1>5, <1>6, <1>7 DEF HostInv, ScriptInv, RunInv, DateClosed, OwnsName, BackupComplete

(* The loops rest in a step of the script.                                 *)
LEMMA RestingLoops ==
    ASSUME HostInv, NEW k \in Runs, ScriptGuarantee(k)
    PROVE  ArchiveInv'
<1>0. /\ UNCHANGED <<today, ingested, loop>>
      /\ rows' \subseteq rows /\ remote \subseteq remote'
      /\ OnlyIngested' /\ NoDataLoss' /\ BackupOnlyKept'
  BY DEF ScriptGuarantee
<1>1. ASSUME NEW l \in Loops, loop[l].pc \in HoldsBackup
      PROVE  KeepsLocal(loop[l].part)
  <2>1. loop[l].part \in localNames
    BY <1>1 DEF HostInv, ArchiveInv, CyclePlan
  <2>2. ~(cron[k].pc \in OwnsBackup /\ cron[k].part = loop[l].part)
    BY <1>1 DEF HostInv, ScriptInv, OneOwnerPerDate
  <2> QED
    BY <2>1, <2>2 DEF ScriptGuarantee
<1>2. LiveConfig' /\ TargetsClosed' /\ OneOwnerPerBackup'
  BY <1>0 DEF HostInv, ArchiveInv, LiveConfig, TargetsClosed, OneOwnerPerBackup
<1>3. CyclePlan'
  BY <1>0, <1>1 DEF HostInv, ArchiveInv, CyclePlan, KeepsLocal
<1>4. SnapshotComplete'
  <2>1. ASSUME NEW l \in Loops, loop[l].pc = "upload"
        PROVE  CellsOf(rows', loop[l].part) \subseteq localCells'
    <3>1. KeepsLocal(loop[l].part)
      BY <1>1, <2>1 DEF HoldsBackup
    <3> QED
      BY <1>0, <2>1, <3>1 DEF HostInv, ArchiveInv, SnapshotComplete, KeepsLocal, CellsOf
  <2>2. ASSUME NEW l \in Loops, loop[l].pc \in {"clean", "drop"}
        PROVE  CellsOf(rows', loop[l].part) \subseteq remote'
    BY <1>0, <2>2 DEF HostInv, ArchiveInv, SnapshotComplete, CellsOf
  <2> QED
    BY <1>0, <2>1, <2>2 DEF SnapshotComplete
<1>5. SuccessMeansArchived'
  BY <1>0 DEF HostInv, ArchiveInv, SuccessMeansArchived, CellsOf
<1> QED
  BY <1>0, <1>2, <1>3, <1>4, <1>5 DEF ArchiveInv

LEMMA ScriptStep ==
    ASSUME HostInv, NEW k \in Runs, Script(k)
    PROVE  HostInv'
<1>0. ScriptGuarantee(k) /\ HostTypeOK /\ HostTypeOK'
  BY ScriptGuarantees DEF HostInv, ScriptGuarantee
<1>1. ArchiveInv'
  BY <1>0, RestingLoops
<1>2. OneOwnerPerDate /\ \A j \in Runs : RunInv(j)
  BY RunInvs DEF HostInv
<1>3. Monotone
  BY <1>0, TodayInt DEF ScriptGuarantee, Monotone, HostTypeOK
<1>4. ASSUME NEW j \in Runs \ {k}
      PROVE  RunInv(j)'
  <2>1. cron'[j] = cron[j]
    BY <1>0 DEF ScriptGuarantee
  <2>2. cron[j].pc \in OwnsBackup => KeepsLocal(cron[j].part)
    BY <1>0, <1>2 DEF ScriptGuarantee, RunInv, OneOwnerPerDate
  <2> QED
    BY <1>0, <1>2, <1>3, <2>1, <2>2, RestingRun
<1>5. \A j \in Runs : RunInv(j)'
  BY <1>0, <1>4 DEF ScriptGuarantee
<1>6. OneOwnerPerDate'
  <2>1. ASSUME NEW l \in Loops, loop[l].pc \in HoldsBackup
        PROVE  loop[l].part \in localNames
    BY <2>1 DEF HostInv, ArchiveInv, CyclePlan
  <2>2. \A j \in Runs : cron[j].pc \in OwnsBackup => cron[j].part \in localNames
    BY <1>2 DEF RunInv
  <2> QED
    BY <1>0, <1>2, <2>1, <2>2 DEF ScriptGuarantee, OneOwnerPerDate
<1>7. ScriptSuccessArchived'
  BY <1>1, <1>5 DEF ArchiveInv, NoDataLoss, RunInv, ScriptSuccessArchived, CellsOf
<1> QED
  BY <1>0, <1>1, <1>5, <1>6, <1>7
     DEF HostInv, ScriptInv, RunInv, DateClosed, OwnsName, BackupComplete

-----------------------------------------------------------------------------
(* The theorems.                                                           *)

LEMMA HostInitInv == HostInit => HostInv
<1> SUFFICES ASSUME HostInit PROVE HostInv
  OBVIOUS
<1>1. IInv
  BY InitInv DEF HostInit
<1>2. \A k \in Runs : cron[k].pc = "off" /\ cron[k].ok = FALSE
  BY OffFacts DEF HostInit
<1>3. HostTypeOK
  BY <1>1, OffFacts DEF HostInit, HostTypeOK, IInv
<1>4. ScriptInv
  BY <1>2 DEF ScriptInv, DateClosed, OwnsName, OneOwnerPerDate, BackupComplete,
     ScriptSuccessArchived, OwnsBackup
<1> QED
  BY <1>1, <1>3, <1>4 DEF HostInv, IInv

LEMMA HostStepInv == HostInv /\ [HostNext]_<<vars, cronVars>> => HostInv'
<1> SUFFICES ASSUME HostInv, [HostNext]_<<vars, cronVars>> PROVE HostInv'
  OBVIOUS
<1>1. CASE Agent
  BY <1>1, AgentStep
<1>2. ASSUME NEW k \in Runs, Script(k) PROVE HostInv'
  BY <1>2, ScriptStep
<1>3. CASE UNCHANGED <<vars, cronVars>>
  <2>1. IInv'
    BY <1>3, StepInv DEF HostInv, HostTypeOK, IInv
  <2>2. UNCHANGED <<today, rows, ingested, localNames, localCells, remote, loop, cron, cache>>
    BY <1>3 DEF vars, cronVars
  <2>3. HostTypeOK'
    BY <2>1, <2>2 DEF HostInv, HostTypeOK, IInv
  <2>4. ScriptInv'
    BY <2>2 DEF HostInv, ScriptInv, DateClosed, OwnsName, OneOwnerPerDate, BackupComplete,
       ScriptSuccessArchived, CellsOf
  <2> QED
    BY <2>1, <2>3, <2>4 DEF HostInv, IInv
<1> QED
  BY <1>1, <1>2, <1>3 DEF HostNext

(* The inductive invariant of the host.                                    *)
THEOREM HostInvariance == HostSpec => []HostInv
BY HostInitInv, HostStepInv, PTL DEF HostSpec

(* Every variable keeps its type; a status row of the script is one the    *)
(* agent can read.                                                         *)
THEOREM HostTypeCorrectness == HostSpec => []HostTypeOK
<1>1. HostInv => HostTypeOK
  BY DEF HostInv
<1> QED
  BY <1>1, HostInvariance, PTL

(* The scheduler and any number of overlapping runs of the script lose no  *)
(* telemetry, although nothing but the names of the local backups keeps    *)
(* them apart.                                                             *)
THEOREM HostNoLoss == HostSpec => []NoDataLoss
<1>1. HostInv => NoDataLoss
  BY DEF HostInv, ArchiveInv
<1> QED
  BY <1>1, HostInvariance, PTL

(* A local backup the script works on is no other's.                       *)
THEOREM HostOwnership == HostSpec => []OneOwnerPerDate
<1>1. HostInv => OneOwnerPerDate
  BY DEF HostInv, ScriptInv
<1> QED
  BY <1>1, HostInvariance, PTL

(* What the script reports as a success is in the bucket.                  *)
THEOREM ScriptHonest == HostSpec => []ScriptSuccessArchived
<1>1. HostInv => ScriptSuccessArchived
  BY DEF HostInv, ScriptInv
<1> QED
  BY <1>1, HostInvariance, PTL

LEMMA ScriptKeepsOpen ==
    ASSUME HostInv, NEW k \in Runs, Script(k), NEW c \in rows \ rows'
    PROVE  c[2] < today - LateDays
<1>1. PICK t \in DROP_TABLES : DropPartition(k, t)
  BY DEF Script, ReadConfig, ReadCache, CountParts, LoadCreds, CreateArchive,
     CreateArchiveFail, CheckShadow, UploadArchive, UploadArchiveFail, VerifyUpload,
     CleanArchive, SkipPartition, DropsEnd, WriteStatus, Kill, vars
<1>2. c = <<t, cron[k].part>> /\ cron[k].pc = "drop"
  BY <1>1 DEF DropPartition
<1> QED
  BY <1>2, HostFacts DEF RunInv

(* Neither side drops a partition that collectors may still write to.      *)
THEOREM HostOpenPartitionsKept == HostSpec => NeverDropsOpenPartition
<1>1. HostInv /\ [HostNext]_<<vars, cronVars>> =>
          [\A c \in rows \ rows' : c[2] < today - LateDays]_vars
  <2> SUFFICES ASSUME HostInv, [HostNext]_<<vars, cronVars>>, NEW c \in rows \ rows'
               PROVE  c[2] < today - LateDays
    OBVIOUS
  <2>1. IInv
    BY DEF HostInv, HostTypeOK, IInv
  <2>2. CASE Agent
    BY <2>1, <2>2, DropsClosed DEF Agent
  <2>3. CASE \E k \in Runs : Script(k)
    BY <2>3, ScriptKeepsOpen
  <2>4. CASE UNCHANGED <<vars, cronVars>>
    BY <2>4 DEF vars
  <2> QED
    BY <2>2, <2>3, <2>4 DEF HostNext
<1> QED
  BY <1>1, HostInvariance, PTL DEF HostSpec, NeverDropsOpenPartition

-----------------------------------------------------------------------------
(* Refinement.                                                             *)

LEMMA ScriptRefines ==
    ASSUME HostInv, NEW k \in Runs, Script(k)
    PROVE  [Archive!Next]_(Archive!vars)
<1>0. /\ TypeOK /\ RunInv(k) /\ cron[k] \in RunState
      /\ OnlyIngested /\ NoDataLoss
  BY HostFacts
<1>1. CASE UNCHANGED <<rows, remote>>
  BY <1>1 DEF Archive!vars
<1>2. CASE UploadArchive(k) \/ UploadArchiveFail(k)
  <2> DEFINE S == CellsOf(localCells, cron[k].part)
  <2>1. S \subseteq Archive!Data
    BY <1>0 DEF TypeOK, CellsOf, Cells, Tables, Archive!Data
  <2>2. S \subseteq rows \cup remote
    BY <1>0 DEF OnlyIngested, NoDataLoss, CellsOf
  <2>3. rows' = rows /\ (remote' = remote \cup S \/ remote' = remote)
    BY <1>2 DEF UploadArchive, UploadArchiveFail, Uploaded
  <2> HIDE DEF S
  <2>4. CASE remote' = remote \cup S
    BY <2>1, <2>2, <2>3, <2>4 DEF Archive!Next, Archive!Archive
  <2> QED
    BY <1>1, <2>3, <2>4
<1>3. ASSUME NEW t \in DROP_TABLES, DropPartition(k, t)
      PROVE  Archive!Next
  <2> DEFINE c == <<t, cron[k].part>>
  <2>1. c \in rows /\ cron[k].pc = "drop" /\ rows' = rows \ {c} /\ remote' = remote
    BY <1>3 DEF DropPartition
  <2>2. c \in DROP_TABLES \X Days /\ c \in remote
    BY <1>0, <2>1 DEF TypeOK, Cells, RunInv, CellsOf
  <2> HIDE DEF c
  <2> QED
    BY <2>1, <2>2 DEF Archive!Next, Archive!Expire
<1>4. \/ UNCHANGED <<rows, remote>>
      \/ UploadArchive(k) \/ UploadArchiveFail(k)
      \/ \E t \in DROP_TABLES : DropPartition(k, t)
  BY DEF Script, ReadConfig, ReadCache, CountParts, LoadCreds, CreateArchive,
     CreateArchiveFail, CheckShadow, VerifyUpload, CleanArchive, SkipPartition, DropsEnd,
     WriteStatus, Kill, vars
<1> QED
  BY <1>1, <1>2, <1>3, <1>4

(* The scheduler and the script together implement ColdArchive.            *)
THEOREM HostRefinement == HostSpec => ImplementsColdArchive
<1>1. HostInit => Archive!Init
  BY RefineInit DEF HostInit
<1>2. HostInv /\ [HostNext]_<<vars, cronVars>> => [Archive!Next]_(Archive!vars)
  <2> SUFFICES ASSUME HostInv, [HostNext]_<<vars, cronVars>>
               PROVE  [Archive!Next]_(Archive!vars)
    OBVIOUS
  <2>1. IInv
    BY DEF HostInv, HostTypeOK, IInv
  <2>2. CASE Agent
    BY <2>1, <2>2, RefineStep DEF Agent
  <2>3. CASE \E k \in Runs : Script(k)
    BY <2>3, ScriptRefines
  <2>4. CASE UNCHANGED <<vars, cronVars>>
    BY <2>4 DEF vars, Archive!vars
  <2> QED
    BY <2>2, <2>3, <2>4 DEF HostNext
<1> QED
  BY <1>1, <1>2, HostInvariance, PTL DEF HostSpec, ImplementsColdArchive, Archive!Spec

-----------------------------------------------------------------------------
(* A run of the script ends.                                               *)

(* A step per table, and the others of the script from its first query on. *)
StepsPerRun == Cardinality(DROP_TABLES) + 9

RunStepsLeft(r) ==
    LET tables == Cardinality(DROP_TABLES)
    IN  CASE r.pc = "count"  -> StepsPerRun
          [] r.pc = "creds"  -> tables + 8
          [] r.pc = "create" -> tables + 7
          [] r.pc = "shadow" -> tables + 6
          [] r.pc = "upload" -> tables + 5
          [] r.pc = "verify" -> tables + 4
          [] r.pc = "clean"  -> tables + 3
          [] r.pc = "drop"   -> Cardinality(r.drops) + 2
          [] r.pc = "status" -> 1
          [] OTHER           -> 0

(* Every step of a run lowers its count, and no other step changes it.     *)
RunCountsDown ==
    [][\A k \in Runs :
         (cron[k].pc # "off" /\ cron'[k] # cron[k]) =>
             RunStepsLeft(cron'[k]) < RunStepsLeft(cron[k])]_<<vars, cronVars>>

LEMMA RunStepsRange ==
    ASSUME NEW r \in RunState
    PROVE  /\ RunStepsLeft(r) \in 0 .. StepsPerRun
           /\ r.pc # "off" => RunStepsLeft(r) > 0
           /\ r.pc = "off" => RunStepsLeft(r) = 0
<1>1. r.drops \in SUBSET DROP_TABLES /\ r.pc \in RunPCs
  BY DEF RunState
<1>2. /\ Cardinality(r.drops) \in Nat /\ Cardinality(DROP_TABLES) \in Nat
      /\ Cardinality(r.drops) <= Cardinality(DROP_TABLES)
  BY <1>1, FiniteAssumption, FS_Subset, FS_CardinalityType
<1> QED
  BY <1>1, <1>2 DEF RunStepsLeft, StepsPerRun, RunPCs

(* The steps of a run in the order of the script: what is left out is      *)
(* skipped by an error or an exit.                                         *)
Forward(p, q) ==
    \/ q = "off"
    \/ p = "count"  /\ q = "creds"
    \/ p = "creds"  /\ q \in {"create", "status"}
    \/ p = "create" /\ q \in {"shadow", "status"}
    \/ p = "shadow" /\ q \in {"upload", "status"}
    \/ p = "upload" /\ q \in {"verify", "clean"}
    \/ p = "verify" /\ q = "clean"
    \/ p = "clean"  /\ q \in {"drop", "status"}
    \/ p = "drop"   /\ q = "status"

LEMMA ForwardCounts ==
    ASSUME NEW s \in RunState, NEW r \in RunState, s.pc # "off", Forward(s.pc, r.pc)
    PROVE  RunStepsLeft(r) < RunStepsLeft(s)
<1>1. /\ r.drops \in SUBSET DROP_TABLES /\ s.drops \in SUBSET DROP_TABLES
      /\ r.pc \in RunPCs /\ s.pc \in RunPCs
  BY DEF RunState
<1>2. /\ Cardinality(r.drops) \in Nat /\ Cardinality(DROP_TABLES) \in Nat
      /\ Cardinality(s.drops) \in Nat
      /\ Cardinality(r.drops) <= Cardinality(DROP_TABLES)
  BY <1>1, FiniteAssumption, FS_Subset, FS_CardinalityType
<1>3. CASE r.pc = "off"
  BY <1>3, RunStepsRange
<1>4. CASE r.pc # "off"
  BY <1>1, <1>2, <1>4 DEF Forward, RunStepsLeft, StepsPerRun, RunPCs
<1> QED
  BY <1>3, <1>4

LEMMA TableCounts ==
    ASSUME NEW s \in RunState, NEW t \in s.drops, s.pc = "drop"
    PROVE  RunStepsLeft([s EXCEPT !.drops = @ \ {t}]) < RunStepsLeft(s)
<1> DEFINE r == [s EXCEPT !.drops = @ \ {t}]
<1>1. r.pc = "drop" /\ r.drops = s.drops \ {t}
  BY DEF RunState
<1> HIDE DEF r
<1>2. IsFiniteSet(s.drops)
  BY FiniteAssumption, FS_Subset DEF RunState
<1>3. Cardinality(r.drops) = Cardinality(s.drops) - 1 /\ Cardinality(s.drops) \in Nat
  BY <1>1, <1>2, FS_RemoveElement, FS_CardinalityType
<1>4. /\ RunStepsLeft(r) = Cardinality(r.drops) + 2
      /\ RunStepsLeft(s) = Cardinality(s.drops) + 2
  BY <1>1 DEF RunStepsLeft
<1> QED
  BY <1>3, <1>4 DEF r

LEMMA ScriptCounts ==
    ASSUME HostTypeOK, HostTypeOK', NEW k \in Runs, Script(k), cron[k].pc # "off"
    PROVE  RunStepsLeft(cron'[k]) < RunStepsLeft(cron[k])
<1>0. cron[k] \in RunState /\ cron'[k] \in RunState
  BY DEF HostTypeOK
<1>1. ASSUME Forward(cron[k].pc, cron'[k].pc)
      PROVE  RunStepsLeft(cron'[k]) < RunStepsLeft(cron[k])
  BY <1>0, <1>1, ForwardCounts
<1>2. CASE CountParts(k) \/ LoadCreds(k) \/ CheckShadow(k) \/ CreateArchive(k)
           \/ CreateArchiveFail(k) \/ UploadArchive(k) \/ UploadArchiveFail(k) \/ DropsEnd(k)
  <2>1. ASSUME NEW p \in RunPCs, Move(k, p), Forward(cron[k].pc, p)
        PROVE  Forward(cron[k].pc, cron'[k].pc)
    BY <2>1, RunMoves
  <2>2. ASSUME Exit(k)
        PROVE  Forward(cron[k].pc, cron'[k].pc)
    BY <2>2, RunExits DEF Forward
  <2>3. \/ Exit(k)
        \/ \E p \in RunPCs : Move(k, p) /\ Forward(cron[k].pc, p)
    BY <1>2 DEF CountParts, LoadCreds, CheckShadow, CreateArchive, CreateArchiveFail,
       UploadArchive, UploadArchiveFail, DropsEnd, Forward, RunPCs
  <2> QED
    BY <1>1, <2>1, <2>2, <2>3
<1>3. CASE VerifyUpload(k)
  BY <1>1, <1>3, RunVerified DEF VerifyUpload, Forward
<1>4. CASE CleanArchive(k)
  <2>1. CASE cron[k].ok
    <3>1. Become(k, [cron[k] EXCEPT !.pc = "drop", !.drops = DROP_TABLES])
      BY <1>4, <2>1 DEF CleanArchive
    <3>2. cron'[k].pc = "drop"
      BY <3>1, RunDrops DEF RunPCs
    <3> QED
      BY <1>1, <1>4, <3>2 DEF CleanArchive, Forward
  <2>2. CASE ~cron[k].ok
    <3>1. Move(k, "status")
      BY <1>4, <2>2 DEF CleanArchive, Move
    <3>2. cron'[k].pc = "status"
      BY <3>1, RunMoves DEF RunPCs
    <3> QED
      BY <1>1, <1>4, <3>2 DEF CleanArchive, Forward
  <2> QED
    BY <2>1, <2>2
<1>5. ASSUME NEW t \in DROP_TABLES, DropPartition(k, t) \/ SkipPartition(k, t)
      PROVE  RunStepsLeft(cron'[k]) < RunStepsLeft(cron[k])
  <2>1. cron[k].pc = "drop" /\ t \in cron[k].drops
        /\ cron'[k] = [cron[k] EXCEPT !.drops = @ \ {t}]
    BY <1>5, BecomeFacts DEF DropPartition, SkipPartition
  <2> QED
    BY <1>0, <2>1, TableCounts
<1>6. CASE WriteStatus(k) \/ Kill(k)
  BY <1>1, <1>6, RunExits DEF WriteStatus, Kill, Forward
<1> QED
  BY <1>2, <1>3, <1>4, <1>5, <1>6 DEF Script, ReadConfig, ReadCache

LEMMA RunCounts ==
    ASSUME HostInv, HostInv', [HostNext]_<<vars, cronVars>>,
           NEW k \in Runs, cron[k].pc # "off", cron'[k] # cron[k]
    PROVE  RunStepsLeft(cron'[k]) < RunStepsLeft(cron[k])
<1>1. PICK j \in Runs : Script(j)
  BY DEF HostNext, Agent, cronVars
<1>2. j = k
  BY <1>1, ScriptGuarantees DEF ScriptGuarantee
<1> QED
  BY <1>1, <1>2, ScriptCounts DEF HostInv

(* Every run of the script ends: it has at most StepsPerRun steps to go    *)
(* once it has read its settings, whichever of its commands fail and       *)
(* whatever the agent and other runs do to ClickHouse and the local        *)
(* backups meanwhile.                                                      *)
THEOREM ScriptIsBounded ==
    HostSpec => /\ [](\A k \in Runs : RunStepsLeft(cron[k]) \in 0 .. StepsPerRun)
                /\ RunCountsDown
<1>1. HostInv => \A k \in Runs : RunStepsLeft(cron[k]) \in 0 .. StepsPerRun
  BY RunStepsRange DEF HostInv, HostTypeOK
<1>2. HostInv /\ HostInv' /\ [HostNext]_<<vars, cronVars>> =>
        [\A k \in Runs : (cron[k].pc # "off" /\ cron'[k] # cron[k]) =>
            RunStepsLeft(cron'[k]) < RunStepsLeft(cron[k])]_<<vars, cronVars>>
  BY RunCounts
<1> QED
  BY <1>1, <1>2, HostInvariance, PTL DEF HostSpec, RunCountsDown

-----------------------------------------------------------------------------
(* The cycles of the agent with the script beside them.                    *)

HostCycleInv == HostInv /\ CycleInv

LEMMA ScriptLeavesLoops ==
    ASSUME HostInv, NEW k \in Runs, Script(k)
    PROVE  UNCHANGED <<loop, stopCh, ingested>>
BY ScriptGuarantees DEF ScriptGuarantee, ctrlVars

(* A step of the host is one of the agent, or the loops rest in it.        *)
LEMMA HostSteps ==
    ASSUME HostInv, [HostNext]_<<vars, cronVars>>
    PROVE  Next \/ UNCHANGED <<loop, stopCh, ingested>>
BY ScriptLeavesLoops DEF HostNext, Agent, vars, ctrlVars

LEMMA HostCycleStep ==
    HostCycleInv /\ [HostNext]_<<vars, cronVars>> => HostCycleInv'
<1> SUFFICES ASSUME HostCycleInv, [HostNext]_<<vars, cronVars>> PROVE HostCycleInv'
  OBVIOUS
<1>1. HostInv' /\ IInv'
  BY HostStepInv DEF HostCycleInv, HostInv, HostTypeOK, IInv
<1>2. CASE Next
  BY <1>1, <1>2, CycleStepInv DEF HostCycleInv
<1>3. CASE UNCHANGED <<loop, stopCh, ingested>>
  BY <1>1, <1>3 DEF HostCycleInv, CycleInv, FreshLoops, TakesAtMost
<1> QED
  BY <1>2, <1>3, HostSteps DEF HostCycleInv

LEMMA HostCycleInvariance == HostSpec => []HostCycleInv
<1>1. HostInit => HostCycleInv
  BY HostInitInv, CycleInit DEF HostInit, HostCycleInv
<1> QED
  BY <1>1, HostCycleStep, PTL DEF HostSpec

(* Whatever the script does meanwhile to ClickHouse, to the names of local *)
(* backups and to the row, a cycle ends after at most StepsPerCycle steps. *)
THEOREM HostCycleIsBounded ==
    HostSpec => /\ [](\A l \in Loops : StepsLeft(loop[l]) \in 0 .. StepsPerCycle)
                /\ CycleCountsDown
<1>1. HostCycleInv => \A l \in Loops : StepsLeft(loop[l]) \in 0 .. StepsPerCycle
  BY CountedLoop, CountRange DEF HostCycleInv, CycleInv, IInv, TypeOK, LoopState
<1>2. HostCycleInv /\ HostCycleInv' /\ [HostNext]_<<vars, cronVars>> =>
        [\A l \in Loops : (loop[l].pc \in InCycle /\ loop'[l] # loop[l]) =>
                             StepsLeft(loop'[l]) < StepsLeft(loop[l])]_vars
  BY HostSteps, CountsDown DEF HostCycleInv
<1> QED
  BY <1>1, <1>2, HostCycleInvariance, PTL DEF HostSpec, CycleCountsDown

(* When the script writes "success", everything a collector ever wrote to  *)
(* its date is in the bucket.                                              *)
WrittenRowIsTrue ==
    [][\A k \in Runs :
         (WriteStatus(k) /\ lifecycle' # lifecycle /\ lifecycle'.status = "success") =>
             CellsOf(ingested, cron[k].part) \subseteq remote]_<<vars, cronVars>>

LEMMA RowWritten ==
    ASSUME HostInv, NEW k \in Runs,
           WriteStatus(k), lifecycle' # lifecycle, lifecycle'.status = "success"
    PROVE  CellsOf(ingested, cron[k].part) \subseteq remote
<1>1. lifecycle' = CronRow(cron[k].cfg, cron[k].ok) /\ cron[k].pc = "status"
  BY DEF WriteStatus
<1>2. cron[k].ok
  BY <1>1 DEF CronRow
<1> QED
  BY <1>1, <1>2 DEF HostInv, ScriptInv, ScriptSuccessArchived

(* Agent and script write the same row, and drop partitions of each        *)
(* other's.  A "success" of either is true when it is written.             *)
THEOREM HostStatusIsTrue == HostSpec => WrittenStatusIsTrue /\ WrittenRowIsTrue
<1>1. HostCycleInv =>
        [\A l \in Loops : UpdateStatus(l) =>
           /\ lifecycle'.status = "success" =>
                 /\ loop[l].target # {}
                 /\ \A d \in loop[l].target : CellsOf(ingested, d) \subseteq remote
           /\ lifecycle'.status = "failed" => loop[l].target \subseteq loop[l].bad]_vars
  BY StatusWritten DEF HostCycleInv
<1>2. HostCycleInv =>
        [\A k \in Runs :
           (WriteStatus(k) /\ lifecycle' # lifecycle /\ lifecycle'.status = "success") =>
               CellsOf(ingested, cron[k].part) \subseteq remote]_<<vars, cronVars>>
  BY RowWritten DEF HostCycleInv
<1> QED
  BY <1>1, <1>2, HostCycleInvariance, PTL DEF WrittenStatusIsTrue, WrittenRowIsTrue

(* The script drops telemetry but no metadata, so it makes no room in the  *)
(* cycles of the agent: with it beside them, too, no cycle takes a day     *)
(* that is crowded out.                                                    *)
THEOREM HostYoungerDaysWait == HostSpec => CrowdedNeverTaken
<1>1. HostCycleInv /\ [HostNext]_<<vars, cronVars>> =>
        [\A l \in Loops : \A d \in Days :
           (Crowded(d) /\ d \in loop'[l].target) => d \in loop[l].target]_vars
  BY HostSteps, CrowdedStep DEF HostCycleInv
<1> QED
  BY <1>1, HostCycleInvariance, PTL DEF HostSpec, CrowdedNeverTaken
=============================================================================
