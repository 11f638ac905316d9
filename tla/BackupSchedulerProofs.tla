----------------------- MODULE BackupSchedulerProofs -----------------------
(***************************************************************************)
(* The safety of the backup scheduler for any number of tables, days,      *)
(* loops and settings, and the proof that it implements ColdArchive.       *)
(***************************************************************************)
EXTENDS BackupScheduler, TLAPS

-----------------------------------------------------------------------------
(* Type correctness.  The record updates of the loops come first: the sets *)
(* the fields range over stay opaque in them.                              *)

LEMMA Zero == 0 \in Days /\ 0 \in 0 .. MaxStarts
BY BoundsAssumption DEF Days

LEMMA LoopType ==
    ASSUME loop \in [Loops -> LoopState], NEW l \in Loops, NEW r \in LoopState, Goto(l, r)
    PROVE  loop' \in [Loops -> LoopState]
BY DEF Goto

LEMMA DeadType == Dead \in LoopState
BY Zero DEF Dead, LoopState, PCs

LEMMA MoveType ==
    ASSUME NEW s \in LoopState, NEW p \in PCs
    PROVE  [s EXCEPT !.pc = p] \in LoopState
BY DEF LoopState

LEMMA EndCycleType ==
    ASSUME TypeOK, NEW l \in Loops, EndCycle(l)
    PROVE  loop' \in [Loops -> LoopState]
<1>1. loop[l] \in LoopState
  BY DEF TypeOK
<1>2. "select" \in PCs
  BY DEF PCs
<1>3. [loop[l] EXCEPT !.pc = "select", !.ch = 0, !.target = {}, !.todo = {},
                      !.bad = {}, !.part = 0, !.drops = {}] \in LoopState
  BY <1>1, <1>2, Zero DEF LoopState
<1> QED
  BY <1>3, LoopType DEF EndCycle, TypeOK

LEMMA PartitionDoneType ==
    ASSUME TypeOK, NEW l \in Loops, NEW d \in Days, NEW f \in BOOLEAN, PartitionDone(l, d, f)
    PROVE  loop' \in [Loops -> LoopState]
<1> DEFINE s == loop[l]
           next == IF s.todo \ {d} = {} THEN "status" ELSE "archive"
           bad  == IF f THEN s.bad \cup {d} ELSE s.bad
<1>1. s \in LoopState
  BY DEF TypeOK
<1>2. next \in PCs
  BY DEF PCs
<1>3. bad \in SUBSET Days /\ s.todo \ {d} \in SUBSET Days
  BY <1>1 DEF LoopState
<1>4. [s EXCEPT !.pc = next, !.todo = s.todo \ {d}, !.part = 0, !.drops = {},
                !.bad = bad] \in LoopState
  BY <1>1, <1>2, <1>3, Zero DEF LoopState
<1>5. Goto(l, [s EXCEPT !.pc = next, !.todo = s.todo \ {d}, !.part = 0, !.drops = {},
                        !.bad = bad])
  BY DEF PartitionDone
<1> QED
  BY <1>4, <1>5, LoopType DEF TypeOK

LEMMA PolledType == Polled \subseteq Config
BY DEF Polled

LEMMA LaunchType ==
    ASSUME TypeOK, NEW cfg \in Config, Launch(cfg)
    PROVE  TypeOK'
<1>1. stopCh + 1 \in Loops /\ stopCh' \in 0 .. MaxStarts
  BY BoundsAssumption DEF TypeOK, Launch, Loops
<1>2. "gate" \in PCs
  BY DEF PCs
<1>3. [Dead EXCEPT !.pc = "gate", !.cfg = cfg] \in LoopState
  BY <1>2, DeadType DEF LoopState
<1>4. loop' \in [Loops -> LoopState]
  BY <1>1, <1>3, LoopType DEF Launch, TypeOK
<1>5. frequency' \in Int
  BY FrequencyAssumption DEF Launch, Normalised, Config
<1> QED
  BY <1>1, <1>4, <1>5 DEF TypeOK, Launch, storeVars

LEMMA ControlType == TypeOK /\ Control => TypeOK'
<1> SUFFICES ASSUME TypeOK, Control PROVE TypeOK'
  OBVIOUS
<1>1. ASSUME NEW cfg \in Polled, Start(cfg)
      PROVE  TypeOK'
  BY <1>1, PolledType, LaunchType DEF Start
<1>2. ASSUME NEW cfg \in Polled, StartAgain(cfg)
      PROVE  TypeOK'
  <2>1. closed' \subseteq 0 .. MaxStarts /\ running' \in BOOLEAN
    BY <1>2 DEF StartAgain, StopRunning, TypeOK
  <2>2. pending' \subseteq Config
    BY <1>2, PolledType DEF StartAgain
  <2> QED
    BY <1>2, <2>1, <2>2 DEF StartAgain, TypeOK, storeVars
<1>3. CASE StartResume
  BY <1>3, LaunchType DEF StartResume, TypeOK
<1>4. CASE Stop
  BY <1>4 DEF Stop, StopRunning, TypeOK, storeVars
<1>5. CASE Cancel
  BY <1>5 DEF Cancel, TypeOK, storeVars
<1>6. CASE AgentRestart
  <2>1. loop' \in [Loops -> LoopState]
    BY <1>6, DeadType DEF AgentRestart
  <2>2. /\ UNCHANGED storeVars
        /\ cancelled' = FALSE /\ running' = FALSE /\ stopCh' = 0
        /\ closed' = {} /\ frequency' = 0 /\ pending' = {}
    BY <1>6 DEF AgentRestart
  <2>3. cancelled' \in BOOLEAN /\ running' \in BOOLEAN
    BY <2>2
  <2>4. stopCh' \in 0 .. MaxStarts /\ closed' \subseteq 0 .. MaxStarts
        /\ frequency' \in Int /\ pending' \subseteq Config
    BY <2>2, Zero
  <2> QED
    BY <2>1, <2>2, <2>3, <2>4 DEF TypeOK, storeVars
<1> QED
  BY <1>1, <1>2, <1>3, <1>4, <1>5, <1>6 DEF Control

LEMMA EnvironmentType == TypeOK /\ Environment => TypeOK'
<1> SUFFICES ASSUME TypeOK, Environment PROVE TypeOK'
  OBVIOUS
<1>1. ASSUME NEW t \in Tables, NEW d \in Days, Ingest(t, d) PROVE TypeOK'
  BY <1>1 DEF Ingest, Cells, TypeOK, ctrlVars
<1>2. CASE NextDay
  BY <1>2, BoundsAssumption DEF NextDay, Days, TypeOK, ctrlVars
<1>3. ASSUME NEW n \in Totals, NEW g \in {0, 1}, NEW f \in Frequencies, SaveSettings(n, g, f)
      PROVE  TypeOK'
  <2>1. lifecycle' \in Row
    BY <1>3 DEF SaveSettings, TypeOK, Row
  <2> QED
    BY <1>3, <2>1 DEF SaveSettings, TypeOK, ctrlVars
<1> QED
  BY <1>1, <1>2, <1>3 DEF Environment

(* A query finds some of the partitions to archive.                        *)
LEMMA QueryFinds ==
    ASSUME NEW l \in Loops, QueryPartitions(l) \/ QueryCut(l)
    PROVE  \E found \in SUBSET PartitionsToArchive(loop[l].cfg) : TakePartitions(l, found)
<1>1. CASE QueryPartitions(l)
  BY <1>1 DEF QueryPartitions
<1>2. CASE QueryCut(l)
  BY <1>2 DEF QueryCut
<1> QED
  BY <1>1, <1>2

(* The steps of runLoop and runBackup.                                     *)
LEMMA RunLoopType ==
    ASSUME TypeOK, LiveConfig, NEW l \in Loops, RunLoop(l)
    PROVE  TypeOK'
<1>0. loop \in [Loops -> LoopState] /\ loop[l] \in LoopState
  BY DEF TypeOK
<1>1. CASE UNCHANGED <<storeVars, ctrlVars>> /\ loop' \in [Loops -> LoopState]
  BY <1>1 DEF TypeOK, storeVars, ctrlVars
<1>2. CASE Gate(l)
  <2>1. (IF ShouldCatchUp(loop[l].cfg) THEN "query" ELSE "select") \in PCs
    BY DEF PCs
  <2> QED
    BY <1>0, <1>1, <1>2, <2>1, MoveType, LoopType DEF Gate
<1>3. CASE EnterSelect(l)
  <2>1. "wait" \in PCs /\ stopCh \in 0 .. MaxStarts
    BY DEF PCs, TypeOK
  <2>2. [loop[l] EXCEPT !.pc = "wait", !.ch = stopCh] \in LoopState
    BY <1>0, <2>1 DEF LoopState
  <2> QED
    BY <1>0, <1>1, <1>3, <2>2, LoopType DEF EnterSelect
<1>4. CASE SelectDone(l) \/ SelectStop(l)
  BY <1>0, <1>1, <1>4, DeadType, LoopType DEF SelectDone, SelectStop, Return
<1>5. CASE SelectTick(l)
  <2>1. "query" \in PCs
    BY DEF PCs
  <2> QED
    BY <1>0, <1>1, <1>5, <2>1, MoveType, LoopType DEF SelectTick
<1>6. CASE QueryFail(l) \/ UpdateStatusFail(l)
  BY <1>1, <1>6, EndCycleType DEF QueryFail, UpdateStatusFail
<1>7. ASSUME NEW found \in SUBSET PartitionsToArchive(loop[l].cfg), TakePartitions(l, found)
      PROVE  TypeOK'
  <2> DEFINE taken == Oldest(found, MaxPartitionsPerRun)
             next  == IF found = {} THEN "status" ELSE "archive"
  <2>1. taken \in SUBSET Days /\ next \in PCs
    BY DEF PartitionsToArchive, Oldest, PCs
  <2> HIDE DEF taken, next
  <2>2. [loop[l] EXCEPT !.pc = next, !.ch = 0, !.target = taken, !.todo = taken,
                        !.bad = {}] \in LoopState
    BY <1>0, <2>1, Zero DEF LoopState
  <2> QED
    BY <1>0, <1>1, <1>7, <2>2, LoopType DEF TakePartitions, taken, next
<1>8. ASSUME NEW d \in Days, CreateBackup(l, d)
      PROVE  TypeOK'
  <2>1. "upload" \in PCs
    BY DEF PCs
  <2>2. [loop[l] EXCEPT !.pc = "upload", !.part = d] \in LoopState
    BY <1>0, <2>1 DEF LoopState
  <2>3. loop' \in [Loops -> LoopState]
    BY <1>0, <1>8, <2>2, LoopType DEF CreateBackup
  <2> QED
    BY <1>8, <2>3 DEF CreateBackup, TypeOK, ctrlVars, CellsOf
<1>9. ASSUME NEW d \in Days, CreateFail(l, d)
      PROVE  TypeOK'
  <2>1. loop' \in [Loops -> LoopState]
    BY <1>9, PartitionDoneType DEF CreateFail
  <2> QED
    BY <1>9, <2>1 DEF CreateFail, TypeOK, ctrlVars
<1>10. CASE Upload(l)
  <2>1. "clean" \in PCs
    BY DEF PCs
  <2>2. loop' \in [Loops -> LoopState]
    BY <1>0, <1>10, <2>1, MoveType, LoopType DEF Upload
  <2> QED
    BY <1>10, <2>2 DEF Upload, Uploaded, CellsOf, TypeOK, ctrlVars
<1>11. CASE UploadFail(l)
  <2>1. "abort" \in PCs
    BY DEF PCs
  <2>2. loop' \in [Loops -> LoopState]
    BY <1>0, <1>11, <2>1, MoveType, LoopType DEF UploadFail
  <2>3. remote' \subseteq Cells
    BY <1>11 DEF UploadFail, Uploaded, CellsOf, TypeOK
  <2> QED
    BY <1>11, <2>2, <2>3 DEF UploadFail, TypeOK, ctrlVars
<1>12. loop[l].part \in Days
  BY <1>0 DEF LoopState
<1>13. CASE AbortUpload(l)
  <2>1. loop' \in [Loops -> LoopState]
    BY <1>12, <1>13, PartitionDoneType DEF AbortUpload
  <2> QED
    BY <1>13, <2>1 DEF AbortUpload, DeleteLocal, TypeOK, ctrlVars
<1>14. CASE CleanLocal(l)
  <2>1. "drop" \in PCs
    BY DEF PCs
  <2>2. [loop[l] EXCEPT !.pc = "drop", !.drops = DROP_TABLES] \in LoopState
    BY <1>0, <2>1 DEF LoopState
  <2>3. loop' \in [Loops -> LoopState]
    BY <1>0, <1>14, <2>2, LoopType DEF CleanLocal
  <2> QED
    BY <1>14, <2>3 DEF CleanLocal, DeleteLocal, TypeOK, ctrlVars
<1>15. ASSUME NEW t \in DROP_TABLES
       PROVE  [loop[l] EXCEPT !.drops = @ \ {t}] \in LoopState
  BY <1>0 DEF LoopState
<1>16. ASSUME NEW t \in DROP_TABLES, DropTable(l, t)
       PROVE  TypeOK'
  <2>1. loop' \in [Loops -> LoopState]
    BY <1>0, <1>15, <1>16, LoopType DEF DropTable
  <2> QED
    BY <1>16, <2>1 DEF DropTable, TypeOK, ctrlVars
<1>17. ASSUME NEW t \in DROP_TABLES, SkipTable(l, t)
       PROVE  TypeOK'
  BY <1>0, <1>1, <1>15, <1>17, LoopType DEF SkipTable
<1>18. CASE DropsDone(l)
  BY <1>1, <1>12, <1>18, PartitionDoneType DEF DropsDone
<1>19. CASE UpdateStatus(l)
  <2>1. loop' \in [Loops -> LoopState]
    BY <1>19, EndCycleType DEF UpdateStatus
  <2>2. loop[l].cfg \in Config /\ today \in Days
    BY <1>19 DEF UpdateStatus, LiveConfig, TypeOK
  <2>3. lifecycle' \in Row
    BY <1>19, <2>2 DEF UpdateStatus, StatusRow, Outcome, Config, Row, Statuses
  <2> QED
    BY <1>19, <2>1, <2>3 DEF UpdateStatus, TypeOK, ctrlVars
<1>20. CASE QueryPartitions(l) \/ QueryCut(l)
  BY <1>7, <1>20, QueryFinds
<1> QED
  BY <1>2, <1>3, <1>4, <1>5, <1>6, <1>8, <1>9, <1>10, <1>11, <1>13, <1>14,
     <1>16, <1>17, <1>18, <1>19, <1>20 DEF RunLoop, Cycle

-----------------------------------------------------------------------------
(* The inductive invariant.                                                *)

LEMMA GotoFacts ==
    ASSUME TypeOK, NEW l \in Loops, NEW r, Goto(l, r)
    PROVE  /\ loop'[l] = r
           /\ \A m \in Loops : m # l => loop'[m] = loop[m]
BY DEF Goto, TypeOK

LEMMA EndCycleFields ==
    ASSUME NEW s \in LoopState
    PROVE  LET r == [s EXCEPT !.pc = "select", !.ch = 0, !.target = {}, !.todo = {},
                              !.bad = {}, !.part = 0, !.drops = {}]
           IN  r.pc = "select" /\ r.cfg = s.cfg /\ r.target = {} /\ r.todo = {} /\ r.bad = {}
BY DEF LoopState

LEMMA PartitionDoneFields ==
    ASSUME NEW s \in LoopState, NEW p, NEW left, NEW bad
    PROVE  LET r == [s EXCEPT !.pc = p, !.todo = left, !.part = 0, !.drops = {}, !.bad = bad]
           IN  r.pc = p /\ r.cfg = s.cfg /\ r.target = s.target /\ r.todo = left /\ r.bad = bad
BY DEF LoopState

LEMMA EndCycleFacts ==
    ASSUME TypeOK, NEW l \in Loops, EndCycle(l)
    PROVE  /\ loop'[l].pc = "select" /\ loop'[l].cfg = loop[l].cfg
           /\ loop'[l].target = {} /\ loop'[l].todo = {} /\ loop'[l].bad = {}
           /\ \A m \in Loops : m # l => loop'[m] = loop[m]
<1>1. loop[l] \in LoopState
  BY DEF TypeOK
<1> QED
  BY <1>1, GotoFacts, EndCycleFields DEF EndCycle

LEMMA PartitionDoneFacts ==
    ASSUME TypeOK, NEW l \in Loops, NEW d \in Days, NEW f \in BOOLEAN, PartitionDone(l, d, f)
    PROVE  /\ loop'[l].pc \in {"status", "archive"} /\ loop'[l].cfg = loop[l].cfg
           /\ loop'[l].target = loop[l].target
           /\ loop'[l].todo = loop[l].todo \ {d}
           /\ loop'[l].bad = IF f THEN loop[l].bad \cup {d} ELSE loop[l].bad
           /\ \A m \in Loops : m # l => loop'[m] = loop[m]
<1>1. loop[l] \in LoopState
  BY DEF TypeOK
<1> DEFINE p    == IF loop[l].todo \ {d} = {} THEN "status" ELSE "archive"
           left == loop[l].todo \ {d}
           bad  == IF f THEN loop[l].bad \cup {d} ELSE loop[l].bad
           r    == [loop[l] EXCEPT !.pc = p, !.todo = left, !.part = 0, !.drops = {},
                                   !.bad = bad]
<1>2. Goto(l, r)
  BY DEF PartitionDone
<1>3. loop'[l] = r /\ \A m \in Loops : m # l => loop'[m] = loop[m]
  BY <1>2, GotoFacts
<1>4. r.pc = p /\ r.cfg = loop[l].cfg /\ r.target = loop[l].target /\ r.todo = left
      /\ r.bad = bad
  BY <1>1, PartitionDoneFields
<1> HIDE DEF r
<1> QED
  BY <1>3, <1>4

(* A step of loop l that leaves the data alone and ends or is outside of   *)
(* the work on a partition.                                                *)
LEMMA QuietStep ==
    ASSUME IInv, NEW l \in Loops,
           UNCHANGED <<today, rows, ingested, localNames, localCells, remote>>,
           loop'[l].pc \notin OnPartition,
           loop'[l].pc = "dead" \/ loop'[l].cfg \in Config,
           \/ loop'[l].target = {} /\ loop'[l].todo = {}
           \/ /\ loop'[l].target = loop[l].target
              /\ loop'[l].todo = loop[l].todo
              /\ loop'[l].bad = loop[l].bad,
           \A m \in Loops : m # l => loop'[m] = loop[m]
    PROVE  ArchiveInv'
<1>1. LiveConfig'
  BY DEF IInv, ArchiveInv, LiveConfig
<1>2. OnlyIngested' /\ NoDataLoss' /\ BackupOnlyKept'
  BY DEF IInv, ArchiveInv, OnlyIngested, NoDataLoss, BackupOnlyKept
<1>3. CyclePlan'
  BY DEF IInv, ArchiveInv, CyclePlan, OnPartition
<1>4. TargetsClosed'
  BY DEF IInv, ArchiveInv, TargetsClosed
<1>5. OneOwnerPerBackup'
  BY DEF IInv, ArchiveInv, OneOwnerPerBackup, OnPartition
<1>6. SnapshotComplete'
  BY DEF IInv, ArchiveInv, SnapshotComplete, OnPartition, HoldsBackup, CellsOf
<1>7. SuccessMeansArchived'
  BY DEF IInv, ArchiveInv, SuccessMeansArchived, CellsOf
<1> QED
  BY <1>1, <1>2, <1>3, <1>4, <1>5, <1>6, <1>7 DEF ArchiveInv

(* Steps that change neither a loop nor the data.                          *)
LEMMA IdleStep ==
    ASSUME IInv, UNCHANGED <<today, rows, ingested, localNames, localCells, remote, loop>>
    PROVE  ArchiveInv'
BY DEF IInv, ArchiveInv, LiveConfig, OnlyIngested, NoDataLoss, BackupOnlyKept, CyclePlan,
       TargetsClosed, OneOwnerPerBackup, SnapshotComplete, SuccessMeansArchived, CellsOf

LEMMA ControlInv == IInv /\ Control => ArchiveInv'
<1> SUFFICES ASSUME IInv, Control PROVE ArchiveInv'
  OBVIOUS
<1>0. TypeOK
  BY DEF IInv
<1>1. ASSUME NEW cfg \in Config, Launch(cfg)
      PROVE  ArchiveInv'
  <2> DEFINE l == stopCh + 1
             r == [Dead EXCEPT !.pc = "gate", !.cfg = cfg]
  <2>1. l \in Loops
    BY <1>0, <1>1, BoundsAssumption DEF TypeOK, Launch, Loops
  <2>2. loop'[l] = r /\ \A m \in Loops : m # l => loop'[m] = loop[m]
    BY <1>0, <1>1, <2>1, GotoFacts DEF Launch
  <2>3. r.pc = "gate" /\ r.cfg = cfg /\ r.target = {} /\ r.todo = {}
    BY DEF Dead
  <2> HIDE DEF l, r
  <2> QED
    BY <1>1, <2>1, <2>2, <2>3, QuietStep DEF Launch, storeVars, OnPartition, HoldsBackup
<1>2. ASSUME NEW cfg \in Polled, Start(cfg)
      PROVE  ArchiveInv'
  BY <1>0, <1>1, <1>2, PolledType DEF Start
<1>3. CASE StartResume
  BY <1>0, <1>1, <1>3 DEF StartResume, TypeOK
<1>4. CASE (\E cfg \in Polled : StartAgain(cfg)) \/ Stop \/ Cancel
  BY <1>4, IdleStep DEF StartAgain, Stop, Cancel, storeVars
<1>5. CASE AgentRestart
  <2>1. \A l \in Loops : /\ loop'[l].pc = "dead" /\ loop'[l].target = {}
                         /\ loop'[l].todo = {}
    BY <1>5 DEF AgentRestart, Dead
  <2>2. UNCHANGED <<today, rows, ingested, localNames, localCells, remote>>
    BY <1>5 DEF AgentRestart, storeVars
  <2> QED
    BY <2>1, <2>2 DEF IInv, ArchiveInv, LiveConfig, OnlyIngested, NoDataLoss,
       BackupOnlyKept, CyclePlan, TargetsClosed, OneOwnerPerBackup, SnapshotComplete,
       SuccessMeansArchived, OnPartition, HoldsBackup
<1> QED
  BY <1>2, <1>3, <1>4, <1>5 DEF Control

LEMMA EnvironmentInv == IInv /\ Environment => ArchiveInv'
<1> SUFFICES ASSUME IInv, Environment PROVE ArchiveInv'
  OBVIOUS
<1>1. ASSUME NEW t \in Tables, NEW d \in Days, Ingest(t, d)
      PROVE  ArchiveInv'
  <2>1. d \in Int /\ today \in Int /\ LateDays \in Int
    BY LatenessAssumption, BoundsAssumption DEF IInv, TypeOK, Days
  <2>2. \A l \in Loops : d \notin loop[l].target
    BY <1>1, <2>1 DEF Ingest, IInv, ArchiveInv, TargetsClosed
  <2>3. \A l \in Loops : loop[l].pc \in OnPartition => loop[l].part # d
    BY <2>2 DEF IInv, ArchiveInv, CyclePlan
  <2>4. \A e : e # d => /\ CellsOf(rows', e) = CellsOf(rows, e)
                        /\ CellsOf(ingested', e) = CellsOf(ingested, e)
    BY <1>1 DEF Ingest, CellsOf
  <2>5. OnlyIngested' /\ NoDataLoss' /\ BackupOnlyKept'
    BY <1>1 DEF Ingest, IInv, ArchiveInv, OnlyIngested, NoDataLoss, BackupOnlyKept
  <2>6. LiveConfig' /\ CyclePlan' /\ TargetsClosed' /\ OneOwnerPerBackup'
    BY <1>1 DEF Ingest, IInv, ArchiveInv, LiveConfig, CyclePlan, TargetsClosed,
       OneOwnerPerBackup
  <2>7. SnapshotComplete'
    BY <1>1, <2>3, <2>4 DEF Ingest, IInv, ArchiveInv, SnapshotComplete, OnPartition,
       HoldsBackup
  <2>8. SuccessMeansArchived'
    BY <1>1, <2>2, <2>4 DEF Ingest, IInv, ArchiveInv, SuccessMeansArchived
  <2> QED
    BY <2>5, <2>6, <2>7, <2>8 DEF ArchiveInv
<1>2. CASE NextDay
  <2>1. today \in Int /\ LateDays \in Int /\ today' = today + 1
    BY <1>2, LatenessAssumption DEF NextDay, IInv, TypeOK, Days
  <2>2. \A l \in Loops : \A d \in loop[l].target : d \in Int
    BY DEF IInv, TypeOK, LoopState, Days
  <2>3. TargetsClosed'
    BY <1>2, <2>1, <2>2 DEF NextDay, IInv, ArchiveInv, TargetsClosed
  <2> QED
    BY <1>2, <2>3 DEF NextDay, IInv, ArchiveInv, LiveConfig, OnlyIngested, NoDataLoss,
       BackupOnlyKept, CyclePlan, OneOwnerPerBackup, SnapshotComplete,
       SuccessMeansArchived, CellsOf
<1>3. ASSUME NEW n \in Totals, NEW g \in {0, 1}, NEW f \in Frequencies, SaveSettings(n, g, f)
      PROVE  ArchiveInv'
  BY <1>3, IdleStep DEF SaveSettings
<1> QED
  BY <1>1, <1>2, <1>3 DEF Environment

LEMMA MoveFacts ==
    ASSUME TypeOK, NEW l \in Loops, NEW p,
           Goto(l, [loop[l] EXCEPT !.pc = p])
    PROVE  /\ loop'[l].pc = p /\ loop'[l].cfg = loop[l].cfg
           /\ loop'[l].target = loop[l].target /\ loop'[l].todo = loop[l].todo
           /\ loop'[l].bad = loop[l].bad /\ loop'[l].part = loop[l].part
           /\ \A m \in Loops : m # l => loop'[m] = loop[m]
<1>1. ASSUME NEW s \in LoopState
      PROVE  LET r == [s EXCEPT !.pc = p]
             IN  /\ r.pc = p /\ r.cfg = s.cfg /\ r.target = s.target
                 /\ r.todo = s.todo /\ r.bad = s.bad /\ r.part = s.part
  BY DEF LoopState
<1>2. loop[l] \in LoopState
  BY DEF TypeOK
<1> DEFINE r == [loop[l] EXCEPT !.pc = p]
<1>3. /\ r.pc = p /\ r.cfg = loop[l].cfg /\ r.target = loop[l].target
      /\ r.todo = loop[l].todo /\ r.bad = loop[l].bad
      /\ r.part = loop[l].part
  BY <1>1, <1>2
<1>4. loop'[l] = r /\ \A m \in Loops : m # l => loop'[m] = loop[m]
  BY GotoFacts
<1> HIDE DEF r
<1> QED
  BY <1>3, <1>4

LEMMA CreateFacts ==
    ASSUME TypeOK, NEW l \in Loops, NEW d,
           Goto(l, [loop[l] EXCEPT !.pc = "upload", !.part = d])
    PROVE  /\ loop'[l].pc = "upload" /\ loop'[l].cfg = loop[l].cfg
           /\ loop'[l].target = loop[l].target /\ loop'[l].todo = loop[l].todo
           /\ loop'[l].bad = loop[l].bad /\ loop'[l].part = d
           /\ \A m \in Loops : m # l => loop'[m] = loop[m]
<1>1. ASSUME NEW s \in LoopState
      PROVE  LET r == [s EXCEPT !.pc = "upload", !.part = d]
             IN  /\ r.pc = "upload" /\ r.cfg = s.cfg /\ r.target = s.target
                 /\ r.todo = s.todo /\ r.bad = s.bad /\ r.part = d
  BY DEF LoopState
<1>2. loop[l] \in LoopState
  BY DEF TypeOK
<1> DEFINE r == [loop[l] EXCEPT !.pc = "upload", !.part = d]
<1>3. /\ r.pc = "upload" /\ r.cfg = loop[l].cfg
      /\ r.target = loop[l].target /\ r.todo = loop[l].todo
      /\ r.bad = loop[l].bad /\ r.part = d
  BY <1>1, <1>2
<1>4. loop'[l] = r /\ \A m \in Loops : m # l => loop'[m] = loop[m]
  BY GotoFacts
<1> HIDE DEF r
<1> QED
  BY <1>3, <1>4

LEMMA CleanFacts ==
    ASSUME TypeOK, NEW l \in Loops, NEW T,
           Goto(l, [loop[l] EXCEPT !.pc = "drop", !.drops = T])
    PROVE  /\ loop'[l].pc = "drop" /\ loop'[l].cfg = loop[l].cfg
           /\ loop'[l].target = loop[l].target /\ loop'[l].todo = loop[l].todo
           /\ loop'[l].bad = loop[l].bad /\ loop'[l].part = loop[l].part
           /\ \A m \in Loops : m # l => loop'[m] = loop[m]
<1>1. ASSUME NEW s \in LoopState
      PROVE  LET r == [s EXCEPT !.pc = "drop", !.drops = T]
             IN  /\ r.pc = "drop" /\ r.cfg = s.cfg /\ r.target = s.target
                 /\ r.todo = s.todo /\ r.bad = s.bad /\ r.part = s.part
  BY DEF LoopState
<1>2. loop[l] \in LoopState
  BY DEF TypeOK
<1> DEFINE r == [loop[l] EXCEPT !.pc = "drop", !.drops = T]
<1>3. /\ r.pc = "drop" /\ r.cfg = loop[l].cfg /\ r.target = loop[l].target
      /\ r.todo = loop[l].todo /\ r.bad = loop[l].bad
      /\ r.part = loop[l].part
  BY <1>1, <1>2
<1>4. loop'[l] = r /\ \A m \in Loops : m # l => loop'[m] = loop[m]
  BY GotoFacts
<1> HIDE DEF r
<1> QED
  BY <1>3, <1>4

LEMMA TableFacts ==
    ASSUME TypeOK, NEW l \in Loops, NEW T,
           Goto(l, [loop[l] EXCEPT !.drops = T])
    PROVE  /\ loop'[l].pc = loop[l].pc /\ loop'[l].cfg = loop[l].cfg
           /\ loop'[l].target = loop[l].target /\ loop'[l].todo = loop[l].todo
           /\ loop'[l].bad = loop[l].bad /\ loop'[l].part = loop[l].part
           /\ \A m \in Loops : m # l => loop'[m] = loop[m]
<1>1. ASSUME NEW s \in LoopState
      PROVE  LET r == [s EXCEPT !.drops = T]
             IN  /\ r.pc = s.pc /\ r.cfg = s.cfg /\ r.target = s.target
                 /\ r.todo = s.todo /\ r.bad = s.bad /\ r.part = s.part
  BY DEF LoopState
<1>2. loop[l] \in LoopState
  BY DEF TypeOK
<1> DEFINE r == [loop[l] EXCEPT !.drops = T]
<1>3. /\ r.pc = loop[l].pc /\ r.cfg = loop[l].cfg
      /\ r.target = loop[l].target /\ r.todo = loop[l].todo
      /\ r.bad = loop[l].bad /\ r.part = loop[l].part
  BY <1>1, <1>2
<1>4. loop'[l] = r /\ \A m \in Loops : m # l => loop'[m] = loop[m]
  BY GotoFacts
<1> HIDE DEF r
<1> QED
  BY <1>3, <1>4

LEMMA SelectFacts ==
    ASSUME TypeOK, NEW l \in Loops, NEW c,
           Goto(l, [loop[l] EXCEPT !.pc = "wait", !.ch = c])
    PROVE  /\ loop'[l].pc = "wait" /\ loop'[l].cfg = loop[l].cfg
           /\ loop'[l].target = loop[l].target /\ loop'[l].todo = loop[l].todo
           /\ loop'[l].bad = loop[l].bad
           /\ \A m \in Loops : m # l => loop'[m] = loop[m]
<1>1. ASSUME NEW s \in LoopState
      PROVE  LET r == [s EXCEPT !.pc = "wait", !.ch = c]
             IN  /\ r.pc = "wait" /\ r.cfg = s.cfg /\ r.target = s.target
                 /\ r.todo = s.todo /\ r.bad = s.bad
  BY DEF LoopState
<1>2. loop[l] \in LoopState
  BY DEF TypeOK
<1> DEFINE r == [loop[l] EXCEPT !.pc = "wait", !.ch = c]
<1>3. /\ r.pc = "wait" /\ r.cfg = loop[l].cfg /\ r.target = loop[l].target
      /\ r.todo = loop[l].todo /\ r.bad = loop[l].bad
  BY <1>1, <1>2
<1>4. loop'[l] = r /\ \A m \in Loops : m # l => loop'[m] = loop[m]
  BY GotoFacts
<1> HIDE DEF r
<1> QED
  BY <1>3, <1>4

LEMMA QueryFacts ==
    ASSUME TypeOK, NEW l \in Loops, NEW p, NEW T,
           Goto(l, [loop[l] EXCEPT !.pc = p, !.ch = 0, !.target = T, !.todo = T, !.bad = {}])
    PROVE  /\ loop'[l].pc = p /\ loop'[l].cfg = loop[l].cfg
           /\ loop'[l].target = T /\ loop'[l].todo = T /\ loop'[l].bad = {}
           /\ \A m \in Loops : m # l => loop'[m] = loop[m]
<1>1. ASSUME NEW s \in LoopState
      PROVE  LET r == [s EXCEPT !.pc = p, !.ch = 0, !.target = T, !.todo = T, !.bad = {}]
             IN  /\ r.pc = p /\ r.cfg = s.cfg /\ r.target = T /\ r.todo = T
                 /\ r.bad = {}
  BY DEF LoopState
<1>2. loop[l] \in LoopState
  BY DEF TypeOK
<1> DEFINE r == [loop[l] EXCEPT !.pc = p, !.ch = 0, !.target = T, !.todo = T, !.bad = {}]
<1>3. /\ r.pc = p /\ r.cfg = loop[l].cfg /\ r.target = T /\ r.todo = T
      /\ r.bad = {}
  BY <1>1, <1>2
<1>4. loop'[l] = r /\ \A m \in Loops : m # l => loop'[m] = loop[m]
  BY GotoFacts
<1> HIDE DEF r
<1> QED
  BY <1>3, <1>4

(* The steps outside the work on one partition.                            *)
LEMMA ScheduleInv ==
    ASSUME IInv, NEW l \in Loops,
           \/ Gate(l) \/ EnterSelect(l) \/ SelectDone(l) \/ SelectStop(l) \/ SelectTick(l)
           \/ QueryFail(l) \/ UpdateStatus(l) \/ UpdateStatusFail(l)
    PROVE  ArchiveInv'
<1>0. TypeOK /\ loop[l] \in LoopState
  BY DEF IInv, TypeOK
<1>1. UNCHANGED <<today, rows, ingested, localNames, localCells, remote>>
  BY DEF Gate, EnterSelect, SelectDone, SelectStop, SelectTick, QueryFail, UpdateStatus,
     UpdateStatusFail, storeVars
<1>2. loop[l].pc # "dead" /\ loop[l].cfg \in Config
  BY DEF Gate, EnterSelect, SelectDone, SelectStop, SelectTick, QueryFail, UpdateStatus,
     UpdateStatusFail, IInv, ArchiveInv, LiveConfig
<1>3. CASE Gate(l)
  <2> DEFINE p == IF ShouldCatchUp(loop[l].cfg) THEN "query" ELSE "select"
  <2>1. p \notin OnPartition
    BY DEF OnPartition, HoldsBackup
  <2>2. Goto(l, [loop[l] EXCEPT !.pc = p])
    BY <1>3 DEF Gate
  <2> HIDE DEF p
  <2> QED
    BY <1>0, <1>1, <1>2, <2>1, <2>2, MoveFacts, QuietStep
<1>4. CASE EnterSelect(l)
  <2>1. Goto(l, [loop[l] EXCEPT !.pc = "wait", !.ch = stopCh])
    BY <1>4 DEF EnterSelect
  <2> QED
    BY <1>0, <1>1, <1>2, <2>1, SelectFacts, QuietStep DEF OnPartition, HoldsBackup
<1>5. CASE SelectDone(l) \/ SelectStop(l)
  <2>1. /\ Dead.pc = "dead" /\ Dead.target = {} /\ Dead.todo = {}
        /\ Dead.pc \notin OnPartition
    BY DEF Dead, OnPartition, HoldsBackup
  <2>2. Goto(l, Dead)
    BY <1>5 DEF SelectDone, SelectStop, Return
  <2> QED
    BY <1>0, <1>1, <2>1, <2>2, GotoFacts, QuietStep
<1>6. CASE SelectTick(l)
  <2>1. Goto(l, [loop[l] EXCEPT !.pc = "query"])
    BY <1>6 DEF SelectTick
  <2> QED
    BY <1>0, <1>1, <1>2, <2>1, MoveFacts, QuietStep DEF OnPartition, HoldsBackup
<1>7. CASE EndCycle(l)
  BY <1>0, <1>1, <1>2, <1>7, EndCycleFacts, QuietStep DEF OnPartition, HoldsBackup
<1> QED
  BY <1>3, <1>4, <1>5, <1>6, <1>7 DEF QueryFail, UpdateStatus, UpdateStatusFail

LEMMA QueryInv ==
    ASSUME IInv, NEW l \in Loops,
           NEW found \in SUBSET PartitionsToArchive(loop[l].cfg), TakePartitions(l, found)
    PROVE  ArchiveInv'
<1> DEFINE taken == Oldest(found, MaxPartitionsPerRun)
           next  == IF found = {} THEN "status" ELSE "archive"
<1>0. TypeOK /\ loop[l] \in LoopState
  BY DEF IInv, TypeOK
<1>1. loop[l].cfg \in Config
  BY DEF TakePartitions, IInv, ArchiveInv, LiveConfig
<1>2. \A d \in taken : d < today - LateDays
  <2>1. today \in Int /\ LateDays \in Int /\ loop[l].cfg.total \in Int
        /\ LateDays < loop[l].cfg.total
    <3>1. today \in Days
      BY <1>0 DEF TypeOK
    <3>2. loop[l].cfg.total \in Totals
      BY <1>1 DEF Config
    <3>3. today \in Int
      BY <3>1 DEF Days
    <3>4. LateDays \in Int /\ loop[l].cfg.total \in Int /\ LateDays < loop[l].cfg.total
      <4>1. \A n \in Totals : n \in Int /\ LateDays \in Int /\ LateDays < n
        BY LatenessAssumption
      <4> QED
        BY <3>2, <4>1, Zenon
    <3> QED
      BY <3>3, <3>4
  <2>2. \A d \in taken : d \in Int /\ d <= today - loop[l].cfg.total
    BY DEF Oldest, PartitionsToArchive, Cutoff, Days
  <2> HIDE DEF taken
  <2> QED
    BY <2>1, <2>2
<1>3. next \notin OnPartition
  BY DEF OnPartition, HoldsBackup
<1> HIDE DEF taken, next
<1>4. Goto(l, [loop[l] EXCEPT !.pc = next, !.ch = 0, !.target = taken, !.todo = taken,
                              !.bad = {}])
  BY DEF TakePartitions, taken, next
<1>5. /\ loop'[l].pc = next /\ loop'[l].cfg = loop[l].cfg
      /\ loop'[l].target = taken /\ loop'[l].todo = taken
      /\ \A m \in Loops : m # l => loop'[m] = loop[m]
  BY <1>0, <1>4, QueryFacts
<1>6. UNCHANGED <<today, rows, ingested, localNames, localCells, remote>>
  BY DEF TakePartitions, storeVars
<1>7. LiveConfig' /\ OnlyIngested' /\ NoDataLoss' /\ BackupOnlyKept'
  BY <1>1, <1>5, <1>6 DEF IInv, ArchiveInv, LiveConfig, OnlyIngested, NoDataLoss,
     BackupOnlyKept
<1>8. CyclePlan' /\ OneOwnerPerBackup'
  BY <1>3, <1>5, <1>6 DEF IInv, ArchiveInv, CyclePlan, OneOwnerPerBackup, OnPartition
<1>9. TargetsClosed'
  BY <1>2, <1>5, <1>6 DEF IInv, ArchiveInv, TargetsClosed
<1>10. SnapshotComplete'
  BY <1>3, <1>5, <1>6 DEF IInv, ArchiveInv, SnapshotComplete, OnPartition, HoldsBackup,
     CellsOf
<1>11. SuccessMeansArchived'
  BY <1>5, <1>6 DEF IInv, ArchiveInv, SuccessMeansArchived, CellsOf
<1> QED
  BY <1>7, <1>8, <1>9, <1>10, <1>11 DEF ArchiveInv

(* archivePartition: create.                                               *)
LEMMA CreateInv ==
    ASSUME IInv, NEW l \in Loops, NEW d \in Days, CreateBackup(l, d)
    PROVE  ArchiveInv'
<1>0. TypeOK
  BY DEF IInv
<1>1. /\ loop'[l].pc = "upload" /\ loop'[l].cfg = loop[l].cfg
      /\ loop'[l].target = loop[l].target /\ loop'[l].todo = loop[l].todo
      /\ loop'[l].bad = loop[l].bad /\ loop'[l].part = d
      /\ \A m \in Loops : m # l => loop'[m] = loop[m]
  BY <1>0, CreateFacts DEF CreateBackup
<1>2. /\ loop[l].pc = "archive" /\ d \in loop[l].todo /\ d \notin localNames
      /\ UNCHANGED <<today, rows, ingested, remote>>
      /\ localNames' = localNames \cup {d}
      /\ localCells' = localCells \cup CellsOf(rows, d)
  BY DEF CreateBackup, IsNext
<1>3. \A m \in Loops : loop[m].pc \in HoldsBackup => loop[m].part # d
  BY <1>2 DEF IInv, ArchiveInv, CyclePlan
<1>4. LiveConfig' /\ NoDataLoss' /\ BackupOnlyKept'
  BY <1>1, <1>2 DEF IInv, ArchiveInv, LiveConfig, NoDataLoss, BackupOnlyKept
<1>5. OnlyIngested'
  BY <1>2 DEF IInv, ArchiveInv, OnlyIngested, CellsOf
<1>6. CyclePlan'
  BY <1>1, <1>2 DEF IInv, ArchiveInv, CyclePlan
<1>7. TargetsClosed'
  BY <1>1, <1>2 DEF IInv, ArchiveInv, TargetsClosed
<1>8. OneOwnerPerBackup'
  BY <1>1, <1>3 DEF IInv, ArchiveInv, OneOwnerPerBackup
<1>9. SnapshotComplete'
  BY <1>1, <1>2 DEF IInv, ArchiveInv, SnapshotComplete, CellsOf
<1>10. SuccessMeansArchived'
  BY <1>1, <1>2 DEF IInv, ArchiveInv, SuccessMeansArchived, CellsOf
<1> QED
  BY <1>4, <1>5, <1>6, <1>7, <1>8, <1>9, <1>10 DEF ArchiveInv

LEMMA CreateFailInv ==
    ASSUME IInv, NEW l \in Loops, NEW d \in Days, CreateFail(l, d)
    PROVE  ArchiveInv'
<1>0. TypeOK
  BY DEF IInv
<1>1. /\ loop'[l].pc \in {"status", "archive"} /\ loop'[l].cfg = loop[l].cfg
      /\ loop'[l].target = loop[l].target /\ loop'[l].todo = loop[l].todo \ {d}
      /\ loop'[l].bad = loop[l].bad \cup {d}
      /\ \A m \in Loops : m # l => loop'[m] = loop[m]
  BY <1>0, PartitionDoneFacts DEF CreateFail
<1>2. /\ loop[l].pc = "archive"
      /\ UNCHANGED <<today, rows, ingested, localCells, remote>>
      /\ localNames \subseteq localNames'
  BY DEF CreateFail
<1>3. LiveConfig' /\ NoDataLoss' /\ BackupOnlyKept' /\ OnlyIngested'
  BY <1>1, <1>2 DEF IInv, ArchiveInv, LiveConfig, NoDataLoss, BackupOnlyKept, OnlyIngested
<1>4. CyclePlan'
  BY <1>1, <1>2 DEF IInv, ArchiveInv, CyclePlan, OnPartition, HoldsBackup
<1>5. TargetsClosed'
  BY <1>1, <1>2 DEF IInv, ArchiveInv, TargetsClosed
<1>6. OneOwnerPerBackup'
  BY <1>1 DEF IInv, ArchiveInv, OneOwnerPerBackup, HoldsBackup
<1>7. SnapshotComplete'
  BY <1>1, <1>2 DEF IInv, ArchiveInv, SnapshotComplete, CellsOf
<1>8. SuccessMeansArchived'
  BY <1>1, <1>2 DEF IInv, ArchiveInv, SuccessMeansArchived, CellsOf
<1> QED
  BY <1>3, <1>4, <1>5, <1>6, <1>7, <1>8 DEF ArchiveInv

(* archivePartition: upload, whether the command reports success or not.   *)
LEMMA UploadInv ==
    ASSUME IInv, NEW l \in Loops, Upload(l) \/ UploadFail(l)
    PROVE  ArchiveInv'
<1>0. TypeOK
  BY DEF IInv
<1>1. /\ loop[l].pc = "upload"
      /\ loop'[l].pc \in {"clean", "abort"} /\ loop'[l].cfg = loop[l].cfg
      /\ loop'[l].target = loop[l].target /\ loop'[l].todo = loop[l].todo
      /\ loop'[l].bad = loop[l].bad /\ loop'[l].part = loop[l].part
      /\ \A m \in Loops : m # l => loop'[m] = loop[m]
  BY <1>0, MoveFacts DEF Upload, UploadFail
<1>2. /\ UNCHANGED <<today, rows, ingested, localNames, localCells>>
      /\ remote \subseteq remote' /\ remote' \subseteq remote \cup localCells
  BY DEF Upload, UploadFail, Uploaded, CellsOf
<1>3. loop'[l].pc = "clean" => CellsOf(localCells, loop[l].part) \subseteq remote'
  BY <1>0, MoveFacts DEF Upload, UploadFail, Uploaded
<1>4. LiveConfig' /\ NoDataLoss' /\ BackupOnlyKept' /\ OnlyIngested'
  BY <1>1, <1>2 DEF IInv, ArchiveInv, LiveConfig, NoDataLoss, BackupOnlyKept, OnlyIngested
<1>5. CyclePlan'
  BY <1>1, <1>2 DEF IInv, ArchiveInv, CyclePlan, OnPartition, HoldsBackup
<1>6. TargetsClosed'
  BY <1>1, <1>2 DEF IInv, ArchiveInv, TargetsClosed
<1>7. OneOwnerPerBackup'
  BY <1>1 DEF IInv, ArchiveInv, OneOwnerPerBackup, HoldsBackup
<1>8. CellsOf(rows, loop[l].part) \subseteq CellsOf(localCells, loop[l].part)
  BY <1>1 DEF IInv, ArchiveInv, SnapshotComplete, CellsOf
<1>9. SnapshotComplete'
  BY <1>1, <1>2, <1>3, <1>8 DEF IInv, ArchiveInv, SnapshotComplete, CellsOf
<1>10. SuccessMeansArchived'
  BY <1>1, <1>2 DEF IInv, ArchiveInv, SuccessMeansArchived, CellsOf
<1> QED
  BY <1>4, <1>5, <1>6, <1>7, <1>9, <1>10 DEF ArchiveInv

(* archivePartition: delete local.  Only the loop that made the local      *)
(* backup deletes it.                                                      *)
LEMMA DeleteInv ==
    ASSUME IInv, NEW l \in Loops, AbortUpload(l) \/ CleanLocal(l)
    PROVE  ArchiveInv'
<1> DEFINE d == loop[l].part
<1>0. TypeOK /\ d \in Days
  BY DEF IInv, TypeOK, LoopState
<1>1. /\ loop[l].pc \in {"abort", "clean"}
      /\ UNCHANGED <<today, rows, ingested, remote>>
      /\ localNames \ {d} \subseteq localNames'
      /\ localCells \ CellsOf(localCells, d) \subseteq localCells'
      /\ localCells' \subseteq localCells
  BY DEF AbortUpload, CleanLocal, DeleteLocal
<1>2. \A m \in Loops : m # l /\ loop[m].pc \in HoldsBackup => loop[m].part # d
  BY <1>1 DEF IInv, ArchiveInv, OneOwnerPerBackup, HoldsBackup
<1>3. \A m \in Loops : m # l /\ loop[m].pc = "upload" =>
                         CellsOf(rows, loop[m].part) \subseteq localCells'
  BY <1>1, <1>2 DEF IInv, ArchiveInv, SnapshotComplete, CellsOf, HoldsBackup
<1>4. /\ loop'[l].cfg = loop[l].cfg /\ loop'[l].target = loop[l].target
      /\ \A m \in Loops : m # l => loop'[m] = loop[m]
      /\ \/ /\ loop[l].pc = "abort"
            /\ loop'[l].pc \in {"status", "archive"}
            /\ loop'[l].todo = loop[l].todo \ {d}
            /\ loop'[l].bad = loop[l].bad \cup {d}
         \/ /\ loop[l].pc = "clean"
            /\ loop'[l].pc = "drop" /\ loop'[l].part = d
            /\ loop'[l].todo = loop[l].todo
            /\ loop'[l].bad = loop[l].bad
  <2>1. CASE AbortUpload(l)
    BY <1>0, <2>1, PartitionDoneFacts DEF AbortUpload
  <2>2. CASE CleanLocal(l)
    BY <1>0, <2>2, CleanFacts DEF CleanLocal
  <2> QED
    BY <2>1, <2>2
<1> HIDE DEF d
<1>5. LiveConfig' /\ NoDataLoss' /\ BackupOnlyKept' /\ OnlyIngested'
  BY <1>1, <1>4 DEF IInv, ArchiveInv, LiveConfig, NoDataLoss, BackupOnlyKept, OnlyIngested
<1>6. CyclePlan'
  BY <1>1, <1>2, <1>4 DEF IInv, ArchiveInv, CyclePlan, OnPartition, HoldsBackup, d
<1>7. TargetsClosed'
  BY <1>1, <1>4 DEF IInv, ArchiveInv, TargetsClosed
<1>8. OneOwnerPerBackup'
  BY <1>4 DEF IInv, ArchiveInv, OneOwnerPerBackup, HoldsBackup
<1>9. SnapshotComplete'
  BY <1>1, <1>3, <1>4 DEF IInv, ArchiveInv, SnapshotComplete, CellsOf, d
<1>10. SuccessMeansArchived'
  BY <1>1, <1>4 DEF IInv, ArchiveInv, SuccessMeansArchived, CellsOf
<1> QED
  BY <1>5, <1>6, <1>7, <1>8, <1>9, <1>10 DEF ArchiveInv

(* archivePartition: DropPartitions.                                       *)
LEMMA TableInv ==
    ASSUME IInv, NEW l \in Loops, NEW t \in DROP_TABLES, DropTable(l, t) \/ SkipTable(l, t)
    PROVE  ArchiveInv'
<1> DEFINE c == <<t, loop[l].part>>
<1>0. TypeOK /\ loop[l].part \in Days
  BY DEF IInv, TypeOK, LoopState
<1>1. /\ loop[l].pc = "drop"
      /\ loop'[l].pc = "drop" /\ loop'[l].cfg = loop[l].cfg
      /\ loop'[l].target = loop[l].target /\ loop'[l].todo = loop[l].todo
      /\ loop'[l].bad = loop[l].bad /\ loop'[l].part = loop[l].part
      /\ \A m \in Loops : m # l => loop'[m] = loop[m]
  BY <1>0, TableFacts DEF DropTable, SkipTable
<1>2. /\ UNCHANGED <<today, ingested, localNames, localCells, remote>>
      /\ rows' \subseteq rows /\ rows \subseteq rows' \cup {c}
  BY DEF DropTable, SkipTable, storeVars
<1>3. c \in rows => c \in remote
  BY <1>1 DEF IInv, ArchiveInv, SnapshotComplete, CellsOf
<1>4. c \in DROP_TABLES \X Days
  BY <1>0
<1>5. NoDataLoss' /\ BackupOnlyKept' /\ OnlyIngested'
  BY <1>2, <1>3, <1>4 DEF IInv, ArchiveInv, NoDataLoss, BackupOnlyKept, OnlyIngested
<1>6. LiveConfig' /\ TargetsClosed' /\ CyclePlan'
  BY <1>1, <1>2 DEF IInv, ArchiveInv, LiveConfig, TargetsClosed, CyclePlan
<1>7. OneOwnerPerBackup'
  BY <1>1 DEF IInv, ArchiveInv, OneOwnerPerBackup, HoldsBackup
<1>8. SnapshotComplete'
  BY <1>1, <1>2 DEF IInv, ArchiveInv, SnapshotComplete, CellsOf
<1>9. SuccessMeansArchived'
  BY <1>1, <1>2 DEF IInv, ArchiveInv, SuccessMeansArchived, CellsOf
<1> QED
  BY <1>5, <1>6, <1>7, <1>8, <1>9 DEF ArchiveInv

LEMMA DropsDoneInv ==
    ASSUME IInv, NEW l \in Loops, DropsDone(l)
    PROVE  ArchiveInv'
<1> DEFINE d == loop[l].part
<1>0. TypeOK /\ d \in Days
  BY DEF IInv, TypeOK, LoopState
<1>1. /\ loop[l].pc = "drop"
      /\ loop'[l].pc \in {"status", "archive"} /\ loop'[l].cfg = loop[l].cfg
      /\ loop'[l].target = loop[l].target /\ loop'[l].todo = loop[l].todo \ {d}
      /\ loop'[l].bad = loop[l].bad
      /\ \A m \in Loops : m # l => loop'[m] = loop[m]
  BY <1>0, PartitionDoneFacts DEF DropsDone
<1>2. UNCHANGED <<today, rows, ingested, localNames, localCells, remote>>
  BY DEF DropsDone, storeVars
<1>3. CellsOf(ingested, d) \subseteq remote
  BY <1>1 DEF IInv, ArchiveInv, SnapshotComplete, NoDataLoss, CellsOf
<1>4. LiveConfig' /\ NoDataLoss' /\ BackupOnlyKept' /\ OnlyIngested'
  BY <1>1, <1>2 DEF IInv, ArchiveInv, LiveConfig, NoDataLoss, BackupOnlyKept, OnlyIngested
<1>5. CyclePlan'
  BY <1>1, <1>2 DEF IInv, ArchiveInv, CyclePlan, OnPartition, HoldsBackup
<1>6. TargetsClosed'
  BY <1>1, <1>2 DEF IInv, ArchiveInv, TargetsClosed
<1>7. OneOwnerPerBackup'
  BY <1>1 DEF IInv, ArchiveInv, OneOwnerPerBackup, HoldsBackup
<1>8. SnapshotComplete'
  BY <1>1, <1>2 DEF IInv, ArchiveInv, SnapshotComplete, CellsOf
<1>9. SuccessMeansArchived'
  BY <1>1, <1>2, <1>3 DEF IInv, ArchiveInv, SuccessMeansArchived, CellsOf
<1> QED
  BY <1>4, <1>5, <1>6, <1>7, <1>8, <1>9 DEF ArchiveInv

LEMMA RunLoopInv ==
    ASSUME IInv, NEW l \in Loops, RunLoop(l)
    PROVE  ArchiveInv'
<1>1. CASE QueryPartitions(l) \/ QueryCut(l)
  BY <1>1, QueryFinds, QueryInv
<1> QED
  BY <1>1, ScheduleInv, CreateInv, CreateFailInv, UploadInv, DeleteInv, TableInv,
     DropsDoneInv DEF RunLoop, Cycle

-----------------------------------------------------------------------------
(* The theorems.                                                           *)

LEMMA InitInv == Init => IInv
<1> SUFFICES ASSUME Init PROVE IInv
  OBVIOUS
<1>1. \A l \in Loops : /\ loop[l].pc = "dead" /\ loop[l].target = {}
                       /\ loop[l].todo = {}
  BY DEF Init, Dead
<1>2. loop \in [Loops -> LoopState]
  BY DeadType DEF Init
<1>3. cancelled \in BOOLEAN /\ running \in BOOLEAN
  BY DEF Init
<1>4. TypeOK
  BY <1>2, <1>3, Zero DEF Init, TypeOK
<1>5. ArchiveInv
  BY <1>1 DEF Init, ArchiveInv, LiveConfig, OnlyIngested, NoDataLoss, BackupOnlyKept,
     CyclePlan, TargetsClosed, OneOwnerPerBackup, SnapshotComplete, SuccessMeansArchived,
     OnPartition, HoldsBackup
<1> QED
  BY <1>4, <1>5 DEF IInv

LEMMA StepInv == IInv /\ [Next]_vars => IInv'
<1> SUFFICES ASSUME IInv, [Next]_vars PROVE IInv'
  OBVIOUS
<1>0. TypeOK /\ LiveConfig
  BY DEF IInv, ArchiveInv
<1>1. CASE Control
  BY <1>0, <1>1, ControlType, ControlInv DEF IInv
<1>2. ASSUME NEW l \in Loops, RunLoop(l)
      PROVE  IInv'
  BY <1>0, <1>2, RunLoopType, RunLoopInv DEF IInv
<1>3. CASE Environment
  BY <1>0, <1>3, EnvironmentType, EnvironmentInv DEF IInv
<1>4. CASE UNCHANGED vars
  <2>1. TypeOK'
    BY <1>0, <1>4 DEF vars, TypeOK
  <2> QED
    BY <1>4, <2>1, IdleStep DEF vars, IInv
<1> QED
  BY <1>1, <1>2, <1>3, <1>4 DEF Next

(* The inductive invariant holds in every reachable state.                 *)
THEOREM Invariance == Spec => []IInv
BY InitInv, StepInv, PTL DEF Spec

(* Every variable keeps its type, for any number of loops and days.        *)
THEOREM TypeCorrectness == Spec => []TypeOK
<1>1. IInv => TypeOK
  BY DEF IInv
<1> QED
  BY <1>1, Invariance, PTL

(* Cold backup never loses telemetry, however many loops of the scheduler  *)
(* archive the same partition, whatever fails and whenever the agent dies. *)
THEOREM NoLoss == Spec => []NoDataLoss
<1>1. IInv => NoDataLoss
  BY DEF IInv, ArchiveInv
<1> QED
  BY <1>1, Invariance, PTL

(* The data of BACKUP_ONLY tables never leaves ClickHouse.                 *)
THEOREM MetadataKept == Spec => []BackupOnlyKept
<1>1. IInv => BackupOnlyKept
  BY DEF IInv, ArchiveInv
<1> QED
  BY <1>1, Invariance, PTL

(* Two loops never hold the same local backup.                             *)
THEOREM Ownership == Spec => []OneOwnerPerBackup
<1>1. IInv => OneOwnerPerBackup
  BY DEF IInv, ArchiveInv
<1> QED
  BY <1>1, Invariance, PTL

(* What a cycle reports as archived is in the bucket.                      *)
THEOREM HonestStatus == Spec => []SuccessMeansArchived
<1>1. IInv => SuccessMeansArchived
  BY DEF IInv, ArchiveInv
<1> QED
  BY <1>1, Invariance, PTL

(* Only a DROP of DROP_TABLES makes data leave ClickHouse.                 *)
LEMMA RowsStep ==
    ASSUME IInv, [Next]_vars
    PROVE  \/ rows \subseteq rows'
           \/ \E l \in Loops, t \in DROP_TABLES : DropTable(l, t)
<1>1. CASE Control
  BY <1>1 DEF Control, Start, StartAgain, StartResume, Launch, Stop, Cancel, AgentRestart,
     storeVars
<1>2. ASSUME NEW l \in Loops, RunLoop(l)
      PROVE  rows \subseteq rows' \/ \E t \in DROP_TABLES : DropTable(l, t)
  BY <1>2 DEF RunLoop, Cycle, Gate, EnterSelect, SelectDone, SelectStop, SelectTick,
     QueryFail, QueryPartitions, QueryCut, TakePartitions, CreateBackup, CreateFail, Upload, UploadFail, AbortUpload,
     CleanLocal, SkipTable, DropsDone, UpdateStatus, UpdateStatusFail, storeVars
<1>3. CASE Environment
  BY <1>3 DEF Environment, Ingest, NextDay, SaveSettings
<1>4. CASE UNCHANGED vars
  BY <1>4 DEF vars
<1> QED
  BY <1>1, <1>2, <1>3, <1>4 DEF Next

LEMMA DropsClosed ==
    ASSUME IInv, [Next]_vars, NEW c \in rows \ rows'
    PROVE  c[2] < today - LateDays
<1>1. PICK l \in Loops, t \in DROP_TABLES : DropTable(l, t)
  BY RowsStep
<1>2. c = <<t, loop[l].part>> /\ loop[l].pc = "drop"
  BY <1>1 DEF DropTable
<1>3. loop[l].part \in loop[l].target
  BY <1>2 DEF IInv, ArchiveInv, CyclePlan, OnPartition
<1> QED
  BY <1>2, <1>3 DEF IInv, ArchiveInv, TargetsClosed

(* No step drops a partition that collectors may still write to.           *)
THEOREM OpenPartitionsKept == Spec => NeverDropsOpenPartition
<1>1. IInv /\ [Next]_vars => [\A c \in rows \ rows' : c[2] < today - LateDays]_vars
  BY DropsClosed
<1> QED
  BY <1>1, Invariance, PTL DEF Spec, NeverDropsOpenPartition

-----------------------------------------------------------------------------
(* Refinement: a step of the scheduler is a step of ColdArchive or leaves  *)
(* rows and remote alone.                                                  *)

LEMMA RefineInit == Init => Archive!Init
BY DEF Init, Archive!Init

LEMMA ControlStutters == Control => UNCHANGED <<rows, remote>>
BY DEF Control, Start, StartAgain, StartResume, Launch, Stop, Cancel, AgentRestart, storeVars

LEMMA UploadRefines ==
    ASSUME IInv, NEW l \in Loops, Upload(l) \/ UploadFail(l)
    PROVE  [Archive!Next]_(Archive!vars)
<1> DEFINE S == CellsOf(localCells, loop[l].part)
<1>1. S \subseteq Archive!Data
  BY DEF IInv, TypeOK, CellsOf, Cells, Tables, Archive!Data
<1>2. S \subseteq rows \cup remote
  BY DEF IInv, ArchiveInv, OnlyIngested, NoDataLoss, CellsOf
<1>3. rows' = rows /\ (remote' = remote \cup S \/ remote' = remote)
  BY DEF Upload, UploadFail, Uploaded
<1> HIDE DEF S
<1>4. CASE remote' = remote \cup S
  BY <1>1, <1>2, <1>3, <1>4 DEF Archive!Next, Archive!Archive
<1>5. CASE remote' = remote
  BY <1>3, <1>5 DEF Archive!vars
<1> QED
  BY <1>3, <1>4, <1>5

LEMMA DropRefines ==
    ASSUME IInv, NEW l \in Loops, NEW t \in DROP_TABLES, DropTable(l, t)
    PROVE  Archive!Next
<1> DEFINE c == <<t, loop[l].part>>
<1>1. c \in DROP_TABLES \X Days
  BY DEF IInv, TypeOK, LoopState
<1>2. /\ loop[l].pc = "drop" /\ c \in rows
      /\ rows' = rows \ {c} /\ remote' = remote
  BY DEF DropTable
<1>3. c \in remote
  BY <1>2 DEF IInv, ArchiveInv, SnapshotComplete, CellsOf
<1> HIDE DEF c
<1> QED
  BY <1>1, <1>2, <1>3 DEF Archive!Next, Archive!Expire

LEMMA IngestRefines ==
    ASSUME IInv, NEW t \in Tables, NEW d \in Days, Ingest(t, d)
    PROVE  Archive!Next
<1> DEFINE c == <<t, d>>
<1>1. c \in Archive!Data
  BY DEF Archive!Data, Tables
<1>2. c \notin ingested /\ rows' = rows \cup {c} /\ remote' = remote
  BY DEF Ingest
<1>3. c \notin rows \cup remote
  BY <1>2 DEF IInv, ArchiveInv, OnlyIngested
<1> HIDE DEF c
<1> QED
  BY <1>1, <1>2, <1>3 DEF Archive!Next, Archive!Arrive

LEMMA RefineStep == IInv /\ [Next]_vars => [Archive!Next]_(Archive!vars)
<1> SUFFICES ASSUME IInv, [Next]_vars PROVE [Archive!Next]_(Archive!vars)
  OBVIOUS
<1>1. CASE UNCHANGED <<rows, remote>>
  BY <1>1 DEF Archive!vars
<1>2. CASE Control
  BY <1>1, <1>2, ControlStutters
<1>3. ASSUME NEW l \in Loops, RunLoop(l)
      PROVE  [Archive!Next]_(Archive!vars)
  <2>1. \/ UNCHANGED <<rows, remote>>
        \/ Upload(l) \/ UploadFail(l)
        \/ \E t \in DROP_TABLES : DropTable(l, t)
    BY <1>3 DEF RunLoop, Cycle, Gate, EnterSelect, SelectDone, SelectStop, SelectTick,
       QueryFail, QueryPartitions, QueryCut, TakePartitions, CreateBackup, CreateFail, AbortUpload, CleanLocal,
       SkipTable, DropsDone, UpdateStatus, UpdateStatusFail, storeVars
  <2> QED
    BY <1>1, <2>1, UploadRefines, DropRefines
<1>4. CASE Environment
  <2>1. ASSUME NEW t \in Tables, NEW d \in Days, Ingest(t, d)
        PROVE  Archive!Next
    BY <2>1, IngestRefines
  <2>2. CASE NextDay
    BY <1>1, <2>2 DEF NextDay
  <2>3. ASSUME NEW n \in Totals, NEW g \in {0, 1}, NEW f \in Frequencies, SaveSettings(n, g, f)
        PROVE  [Archive!Next]_(Archive!vars)
    BY <1>1, <2>3 DEF SaveSettings
  <2> QED
    BY <1>4, <2>1, <2>2, <2>3 DEF Environment
<1>5. CASE UNCHANGED vars
  BY <1>1, <1>5 DEF vars
<1> QED
  BY <1>2, <1>3, <1>4, <1>5 DEF Next

(* The scheduler implements the promise of ColdArchive: data is archived   *)
(* before it expires, only droppable data expires and the bucket forgets   *)
(* nothing.                                                                *)
THEOREM Refinement == Spec => ImplementsColdArchive
BY RefineInit, RefineStep, Invariance, PTL
   DEF Spec, ImplementsColdArchive, Archive!Spec
=============================================================================
