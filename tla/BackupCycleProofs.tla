------------------------- MODULE BackupCycleProofs -------------------------
(***************************************************************************)
(* How a backup cycle goes: which partitions it takes, that it always has  *)
(* a next step and ends after a bounded number of them, what the status it *)
(* writes is worth, and which partitions no cycle ever takes.              *)
(***************************************************************************)
EXTENDS BackupSchedulerProofs, FiniteSetTheorems, WellFoundedInduction

-----------------------------------------------------------------------------
(* Least and greatest elements.                                            *)

LEMMA LeastElement ==
    ASSUME NEW S \in SUBSET Nat, S # {}
    PROVE  \E x \in S : \A y \in S : x <= y
<1> DEFINE T == {0 .. x : x \in S}
<1>1. T # {}
  OBVIOUS
<1>2. T \subseteq FiniteSubsetsOf(Nat)
  <2>1. ASSUME NEW x \in S
        PROVE  0 .. x \in SUBSET Nat /\ IsFiniteSet(0 .. x)
    BY FS_Interval
  <2> QED
    BY <2>1 DEF FiniteSubsetsOf
<1>3. PICK I \in T : \A J \in T : <<J, I>> \notin StrictSubsetOrdering(Nat)
  <2> HIDE DEF T
  <2> QED
    BY <1>1, <1>2, FS_StrictSubsetOrderingWellFounded, WFMin
<1>4. PICK x \in S : I = 0 .. x
  BY <1>3
<1>5. ASSUME NEW y \in S, y < x
      PROVE  FALSE
  <2>1. x \in 0 .. x /\ x \notin 0 .. y
    BY <1>5
  <2>2. 0 .. y \in SUBSET (0 .. x) /\ 0 .. y # 0 .. x
    BY <1>5, <2>1
  <2>3. <<0 .. y, 0 .. x>> \in StrictSubsetOrdering(Nat)
    BY <2>2 DEF StrictSubsetOrdering
  <2> QED
    BY <1>3, <1>4, <2>3
<1> QED
  BY <1>5

LEMMA GreatestDay ==
    ASSUME NEW S \in SUBSET Days, S # {}
    PROVE  \E x \in S : \A y \in S : y <= x
<1> DEFINE T == {MaxDay - x : x \in S}
<1>1. T \in SUBSET Nat /\ T # {}
  BY BoundsAssumption DEF Days
<1>2. PICK z \in T : \A y \in T : z <= y
  <2> HIDE DEF T
  <2> QED
    BY <1>1, LeastElement
<1>3. PICK x \in S : z = MaxDay - x
  OBVIOUS
<1>4. ASSUME NEW y \in S
      PROVE  y <= x
  <2>1. MaxDay - x <= MaxDay - y
    BY <1>2, <1>3
  <2> QED
    BY <2>1, BoundsAssumption DEF Days
<1> QED
  BY <1>4

LEMMA LeastDay ==
    ASSUME NEW S \in SUBSET Days, S # {}
    PROVE  \E x \in S : \A y \in S : x <= y
BY LeastElement, BoundsAssumption DEF Days

LEMMA DaysFinite ==
    ASSUME NEW S \in SUBSET Days
    PROVE  IsFiniteSet(S) /\ Cardinality(S) \in Nat
<1>1. IsFiniteSet(Days)
  BY FS_Interval, BoundsAssumption DEF Days
<1> QED
  BY <1>1, FS_Subset, FS_CardinalityType

LEMMA DaysSubset ==
    ASSUME NEW S \in SUBSET Days, NEW T \in SUBSET S
    PROVE  Cardinality(T) <= Cardinality(S) /\ Cardinality(T) \in Nat
BY DaysFinite, FS_Subset

-----------------------------------------------------------------------------
(* Oldest: the ORDER BY and LIMIT of the query.                            *)

LEMMA OldestDownward ==
    ASSUME NEW S \in SUBSET Days, NEW n \in Nat,
           NEW d \in Oldest(S, n), NEW e \in S, e < d
    PROVE  e \in Oldest(S, n)
<1> DEFINE B == {y \in S : y < d}
           C == {y \in S : y < e}
<1>0. d \in S /\ d \in Int /\ \A x \in S : x \in Int
  BY BoundsAssumption DEF Oldest, Days
<1>1. C \in SUBSET B /\ B \in SUBSET Days
  <2>1. \A y \in S : y < e => y < d
    BY <1>0
  <2> QED
    BY <2>1
<1>2. Cardinality(C) <= Cardinality(B)
      /\ Cardinality(C) \in Nat /\ Cardinality(B) \in Nat
  BY <1>1, DaysSubset, DaysFinite
<1>3. Cardinality(B) < n
  BY DEF Oldest
<1> QED
  BY <1>2, <1>3 DEF Oldest

(* Never more than n.                                                      *)
LEMMA OldestBound ==
    ASSUME NEW S \in SUBSET Days, NEW n \in Nat
    PROVE  Cardinality(Oldest(S, n)) <= n
<1> DEFINE O == Oldest(S, n)
<1>0. O \in SUBSET Days
  BY DEF Oldest
<1>1. CASE O = {}
  BY <1>1, FS_EmptySet
<1>2. CASE O # {}
  <2>1. PICK x \in O : \A y \in O : y <= x
    BY <1>0, <1>2, GreatestDay
  <2> DEFINE B == {y \in S : y < x}
  <2>2. O \ {x} \in SUBSET B /\ B \in SUBSET Days
    <3>1. O \in SUBSET S /\ \A y \in S : y \in Int
      BY BoundsAssumption DEF Oldest, Days
    <3> QED
      BY <2>1, <3>1
  <2>3. Cardinality(O \ {x}) <= Cardinality(B) /\ Cardinality(O \ {x}) \in Nat
        /\ Cardinality(B) \in Nat
    BY <2>2, DaysSubset, DaysFinite
  <2>4. Cardinality(B) < n
    BY <2>1 DEF Oldest
  <2>5. Cardinality(O \ {x}) = Cardinality(O) - 1 /\ Cardinality(O) \in Nat
    BY <1>0, <2>1, DaysFinite, FS_RemoveElement
  <2> QED
    BY <2>3, <2>4, <2>5
<1> QED
  BY <1>1, <1>2

(* All there are, or n of them.                                            *)
LEMMA OldestExact ==
    ASSUME NEW S \in SUBSET Days, NEW n \in Nat, Oldest(S, n) # S
    PROVE  Cardinality(Oldest(S, n)) = n
<1> DEFINE O == Oldest(S, n)
<1>0. O \in SUBSET S /\ S \ O \in SUBSET Days /\ S \ O # {}
  BY DEF Oldest
<1>1. PICK x \in S \ O : \A y \in S \ O : x <= y
  BY <1>0, LeastDay
<1> DEFINE B == {y \in S : y < x}
<1>2. B \in SUBSET O /\ O \in SUBSET Days
  <2>1. \A y \in S : y \in Int
    BY BoundsAssumption DEF Days
  <2> HIDE DEF O
  <2> QED
    BY <1>0, <1>1, <2>1
<1>3. Cardinality(B) <= Cardinality(O) /\ Cardinality(B) \in Nat /\ Cardinality(O) \in Nat
  BY <1>2, DaysSubset, DaysFinite
<1>4. ~(Cardinality(B) < n)
  BY <1>1 DEF Oldest
<1> QED
  BY <1>3, <1>4, OldestBound

LEMMA OldestNonempty ==
    ASSUME NEW S \in SUBSET Days, NEW n \in Nat \ {0}, S # {}
    PROVE  Oldest(S, n) # {}
<1>1. ASSUME Oldest(S, n) = {} PROVE FALSE
  <2>1. Cardinality(Oldest(S, n)) = n
    BY <1>1, OldestExact
  <2> QED
    BY <1>1, <2>1, FS_EmptySet
<1> QED
  BY <1>1

-----------------------------------------------------------------------------
(* The steps of a cycle, seen from the loop that takes them.               *)

Between == {"gate", "select", "wait"}
InCycle == PCs \ (Between \cup {"dead"})

(* archivePartition has returned for day d, and the cycle goes on with the *)
(* next partition or with the status.                                      *)
Finish(s, r, d) ==
    /\ d \in s.todo
    /\ r.target = s.target /\ r.todo = s.todo \ {d}
    /\ r.pc = IF s.todo \ {d} = {} THEN "status" ELSE "archive"

KeepsPlan(s, r) == r.target = s.target /\ r.todo = s.todo
NoPlan(r)       == r.target = {} /\ r.todo = {}

Take(s, r) ==
    /\ s.pc = "query"
    /\ \/ r.pc \in {"select", "status"} /\ NoPlan(r)
       \/ /\ r.pc = "archive" /\ r.todo = r.target
          /\ \E found \in SUBSET Days :
                found # {} /\ r.target = Oldest(found, MaxPartitionsPerRun)

WorkOn(s, r) ==
    \/ s.pc = "archive" /\ r.pc = "upload" /\ KeepsPlan(s, r)
    \/ s.pc = "archive" /\ \E d \in s.todo : Finish(s, r, d)
    \/ s.pc = "upload" /\ r.pc \in {"clean", "abort"} /\ KeepsPlan(s, r)
    \/ s.pc = "abort" /\ Finish(s, r, s.part)
    \/ s.pc = "clean" /\ r.pc = "drop" /\ r.drops = DROP_TABLES /\ KeepsPlan(s, r)
    \/ /\ s.pc = "drop" /\ r.pc = "drop" /\ KeepsPlan(s, r)
       /\ \E t \in s.drops : r.drops = s.drops \ {t}
    \/ s.pc = "drop" /\ s.drops = {} /\ Finish(s, r, s.part)

CycleStep(s, r) ==
    \/ s.pc \in Between /\ r.pc \in Between \cup {"dead", "query"}
       /\ (KeepsPlan(s, r) \/ NoPlan(r))
    \/ Take(s, r)
    \/ WorkOn(s, r)
    \/ s.pc = "status" /\ r.pc = "select" /\ NoPlan(r)

LEMMA FinishStep ==
    ASSUME TypeOK, NEW l \in Loops, NEW d \in loop[l].todo, NEW f \in BOOLEAN,
           PartitionDone(l, d, f)
    PROVE  /\ Finish(loop[l], loop'[l], d)
           /\ \A m \in Loops : m # l => loop'[m] = loop[m]
<1>1. loop[l] \in LoopState /\ d \in Days
  BY DEF TypeOK, LoopState
<1> DEFINE p    == IF loop[l].todo \ {d} = {} THEN "status" ELSE "archive"
           left == loop[l].todo \ {d}
           bad  == IF f THEN loop[l].bad \cup {d} ELSE loop[l].bad
           r    == [loop[l] EXCEPT !.pc = p, !.todo = left, !.part = 0, !.drops = {},
                                   !.bad = bad]
<1>2. Goto(l, r)
  BY DEF PartitionDone
<1>3. loop'[l] = r /\ \A m \in Loops : m # l => loop'[m] = loop[m]
  BY <1>2, GotoFacts
<1>4. r.pc = p /\ r.target = loop[l].target /\ r.todo = left
  BY <1>1, PartitionDoneFields
<1> HIDE DEF r
<1> QED
  BY <1>3, <1>4 DEF Finish

LEMMA TakeStep ==
    ASSUME TypeOK, NEW l \in Loops, NEW found \in SUBSET Days, TakePartitions(l, found)
    PROVE  /\ Take(loop[l], loop'[l])
           /\ loop'[l].target = Oldest(found, MaxPartitionsPerRun)
           /\ \A m \in Loops : m # l => loop'[m] = loop[m]
<1> DEFINE taken == Oldest(found, MaxPartitionsPerRun)
           p     == IF found = {} THEN "status" ELSE "archive"
           r     == [loop[l] EXCEPT !.pc = p, !.ch = 0, !.target = taken, !.todo = taken,
                                    !.bad = {}]
<1>0. loop[l] \in LoopState
  BY DEF TypeOK
<1>1. loop[l].pc = "query" /\ Goto(l, r)
  BY DEF TakePartitions
<1>2. loop'[l] = r /\ \A m \in Loops : m # l => loop'[m] = loop[m]
  BY <1>1, GotoFacts
<1>3. found = {} => taken = {}
  BY DEF Oldest
<1> HIDE DEF taken
<1>4. r.pc = p /\ r.target = taken /\ r.todo = taken
  BY <1>0 DEF LoopState
<1> HIDE DEF r
<1>5. CASE found = {}
  BY <1>1, <1>2, <1>3, <1>4, <1>5 DEF Take, NoPlan, taken
<1>6. CASE found # {}
  BY <1>1, <1>2, <1>4, <1>6 DEF Take, taken
<1> QED
  BY <1>5, <1>6

LEMMA QuietCycleStep ==
    ASSUME IInv, NEW l \in Loops,
           \/ Gate(l) \/ EnterSelect(l) \/ SelectDone(l) \/ SelectStop(l) \/ SelectTick(l)
           \/ QueryFail(l) \/ UpdateStatus(l) \/ UpdateStatusFail(l)
    PROVE  /\ CycleStep(loop[l], loop'[l])
           /\ \A m \in Loops : m # l => loop'[m] = loop[m]
<1>0. TypeOK /\ loop[l] \in LoopState
  BY DEF IInv, TypeOK
<1>1. ASSUME NEW p \in PCs
      PROVE  /\ [loop[l] EXCEPT !.pc = p].pc = p
             /\ KeepsPlan(loop[l], [loop[l] EXCEPT !.pc = p])
  BY <1>0 DEF LoopState, KeepsPlan
<1>2. CASE Gate(l)
  <2> DEFINE p == IF ShouldCatchUp(loop[l].cfg) THEN "query" ELSE "select"
             r == [loop[l] EXCEPT !.pc = p]
  <2>1. p \in PCs /\ p \in Between \cup {"query"}
    BY DEF PCs, Between
  <2>2. loop[l].pc = "gate" /\ loop'[l] = r /\ \A m \in Loops : m # l => loop'[m] = loop[m]
    BY <1>0, <1>2, GotoFacts DEF Gate
  <2> HIDE DEF p
  <2>3. r.pc = p /\ KeepsPlan(loop[l], r)
    BY <1>1, <2>1
  <2> HIDE DEF r
  <2> QED
    BY <2>1, <2>2, <2>3 DEF CycleStep, Between
<1>3. CASE EnterSelect(l)
  <2> DEFINE r == [loop[l] EXCEPT !.pc = "wait", !.ch = stopCh]
  <2>1. loop[l].pc = "select" /\ loop'[l] = r
        /\ \A m \in Loops : m # l => loop'[m] = loop[m]
    BY <1>0, <1>3, GotoFacts DEF EnterSelect
  <2>2. r.pc = "wait" /\ KeepsPlan(loop[l], r)
    BY <1>0 DEF LoopState, KeepsPlan
  <2> HIDE DEF r
  <2> QED
    BY <2>1, <2>2 DEF CycleStep, Between
<1>4. CASE SelectDone(l) \/ SelectStop(l)
  <2>1. loop[l].pc = "wait" /\ loop'[l] = Dead
        /\ \A m \in Loops : m # l => loop'[m] = loop[m]
    BY <1>0, <1>4, GotoFacts DEF SelectDone, SelectStop, Return
  <2> QED
    BY <2>1 DEF CycleStep, Between, Dead, NoPlan
<1>5. CASE SelectTick(l)
  <2> DEFINE r == [loop[l] EXCEPT !.pc = "query"]
  <2>1. loop[l].pc = "wait" /\ loop'[l] = r
        /\ \A m \in Loops : m # l => loop'[m] = loop[m]
    BY <1>0, <1>5, GotoFacts DEF SelectTick
  <2>2. r.pc = "query" /\ KeepsPlan(loop[l], r)
    BY <1>1 DEF PCs
  <2> HIDE DEF r
  <2> QED
    BY <2>1, <2>2 DEF CycleStep, Between
<1>6. CASE QueryFail(l) \/ UpdateStatus(l) \/ UpdateStatusFail(l)
  BY <1>0, <1>6, EndCycleFacts DEF QueryFail, UpdateStatus, UpdateStatusFail, CycleStep,
     Take, NoPlan
<1> QED
  BY <1>2, <1>3, <1>4, <1>5, <1>6

LEMMA WorkStep ==
    ASSUME IInv, NEW l \in Loops,
           \/ \E d \in Days : CreateBackup(l, d) \/ CreateFail(l, d)
           \/ Upload(l) \/ UploadFail(l) \/ AbortUpload(l) \/ CleanLocal(l)
           \/ \E t \in DROP_TABLES : DropTable(l, t) \/ SkipTable(l, t)
           \/ DropsDone(l)
    PROVE  /\ WorkOn(loop[l], loop'[l])
           /\ \A m \in Loops : m # l => loop'[m] = loop[m]
<1>0. TypeOK /\ loop[l] \in LoopState
  BY DEF IInv, TypeOK
<1>1. loop[l].pc \in OnPartition => loop[l].part \in loop[l].todo
  BY DEF IInv, ArchiveInv, CyclePlan
<1>2. ASSUME NEW d \in Days, CreateBackup(l, d)
      PROVE  /\ WorkOn(loop[l], loop'[l])
             /\ \A m \in Loops : m # l => loop'[m] = loop[m]
  <2> DEFINE r == [loop[l] EXCEPT !.pc = "upload", !.part = d]
  <2>1. loop[l].pc = "archive" /\ loop'[l] = r
        /\ \A m \in Loops : m # l => loop'[m] = loop[m]
    BY <1>0, <1>2, GotoFacts DEF CreateBackup
  <2>2. r.pc = "upload" /\ KeepsPlan(loop[l], r)
    BY <1>0 DEF LoopState, KeepsPlan
  <2> HIDE DEF r
  <2> QED
    BY <2>1, <2>2 DEF WorkOn
<1>3. ASSUME NEW d \in Days, CreateFail(l, d)
      PROVE  /\ WorkOn(loop[l], loop'[l])
             /\ \A m \in Loops : m # l => loop'[m] = loop[m]
  <2>1. loop[l].pc = "archive" /\ d \in loop[l].todo /\ PartitionDone(l, d, TRUE)
    BY <1>3 DEF CreateFail, IsNext
  <2> QED
    BY <1>0, <2>1, FinishStep DEF WorkOn
<1>4. CASE Upload(l) \/ UploadFail(l)
  <2> DEFINE p == IF Upload(l) THEN "clean" ELSE "abort"
             r == [loop[l] EXCEPT !.pc = p]
  <2>0. Goto(l, r)
    BY <1>4 DEF Upload, UploadFail
  <2>1. loop[l].pc = "upload" /\ loop'[l] = r
        /\ \A m \in Loops : m # l => loop'[m] = loop[m]
    BY <1>0, <1>4, <2>0, GotoFacts DEF Upload, UploadFail
  <2>2. r.pc \in {"clean", "abort"} /\ KeepsPlan(loop[l], r)
    BY <1>0 DEF LoopState, KeepsPlan
  <2> HIDE DEF r
  <2> QED
    BY <2>1, <2>2 DEF WorkOn
<1>5. CASE AbortUpload(l)
  <2>1. loop[l].pc = "abort" /\ PartitionDone(l, loop[l].part, TRUE)
    BY <1>5 DEF AbortUpload
  <2>2. loop[l].part \in loop[l].todo
    BY <1>1, <2>1 DEF OnPartition, HoldsBackup
  <2> QED
    BY <1>0, <2>1, <2>2, FinishStep DEF WorkOn
<1>6. CASE CleanLocal(l)
  <2> DEFINE r == [loop[l] EXCEPT !.pc = "drop", !.drops = DROP_TABLES]
  <2>1. loop[l].pc = "clean" /\ loop'[l] = r
        /\ \A m \in Loops : m # l => loop'[m] = loop[m]
    BY <1>0, <1>6, GotoFacts DEF CleanLocal
  <2>2. r.pc = "drop" /\ r.drops = DROP_TABLES /\ KeepsPlan(loop[l], r)
    BY <1>0 DEF LoopState, KeepsPlan
  <2> HIDE DEF r
  <2> QED
    BY <2>1, <2>2 DEF WorkOn
<1>7. ASSUME NEW t \in DROP_TABLES, DropTable(l, t) \/ SkipTable(l, t)
      PROVE  /\ WorkOn(loop[l], loop'[l])
             /\ \A m \in Loops : m # l => loop'[m] = loop[m]
  <2> DEFINE r == [loop[l] EXCEPT !.drops = @ \ {t}]
  <2>1. loop[l].pc = "drop" /\ t \in loop[l].drops /\ loop'[l] = r
        /\ \A m \in Loops : m # l => loop'[m] = loop[m]
    BY <1>0, <1>7, GotoFacts DEF DropTable, SkipTable
  <2>2. r.pc = loop[l].pc /\ r.drops = loop[l].drops \ {t} /\ KeepsPlan(loop[l], r)
    BY <1>0 DEF LoopState, KeepsPlan
  <2> HIDE DEF r
  <2> QED
    BY <2>1, <2>2 DEF WorkOn
<1>8. CASE DropsDone(l)
  <2>1. loop[l].pc = "drop" /\ loop[l].drops = {} /\ PartitionDone(l, loop[l].part, FALSE)
    BY <1>8 DEF DropsDone
  <2>2. loop[l].part \in loop[l].todo
    BY <1>1, <2>1 DEF OnPartition
  <2> QED
    BY <1>0, <2>1, <2>2, FinishStep DEF WorkOn
<1> QED
  BY <1>2, <1>3, <1>4, <1>5, <1>6, <1>7, <1>8

LEMMA PartitionsAreDays == \A cfg : PartitionsToArchive(cfg) \in SUBSET Days
BY DEF PartitionsToArchive

LEMMA CycleSteps ==
    ASSUME IInv, NEW l \in Loops, RunLoop(l)
    PROVE  /\ CycleStep(loop[l], loop'[l])
           /\ \A m \in Loops : m # l => loop'[m] = loop[m]
<1>1. CASE QueryPartitions(l) \/ QueryCut(l)
  <2>1. PICK found \in SUBSET PartitionsToArchive(loop[l].cfg) : TakePartitions(l, found)
    BY <1>1, QueryFinds
  <2>2. found \in SUBSET Days
    BY PartitionsAreDays
  <2> QED
    BY <2>1, <2>2, TakeStep DEF IInv, CycleStep
<1> QED
  BY <1>1, QuietCycleStep, WorkStep DEF RunLoop, Cycle, CycleStep

-----------------------------------------------------------------------------
(* What holds of a loop at each point of a cycle.                          *)

(* The channels of this life of the process number the loops it started.   *)
FreshLoops == \A l \in Loops : l > stopCh => loop[l].pc = "dead"

(* A plan exists during a cycle only, work goes on while a partition is    *)
(* left, and the status is written when none is.                           *)
PhaseOK(s) ==
    /\ s.pc \in Between \cup {"dead", "query"} => s.target = {} /\ s.todo = {}
    /\ s.pc = "archive" => s.todo # {}
    /\ s.pc = "status" => s.todo = {}

(* A cycle works on at most MaxPartitionsPerRun partitions.                *)
TakesAtMost == \A l \in Loops : Cardinality(loop[l].target) <= MaxPartitionsPerRun

(* A loop that is to archive a partition has one to go on with, so that    *)
(* archivePartition can always be called.                                  *)
NextPartition ==
    \A l \in Loops : loop[l].pc = "archive" => \E d \in Days : IsNext(l, d)

CycleInv ==
    /\ IInv
    /\ FreshLoops
    /\ \A l \in Loops : PhaseOK(loop[l])
    /\ TakesAtMost

LEMMA CycleStepPhase ==
    ASSUME NEW s \in LoopState, NEW r \in LoopState, CycleStep(s, r), PhaseOK(s),
           Cardinality(s.target) <= MaxPartitionsPerRun
    PROVE  PhaseOK(r) /\ Cardinality(r.target) <= MaxPartitionsPerRun
<1>0. Cardinality({}) <= MaxPartitionsPerRun
  BY FS_EmptySet, BoundsAssumption
<1>1. CASE NoPlan(r) /\ r.pc # "archive"
  BY <1>0, <1>1 DEF PhaseOK, NoPlan
<1>2. CASE s.pc \in Between
  <2>1. s.target = {} /\ s.todo = {}
    BY <1>2 DEF PhaseOK
  <2> QED
    BY <1>1, <1>2, <2>1 DEF CycleStep, Take, WorkOn, Between, KeepsPlan, NoPlan
<1>3. CASE Take(s, r)
  <2>1. ASSUME NEW found \in SUBSET Days, found # {}, r.pc = "archive", r.todo = r.target,
               r.target = Oldest(found, MaxPartitionsPerRun)
        PROVE  PhaseOK(r) /\ Cardinality(r.target) <= MaxPartitionsPerRun
    BY <2>1, OldestBound, OldestNonempty, BoundsAssumption DEF PhaseOK, Between
  <2> QED
    BY <1>1, <1>3, <2>1 DEF Take
<1>4. CASE WorkOn(s, r)
  <2>1. ASSUME NEW d, Finish(s, r, d)
        PROVE  PhaseOK(r) /\ Cardinality(r.target) <= MaxPartitionsPerRun
    BY <2>1 DEF Finish, PhaseOK, Between
  <2>2. CASE KeepsPlan(s, r) /\ r.pc \in {"upload", "clean", "abort", "drop"}
    BY <2>2 DEF KeepsPlan, PhaseOK, Between
  <2> QED
    BY <1>4, <2>1, <2>2 DEF WorkOn
<1>5. CASE s.pc = "status" /\ r.pc = "select" /\ NoPlan(r)
  BY <1>1, <1>5
<1> QED
  BY <1>2, <1>3, <1>4, <1>5 DEF CycleStep

LEMMA CycleStepAlive ==
    ASSUME NEW s, NEW r, CycleStep(s, r)
    PROVE  s.pc # "dead"
BY DEF CycleStep, Take, WorkOn, Between

LEMMA DeadPhase == PhaseOK(Dead) /\ Cardinality(Dead.target) <= MaxPartitionsPerRun
BY FS_EmptySet, BoundsAssumption DEF PhaseOK, Dead, Between

LEMMA CycleInit == Init => CycleInv
<1> SUFFICES ASSUME Init PROVE CycleInv
  OBVIOUS
<1>1. \A l \in Loops : loop[l] = Dead
  BY DEF Init
<1>2. IInv
  BY InitInv
<1>3. FreshLoops
  BY <1>1 DEF FreshLoops, Dead
<1> QED
  BY <1>1, <1>2, <1>3, DeadPhase DEF CycleInv, TakesAtMost

LEMMA LaunchCycle ==
    ASSUME CycleInv, NEW cfg \in Config, Launch(cfg)
    PROVE  /\ FreshLoops' /\ (\A l \in Loops : PhaseOK(loop[l]))' /\ TakesAtMost'
           /\ \A l \in Loops : loop[l].pc \in InCycle => loop'[l] = loop[l]
<1> DEFINE n == stopCh + 1
           r == [Dead EXCEPT !.pc = "gate", !.cfg = cfg]
<1>0. TypeOK /\ n \in Loops /\ stopCh' = n /\ stopCh \in Int
  BY BoundsAssumption DEF CycleInv, IInv, TypeOK, Launch, Loops
<1>1. loop'[n] = r /\ \A m \in Loops : m # n => loop'[m] = loop[m]
  BY <1>0, GotoFacts DEF Launch
<1>2. r.pc = "gate" /\ r.target = {} /\ r.todo = {}
  BY DEF Dead
<1>3. PhaseOK(r) /\ Cardinality(r.target) <= MaxPartitionsPerRun
  BY <1>2, FS_EmptySet, BoundsAssumption DEF PhaseOK, Between
<1>4. loop[n].pc = "dead"
  BY <1>0 DEF CycleInv, FreshLoops
<1> HIDE DEF r
<1>5. FreshLoops'
  <2> SUFFICES ASSUME NEW l \in Loops, l > n PROVE loop'[l].pc = "dead"
    BY <1>0 DEF FreshLoops
  <2>1. l # n /\ l > stopCh
    BY <1>0 DEF Loops
  <2> QED
    BY <1>1, <2>1 DEF CycleInv, FreshLoops
<1>6. (\A l \in Loops : PhaseOK(loop[l]))' /\ TakesAtMost'
  BY <1>1, <1>3 DEF CycleInv, TakesAtMost
<1>7. \A l \in Loops : loop[l].pc \in InCycle => loop'[l] = loop[l]
  BY <1>1, <1>4 DEF InCycle
<1> HIDE DEF n
<1> QED
  BY <1>5, <1>6, <1>7

(* The callers of the scheduler leave a cycle alone or end it with the     *)
(* process.                                                                *)
LEMMA ControlCycle ==
    ASSUME CycleInv, Control
    PROVE  /\ FreshLoops' /\ (\A l \in Loops : PhaseOK(loop[l]))' /\ TakesAtMost'
           /\ \A l \in Loops : loop[l].pc \in InCycle => loop'[l] \in {loop[l], Dead}
<1>1. ASSUME NEW cfg \in Config, Launch(cfg)
      PROVE  /\ FreshLoops' /\ (\A l \in Loops : PhaseOK(loop[l]))' /\ TakesAtMost'
             /\ \A l \in Loops : loop[l].pc \in InCycle => loop'[l] \in {loop[l], Dead}
  BY <1>1, LaunchCycle
<1>2. CASE \E cfg \in Polled : Start(cfg)
  BY <1>1, <1>2, PolledType DEF Start
<1>3. CASE StartResume
  BY <1>1, <1>3 DEF StartResume, CycleInv, IInv, TypeOK
<1>4. CASE UNCHANGED <<loop, stopCh>>
  BY <1>4 DEF CycleInv, FreshLoops, TakesAtMost
<1>5. CASE (\E cfg \in Polled : StartAgain(cfg)) \/ Stop \/ Cancel
  BY <1>4, <1>5 DEF StartAgain, Stop, Cancel
<1>6. CASE AgentRestart
  <2>1. \A l \in Loops : loop'[l] = Dead
    BY <1>6 DEF AgentRestart
  <2> QED
    BY <2>1, DeadPhase DEF FreshLoops, TakesAtMost, Dead
<1> QED
  BY <1>2, <1>3, <1>5, <1>6 DEF Control

LEMMA RunLoopCycle ==
    ASSUME CycleInv, NEW l \in Loops, RunLoop(l)
    PROVE  FreshLoops' /\ (\A m \in Loops : PhaseOK(loop[m]))' /\ TakesAtMost'
<1>1. CycleStep(loop[l], loop'[l]) /\ \A m \in Loops : m # l => loop'[m] = loop[m]
  BY CycleSteps DEF CycleInv
<1>2. loop[l] \in LoopState /\ loop'[l] \in LoopState
  BY RunLoopType DEF CycleInv, IInv, ArchiveInv, TypeOK
<1>3. PhaseOK(loop'[l]) /\ Cardinality(loop'[l].target) <= MaxPartitionsPerRun
  BY <1>1, <1>2, CycleStepPhase DEF CycleInv, TakesAtMost
<1>4. stopCh' = stopCh
  BY DEF RunLoop, Cycle, Gate, EnterSelect, SelectDone, SelectStop, SelectTick,
     QueryFail, QueryPartitions, QueryCut, TakePartitions, CreateBackup, CreateFail,
     Upload, UploadFail, AbortUpload, CleanLocal, DropTable, SkipTable, DropsDone,
     UpdateStatus, UpdateStatusFail, ctrlVars
<1>5. loop[l].pc # "dead"
  BY <1>1, CycleStepAlive
<1> QED
  BY <1>1, <1>3, <1>4, <1>5 DEF CycleInv, FreshLoops, TakesAtMost

LEMMA EnvironmentIdles == Environment \/ UNCHANGED vars => UNCHANGED <<loop, stopCh>>
BY DEF Environment, Ingest, NextDay, SaveSettings, ctrlVars, vars

LEMMA CycleStepInv == CycleInv /\ [Next]_vars => CycleInv'
<1> SUFFICES ASSUME CycleInv, [Next]_vars PROVE CycleInv'
  OBVIOUS
<1>1. IInv'
  BY StepInv DEF CycleInv
<1>2. CASE Environment \/ UNCHANGED vars
  BY <1>1, <1>2, EnvironmentIdles DEF CycleInv, FreshLoops, TakesAtMost
<1> QED
  BY <1>1, <1>2, ControlCycle, RunLoopCycle DEF Next, CycleInv

LEMMA CycleInvariance == Spec => []CycleInv
BY CycleInit, CycleStepInv, PTL DEF Spec

(* No cycle works on more than MaxPartitionsPerRun partitions              *)
(* (maxPartitionsPerRun caps the list runBackup goes through), whichever   *)
(* days hold data and wherever the query is cut off.                       *)
THEOREM CycleIsCapped == Spec => []TakesAtMost
<1>1. CycleInv => TakesAtMost
  BY DEF CycleInv
<1> QED
  BY <1>1, CycleInvariance, PTL

(* The loop over the partitions is never stuck: as long as it has not come *)
(* to the status it has a partition to archive.                            *)
THEOREM CycleGoesOn == Spec => []NextPartition
<1>1. CycleInv => NextPartition
  <2> SUFFICES ASSUME CycleInv, NEW l \in Loops, loop[l].pc = "archive"
               PROVE  \E d \in Days : IsNext(l, d)
    BY DEF NextPartition
  <2>1. loop[l].todo \in SUBSET Days /\ loop[l].todo # {}
    BY DEF CycleInv, PhaseOK, IInv, TypeOK, LoopState
  <2> QED
    BY <2>1, LeastDay DEF IsNext
<1> QED
  BY <1>1, CycleInvariance, PTL

-----------------------------------------------------------------------------
(* A cycle ends: a count of the steps it has left, which each of them      *)
(* lowers.                                                                 *)

(* create, upload, delete local, a step per table and the return.          *)
StepsPerPartition == Cardinality(DROP_TABLES) + 4
StepsPerCycle     == MaxPartitionsPerRun * StepsPerPartition + 2

StepsLeft(s) ==
    LET later == (Cardinality(s.todo) - 1) * StepsPerPartition + 1
    IN  CASE s.pc = "query"   -> StepsPerCycle
          [] s.pc = "archive" -> later + StepsPerPartition
          [] s.pc = "upload"  -> later + StepsPerPartition - 1
          [] s.pc = "clean"   -> later + StepsPerPartition - 2
          [] s.pc = "drop"    -> later + Cardinality(s.drops) + 1
          [] s.pc = "abort"   -> later + 1
          [] s.pc = "status"  -> 1
          [] OTHER            -> 0

(* Every step a loop takes in a cycle, and every step somebody else takes  *)
(* with it, leaves the cycle with fewer steps than it had.                 *)
CycleCountsDown ==
    [][\A l \in Loops :
         (loop[l].pc \in InCycle /\ loop'[l] # loop[l]) =>
             StepsLeft(loop'[l]) < StepsLeft(loop[l])]_vars

LEMMA Product ==
    ASSUME NEW n \in Nat, NEW k \in Nat
    PROVE  /\ n * k \in Nat
           /\ (n - 1) * k = n * k - k
           /\ n # 0 => (n - 1) * k \in Nat
           /\ \A m \in Nat : n <= m => n * k <= m * k
OBVIOUS

LEMMA StepsPerPartitionType == StepsPerPartition \in Nat /\ StepsPerPartition >= 4
BY FiniteAssumption, FS_CardinalityType DEF StepsPerPartition

(* What the count of a loop in a cycle is made of.                         *)
Counted(s) ==
    /\ s.todo \in SUBSET s.target /\ s.target \in SUBSET Days
    /\ s.drops \in SUBSET DROP_TABLES
    /\ PhaseOK(s)
    /\ s.pc \in OnPartition => s.part \in s.todo
    /\ Cardinality(s.target) <= MaxPartitionsPerRun

LEMMA CountedLoop ==
    ASSUME CycleInv, NEW l \in Loops
    PROVE  Counted(loop[l])
<1>1. loop[l] \in LoopState
  BY DEF CycleInv, IInv, TypeOK
<1>2. loop[l].target \in SUBSET Days /\ loop[l].drops \in SUBSET DROP_TABLES
  BY <1>1 DEF LoopState
<1>3. loop[l].todo \in SUBSET loop[l].target
      /\ (loop[l].pc \in OnPartition => loop[l].part \in loop[l].todo)
  BY DEF CycleInv, IInv, ArchiveInv, CyclePlan
<1> QED
  BY <1>2, <1>3 DEF CycleInv, TakesAtMost, Counted

LEMMA CountFacts ==
    ASSUME NEW s, Counted(s)
    PROVE  /\ Cardinality(s.todo) \in Nat /\ Cardinality(s.todo) <= MaxPartitionsPerRun
           /\ s.todo # {} => Cardinality(s.todo) >= 1
           /\ Cardinality(s.drops) \in Nat
           /\ Cardinality(s.drops) <= StepsPerPartition - 4
<1>1. Cardinality(s.todo) \in Nat /\ Cardinality(s.target) \in Nat
      /\ Cardinality(s.todo) <= Cardinality(s.target) /\ IsFiniteSet(s.todo)
  BY DaysFinite, DaysSubset DEF Counted
<1>2. s.todo # {} => Cardinality(s.todo) # 0
  BY <1>1, FS_EmptySet
<1>3. IsFiniteSet(s.drops) /\ Cardinality(s.drops) <= Cardinality(DROP_TABLES)
  BY FiniteAssumption, FS_Subset DEF Counted
<1>4. Cardinality(s.drops) \in Nat /\ Cardinality(DROP_TABLES) \in Nat
  BY <1>3, FiniteAssumption, FS_CardinalityType
<1> QED
  BY <1>1, <1>2, <1>3, <1>4, BoundsAssumption DEF Counted, StepsPerPartition

LEMMA CountRange ==
    ASSUME NEW s, Counted(s), s.pc \in PCs
    PROVE  /\ StepsLeft(s) \in 0 .. StepsPerCycle
           /\ s.pc \in InCycle => StepsLeft(s) > 0
<1> DEFINE n == Cardinality(s.todo)
           k == StepsPerPartition
           M == MaxPartitionsPerRun
<1>1. n \in Nat /\ n <= M /\ M \in Nat /\ k \in Nat /\ k >= 4
      /\ (s.todo # {} => n >= 1)
      /\ Cardinality(s.drops) \in Nat /\ Cardinality(s.drops) <= k - 4
  BY CountFacts, StepsPerPartitionType, BoundsAssumption
<1>2. s.pc \in {"archive", "upload", "clean", "drop", "abort"} => s.todo # {}
  BY DEF Counted, PhaseOK, OnPartition, HoldsBackup
<1> DEFINE p == (n - 1) * k
<1>3. n * k \in Nat /\ p = n * k - k /\ n * k <= M * k /\ M * k \in Nat
      /\ (n >= 1 => p \in Nat)
  BY <1>1, Product
<1>4. StepsPerCycle = M * k + 2
  BY DEF StepsPerCycle
<1>5. StepsLeft(s) = CASE s.pc = "query"   -> StepsPerCycle
                       [] s.pc = "archive" -> p + 1 + k
                       [] s.pc = "upload"  -> p + 1 + k - 1
                       [] s.pc = "clean"   -> p + 1 + k - 2
                       [] s.pc = "drop"    -> p + 1 + Cardinality(s.drops) + 1
                       [] s.pc = "abort"   -> p + 1 + 1
                       [] s.pc = "status"  -> 1
                       [] OTHER            -> 0
  BY DEF StepsLeft
<1> DEFINE nk == n * k
           Mk == M * k
<1> HIDE DEF n, k, M, p, nk, Mk
<1>6. /\ nk \in Nat /\ Mk \in Nat /\ nk <= Mk /\ p = nk - k /\ (n >= 1 => p \in Nat)
      /\ StepsPerCycle = Mk + 2
  BY <1>3, <1>4 DEF nk, Mk
<1> QED
  BY <1>1, <1>2, <1>5, <1>6 DEF InCycle, Between, PCs

LEMMA FinishCounts ==
    ASSUME NEW s, NEW r, NEW d, Counted(s), Counted(r), Finish(s, r, d)
    PROVE  StepsLeft(r) <= (Cardinality(s.todo) - 1) * StepsPerPartition + 1
<1> DEFINE n == Cardinality(s.todo)
           m == Cardinality(r.todo)
           k == StepsPerPartition
<1>1. m = n - 1 /\ n \in Nat /\ m \in Nat /\ k \in Nat /\ n \in Nat \ {0}
  <2>1. s.todo \in SUBSET Days /\ d \in s.todo /\ r.todo = s.todo \ {d}
    BY DEF Counted, Finish
  <2> QED
    BY <2>1, DaysFinite, FS_RemoveElement, CountFacts, StepsPerPartitionType DEF Finish
<1>2. m * k \in Nat /\ (m - 1) * k = m * k - k
  BY <1>1, Product
<1>3. CASE r.pc = "status"
  BY <1>1, <1>2, <1>3 DEF StepsLeft
<1>4. CASE r.pc = "archive"
  <2>1. StepsLeft(r) = (m - 1) * k + 1 + k
    BY <1>4 DEF StepsLeft
  <2> QED
    BY <1>1, <1>2, <2>1
<1> QED
  BY <1>3, <1>4 DEF Finish

LEMMA WorkCounts ==
    ASSUME NEW s, NEW r, Counted(s), Counted(r), s.pc \in PCs, WorkOn(s, r)
    PROVE  StepsLeft(r) < StepsLeft(s)
<1> DEFINE p == (Cardinality(s.todo) - 1) * StepsPerPartition
<1>1. /\ p \in Int /\ StepsPerPartition \in Nat /\ StepsPerPartition >= 4
      /\ Cardinality(s.drops) \in Nat /\ Cardinality(r.drops) \in Nat
      /\ StepsLeft(r) \in Int
  <2>1. StepsPerCycle \in Int
    BY StepsPerPartitionType, BoundsAssumption, Product DEF StepsPerCycle
  <2>2. r.pc \in PCs
    BY DEF WorkOn, Finish, PCs
  <2>3. StepsLeft(r) \in Int
    BY <2>1, <2>2, CountRange
  <2> QED
    BY <2>3, CountFacts, StepsPerPartitionType, Product
<1>2. /\ s.pc = "archive" => StepsLeft(s) = p + 1 + StepsPerPartition
      /\ s.pc = "upload"  => StepsLeft(s) = p + 1 + StepsPerPartition - 1
      /\ s.pc = "clean"   => StepsLeft(s) = p + 1 + StepsPerPartition - 2
      /\ s.pc = "drop"    => StepsLeft(s) = p + 1 + Cardinality(s.drops) + 1
      /\ s.pc = "abort"   => StepsLeft(s) = p + 1 + 1
  BY DEF StepsLeft
<1>3. ASSUME NEW d, Finish(s, r, d)
      PROVE  StepsLeft(r) <= p + 1
  BY <1>3, FinishCounts
<1>4. ASSUME KeepsPlan(s, r)
      PROVE  /\ r.pc = "upload"  => StepsLeft(r) = p + 1 + StepsPerPartition - 1
             /\ r.pc = "clean"   => StepsLeft(r) = p + 1 + StepsPerPartition - 2
             /\ r.pc = "drop"    => StepsLeft(r) = p + 1 + Cardinality(r.drops) + 1
             /\ r.pc = "abort"   => StepsLeft(r) = p + 1 + 1
  BY <1>4 DEF KeepsPlan, StepsLeft
<1> HIDE DEF p
<1>5. CASE \E d : Finish(s, r, d) /\ s.pc \in {"archive", "abort", "drop"}
  BY <1>1, <1>2, <1>3, <1>5
<1>6. CASE s.pc = "archive" /\ r.pc = "upload" /\ KeepsPlan(s, r)
  BY <1>1, <1>2, <1>4, <1>6
<1>7. CASE s.pc = "upload" /\ r.pc \in {"clean", "abort"} /\ KeepsPlan(s, r)
  BY <1>1, <1>2, <1>4, <1>7
<1>8. CASE s.pc = "clean" /\ r.pc = "drop" /\ r.drops = DROP_TABLES /\ KeepsPlan(s, r)
  BY <1>1, <1>2, <1>4, <1>8 DEF StepsPerPartition
<1>9. ASSUME s.pc = "drop", r.pc = "drop", KeepsPlan(s, r),
             NEW t \in s.drops, r.drops = s.drops \ {t}
      PROVE  StepsLeft(r) < StepsLeft(s)
  <2>1. IsFiniteSet(s.drops)
    BY FiniteAssumption, FS_Subset DEF Counted
  <2>2. Cardinality(r.drops) = Cardinality(s.drops) - 1
    BY <1>9, <2>1, FS_RemoveElement
  <2> QED
    BY <1>1, <1>2, <1>4, <1>9, <2>2
<1> QED
  BY <1>5, <1>6, <1>7, <1>8, <1>9 DEF WorkOn

LEMMA StepCounts ==
    ASSUME NEW s, NEW r, Counted(s), Counted(r), s.pc \in InCycle, r.pc \in PCs,
           CycleStep(s, r)
    PROVE  StepsLeft(r) < StepsLeft(s)
<1>0. s.pc \in PCs /\ s.pc \notin Between /\ StepsLeft(s) > 0
      /\ StepsPerCycle \in Int
  <2>1. StepsPerCycle \in Int
    BY StepsPerPartitionType, BoundsAssumption, Product DEF StepsPerCycle
  <2> QED
    BY <2>1, CountRange DEF InCycle
<1>1. r.pc = "select" => StepsLeft(r) = 0
  BY DEF StepsLeft
<1>2. CASE Take(s, r)
  <2> DEFINE n == Cardinality(r.todo)
  <2>1. StepsLeft(s) = StepsPerCycle
    BY <1>2 DEF Take, StepsLeft
  <2>2. CASE r.pc = "archive"
    <3>1. StepsLeft(r) = (n - 1) * StepsPerPartition + 1 + StepsPerPartition
      BY <2>2 DEF StepsLeft
    <3>2. n \in Nat /\ n <= MaxPartitionsPerRun /\ MaxPartitionsPerRun \in Nat
      BY CountFacts, BoundsAssumption
    <3>3. /\ n * StepsPerPartition \in Nat
          /\ (n - 1) * StepsPerPartition = n * StepsPerPartition - StepsPerPartition
          /\ n * StepsPerPartition <= MaxPartitionsPerRun * StepsPerPartition
          /\ MaxPartitionsPerRun * StepsPerPartition \in Nat
      BY <3>2, StepsPerPartitionType, Product
    <3> HIDE DEF n
    <3> QED
      BY <2>1, <3>1, <3>3, StepsPerPartitionType DEF StepsPerCycle
  <2>3. CASE r.pc = "status"
    <3>1. StepsLeft(r) = 1
      BY <2>3 DEF StepsLeft
    <3>2. MaxPartitionsPerRun * StepsPerPartition \in Nat
      BY StepsPerPartitionType, BoundsAssumption, Product
    <3> QED
      BY <2>1, <3>1, <3>2 DEF StepsPerCycle
  <2> QED
    BY <1>0, <1>1, <1>2, <2>2, <2>3 DEF Take
<1>3. CASE WorkOn(s, r)
  BY <1>0, <1>3, WorkCounts
<1>4. CASE s.pc = "status" /\ r.pc = "select"
  BY <1>0, <1>1, <1>4
<1> QED
  BY <1>0, <1>2, <1>3, <1>4 DEF CycleStep

LEMMA AllCounted == CycleInv => \A l \in Loops : Counted(loop[l])
BY CountedLoop

LEMMA AllCountedNext == CycleInv' => \A l \in Loops : Counted(loop'[l])
<1>1. (CycleInv => \A l \in Loops : Counted(loop[l]))'
  BY AllCounted, PTL
<1> QED
  BY <1>1

LEMMA CountsDown ==
    ASSUME CycleInv, CycleInv', [Next]_vars,
           NEW l \in Loops, loop[l].pc \in InCycle, loop'[l] # loop[l]
    PROVE  StepsLeft(loop'[l]) < StepsLeft(loop[l])
<1>0. loop[l].pc \in PCs /\ loop'[l].pc \in PCs
  BY DEF CycleInv, IInv, TypeOK, LoopState
<1>1. Counted(loop[l]) /\ Counted(loop'[l])
  BY AllCounted, AllCountedNext
<1>2. CASE Control
  <2>1. loop'[l] = Dead
    BY <1>2, ControlCycle
  <2>2. StepsLeft(Dead) = 0
    BY DEF StepsLeft, Dead
  <2>3. StepsLeft(loop[l]) > 0
    BY <1>0, <1>1, CountRange
  <2> QED
    BY <2>1, <2>2, <2>3
<1>3. ASSUME NEW m \in Loops, RunLoop(m)
      PROVE  StepsLeft(loop'[l]) < StepsLeft(loop[l])
  <2>1. CycleStep(loop[m], loop'[m]) /\ \A i \in Loops : i # m => loop'[i] = loop[i]
    BY <1>3, CycleSteps DEF CycleInv
  <2>2. m = l
    BY <2>1
  <2> QED
    BY <1>0, <1>1, <2>1, <2>2, StepCounts
<1> QED
  BY <1>2, <1>3, EnvironmentIdles DEF Next

(* A backup cycle ends: it begins with at most StepsPerCycle steps to go   *)
(* and each of them lowers the count, whichever commands fail and whatever *)
(* other loops, the user and the daemon do meanwhile.                      *)
THEOREM CycleIsBounded ==
    Spec => /\ [](\A l \in Loops : StepsLeft(loop[l]) \in 0 .. StepsPerCycle)
            /\ CycleCountsDown
<1>1. CycleInv => \A l \in Loops : StepsLeft(loop[l]) \in 0 .. StepsPerCycle
  BY CountedLoop, CountRange DEF CycleInv, IInv, TypeOK, LoopState
<1>2. CycleInv /\ CycleInv' /\ [Next]_vars =>
        [\A l \in Loops : (loop[l].pc \in InCycle /\ loop'[l] # loop[l]) =>
                             StepsLeft(loop'[l]) < StepsLeft(loop[l])]_vars
  BY CountsDown
<1> QED
  BY <1>1, <1>2, CycleInvariance, PTL DEF Spec, CycleCountsDown

-----------------------------------------------------------------------------
(* What the status is worth.                                               *)

(* When a cycle writes "success" it has taken partitions, and everything   *)
(* a collector ever wrote to any of them is in the bucket; when it writes  *)
(* "failed", every one of them has failed.                                 *)
WrittenStatusIsTrue ==
    [][\A l \in Loops : UpdateStatus(l) =>
         /\ lifecycle'.status = "success" =>
               /\ loop[l].target # {}
               /\ \A d \in loop[l].target : CellsOf(ingested, d) \subseteq remote
         /\ lifecycle'.status = "failed" => loop[l].target \subseteq loop[l].bad]_vars

LEMMA StatusWritten ==
    ASSUME CycleInv, NEW l \in Loops, UpdateStatus(l)
    PROVE  /\ lifecycle'.status = "success" =>
                 /\ loop[l].target # {}
                 /\ \A d \in loop[l].target : CellsOf(ingested, d) \subseteq remote
           /\ lifecycle'.status = "failed" => loop[l].target \subseteq loop[l].bad
<1>1. lifecycle'.status = IF loop[l].target = {} THEN "skipped_no_partitions"
                          ELSE Outcome(loop[l].target, loop[l].bad)
  BY DEF UpdateStatus, StatusRow
<1>2. loop[l].todo = {}
  BY DEF UpdateStatus, CycleInv, PhaseOK
<1>3. \A d \in loop[l].target \ loop[l].bad : CellsOf(ingested, d) \subseteq remote
  BY <1>2 DEF CycleInv, IInv, ArchiveInv, SuccessMeansArchived
<1> QED
  BY <1>1, <1>3 DEF Outcome

(* The status in data_lifecycle_config is not an overstatement at the      *)
(* moment it is written: "success" stands for the whole cycle, not only    *)
(* for the partitions that were reached.                                   *)
THEOREM StatusIsTrue == Spec => WrittenStatusIsTrue
<1>1. CycleInv /\ [Next]_vars =>
        [\A l \in Loops : UpdateStatus(l) =>
           /\ lifecycle'.status = "success" =>
                 /\ loop[l].target # {}
                 /\ \A d \in loop[l].target : CellsOf(ingested, d) \subseteq remote
           /\ lifecycle'.status = "failed" => loop[l].target \subseteq loop[l].bad]_vars
  BY StatusWritten
<1> QED
  BY <1>1, CycleInvariance, PTL DEF Spec, WrittenStatusIsTrue

-----------------------------------------------------------------------------
(* The partitions no cycle reaches.                                        *)

(* Days with data of BACKUP_ONLY tables, which stays in ClickHouse, and    *)
(* the days with so many of them before that a cycle takes no others.      *)
MetadataDays == {d \in Days : \E t \in BACKUP_ONLY_TABLES : <<t, d>> \in ingested}
Crowded(d)   == Cardinality({e \in MetadataDays : e < d}) >= MaxPartitionsPerRun
Starved(d)   == Crowded(d) /\ \A l \in Loops : d \notin loop[l].target

(* No cycle takes a day that is crowded out.                               *)
CrowdedNeverTaken ==
    [][\A l \in Loops : \A d \in Days :
         (Crowded(d) /\ d \in loop'[l].target) => d \in loop[l].target]_vars

LEMMA MetadataStays ==
    ASSUME IInv, NEW d \in MetadataDays
    PROVE  \E t \in Tables : <<t, d>> \in rows
<1>1. PICK t \in BACKUP_ONLY_TABLES : <<t, d>> \in ingested
  BY DEF MetadataDays
<1>2. <<t, d>> \notin ingested \ rows
  BY <1>1, TablesAssumption DEF IInv, ArchiveInv, BackupOnlyKept
<1> QED
  BY <1>1, <1>2 DEF Tables

(* What the query returns, cut off or not, includes every older day that   *)
(* holds metadata.                                                         *)
LEMMA QueryReturnsOlder ==
    ASSUME IInv, NEW l \in Loops, QueryPartitions(l) \/ QueryCut(l)
    PROVE  \E found \in SUBSET Days :
              /\ TakePartitions(l, found)
              /\ \A d \in found : \A e \in MetadataDays : e < d => e \in found
<1> DEFINE all == PartitionsToArchive(loop[l].cfg)
<1>0. all \in SUBSET Days /\ \A d \in Days : d \in Int
  BY PartitionsAreDays, BoundsAssumption DEF Days
<1>1. Cutoff(loop[l].cfg) \in Int
  <2>1. loop[l].pc = "query"
    BY DEF QueryPartitions, QueryCut, TakePartitions
  <2>2. loop[l].cfg \in Config
    BY <2>1 DEF IInv, ArchiveInv, LiveConfig
  <2>3. loop[l].cfg.total \in Int
    <3>1. loop[l].cfg.total \in Totals
      BY <2>2 DEF Config
    <3>2. Totals \subseteq Int
      BY LatenessAssumption
    <3> QED
      BY <3>1, <3>2
  <2>4. today \in Int
    BY BoundsAssumption DEF IInv, TypeOK, Days
  <2> QED
    BY <2>3, <2>4 DEF Cutoff
<1>2. ASSUME NEW d \in all, NEW e \in MetadataDays, e < d
      PROVE  e \in all
  <2>1. d <= Cutoff(loop[l].cfg) /\ d \in Int /\ e \in Days /\ e \in Int
    BY <1>0 DEF PartitionsToArchive, MetadataDays
  <2>2. e <= Cutoff(loop[l].cfg)
    BY <1>1, <1>2, <2>1
  <2> QED
    BY <2>1, <2>2, MetadataStays DEF PartitionsToArchive
<1>3. CASE QueryPartitions(l)
  BY <1>0, <1>2, <1>3 DEF QueryPartitions
<1>4. CASE QueryCut(l)
  <2>1. PICK x \in Days : TakePartitions(l, {d \in all : d < x})
    BY <1>4 DEF QueryCut
  <2> DEFINE found == {d \in all : d < x}
  <2>2. found \in SUBSET Days
    BY <1>0
  <2>3. ASSUME NEW d \in found, NEW e \in MetadataDays, e < d
        PROVE  e \in found
    <3>1. e \in all
      BY <1>2, <2>3
    <3>2. d < x /\ d \in Int /\ e \in Int /\ x \in Int
      BY <1>0, <3>1
    <3> QED
      BY <2>3, <3>1, <3>2
  <2> HIDE DEF found
  <2> QED
    BY <2>1, <2>2, <2>3 DEF found
<1> QED
  BY <1>3, <1>4

LEMMA CrowdedNotOldest ==
    ASSUME NEW d \in Days, Crowded(d), NEW found \in SUBSET Days, d \in found,
           \A e \in MetadataDays : e < d => e \in found
    PROVE  d \notin Oldest(found, MaxPartitionsPerRun)
<1> DEFINE A == {e \in MetadataDays : e < d}
           B == {e \in found : e < d}
<1>1. A \in SUBSET B /\ B \in SUBSET Days
  OBVIOUS
<1>2. Cardinality(A) <= Cardinality(B) /\ Cardinality(A) \in Nat /\ Cardinality(B) \in Nat
  BY <1>1, DaysSubset, DaysFinite
<1>3. Cardinality(A) >= MaxPartitionsPerRun
  BY DEF Crowded
<1> HIDE DEF A
<1>4. ~(Cardinality(B) < MaxPartitionsPerRun)
  BY <1>2, <1>3, BoundsAssumption
<1> QED
  BY <1>4 DEF Oldest

(* Only the query gives a loop new partitions.                             *)
LEMMA QuietTarget ==
    ASSUME IInv, NEW l \in Loops,
           \/ Gate(l) \/ EnterSelect(l) \/ SelectDone(l) \/ SelectStop(l) \/ SelectTick(l)
           \/ QueryFail(l) \/ UpdateStatus(l) \/ UpdateStatusFail(l)
    PROVE  loop'[l].target \in {{}, loop[l].target}
<1>1. CASE QueryFail(l) \/ UpdateStatus(l) \/ UpdateStatusFail(l)
  BY <1>1, EndCycleFacts DEF IInv, QueryFail, UpdateStatus, UpdateStatusFail
<1>2. CASE loop[l].pc \in Between
  <2>1. CycleStep(loop[l], loop'[l])
    BY QuietCycleStep
  <2> QED
    BY <1>2, <2>1 DEF CycleStep, Between, Take, WorkOn, KeepsPlan, NoPlan
<1> QED
  BY <1>1, <1>2 DEF Gate, EnterSelect, SelectDone, SelectStop, SelectTick, Between

LEMMA ControlTarget ==
    ASSUME CycleInv, Control, NEW l \in Loops
    PROVE  loop'[l].target \in {{}, loop[l].target}
<1>1. ASSUME NEW cfg \in Config, Launch(cfg)
      PROVE  loop'[l].target \in {{}, loop[l].target}
  <2> DEFINE r == [Dead EXCEPT !.pc = "gate", !.cfg = cfg]
  <2>1. stopCh + 1 \in Loops
    BY <1>1, BoundsAssumption DEF CycleInv, IInv, TypeOK, Launch, Loops
  <2>2. loop'[l] = r \/ loop'[l] = loop[l]
    BY <1>1, <2>1, GotoFacts DEF Launch, CycleInv, IInv
  <2>3. r.target = {}
    BY DEF Dead
  <2> HIDE DEF r
  <2> QED
    BY <2>2, <2>3
<1>2. CASE \E cfg \in Polled : Start(cfg)
  BY <1>1, <1>2, PolledType DEF Start
<1>3. CASE StartResume
  BY <1>1, <1>3 DEF StartResume, CycleInv, IInv, TypeOK
<1>4. CASE (\E cfg \in Polled : StartAgain(cfg)) \/ Stop \/ Cancel
  BY <1>4 DEF StartAgain, Stop, Cancel
<1>5. CASE AgentRestart
  BY <1>5 DEF AgentRestart, Dead
<1> QED
  BY <1>2, <1>3, <1>4, <1>5 DEF Control

LEMMA CrowdedStep ==
    ASSUME CycleInv, [Next]_vars, NEW l \in Loops, NEW d \in Days, Crowded(d),
           d \in loop'[l].target
    PROVE  d \in loop[l].target
<1>1. ASSUME RunLoop(l)
      PROVE  d \in loop[l].target
  <2>1. CASE QueryPartitions(l) \/ QueryCut(l)
    <3>1. PICK found \in SUBSET Days :
             /\ TakePartitions(l, found)
             /\ \A x \in found : \A e \in MetadataDays : e < x => e \in found
      BY <2>1, QueryReturnsOlder DEF CycleInv
    <3>2. loop'[l].target = Oldest(found, MaxPartitionsPerRun)
      BY <3>1, TakeStep DEF CycleInv, IInv
    <3>3. d \in found
      BY <3>2 DEF Oldest
    <3> QED
      BY <3>1, <3>2, <3>3, CrowdedNotOldest
  <2>2. CASE ~(QueryPartitions(l) \/ QueryCut(l))
    <3>1. WorkOn(loop[l], loop'[l]) => loop'[l].target = loop[l].target
      BY DEF WorkOn, Finish, KeepsPlan
    <3>2. \/ WorkOn(loop[l], loop'[l])
          \/ loop'[l].target \in {{}, loop[l].target}
      BY <1>1, <2>2, QuietTarget, WorkStep DEF RunLoop, Cycle, CycleInv
    <3> QED
      BY <3>1, <3>2
  <2> QED
    BY <2>1, <2>2
<1>2. ASSUME NEW m \in Loops, m # l, RunLoop(m)
      PROVE  d \in loop[l].target
  BY <1>2, CycleSteps DEF CycleInv
<1>3. CASE Control
  BY <1>3, ControlTarget
<1> QED
  BY <1>1, <1>2, <1>3, EnvironmentIdles DEF Next

(* MaxPartitionsPerRun days with metadata are enough to keep every younger *)
(* day from being taken: the query orders by day and does not look at      *)
(* whether a partition was archived before, and metadata is never dropped. *)
THEOREM YoungerDaysWait == Spec => CrowdedNeverTaken
<1>1. CycleInv /\ [Next]_vars =>
        [\A l \in Loops : \A d \in Days :
           (Crowded(d) /\ d \in loop'[l].target) => d \in loop[l].target]_vars
  BY CrowdedStep
<1> QED
  BY <1>1, CycleInvariance, PTL DEF Spec, CrowdedNeverTaken

LEMMA IngestedGrows == [Next]_vars => ingested \subseteq ingested'
<1>1. Control => ingested' = ingested
  BY DEF Control, Start, StartAgain, StartResume, Launch, Stop, Cancel, AgentRestart, storeVars
<1>2. ASSUME NEW l \in Loops, RunLoop(l)
      PROVE  ingested' = ingested
  BY <1>2 DEF RunLoop, Cycle, Gate, EnterSelect, SelectDone, SelectStop, SelectTick,
     QueryFail, QueryPartitions, QueryCut, TakePartitions, CreateBackup, CreateFail,
     Upload, UploadFail, AbortUpload, CleanLocal, DropTable, SkipTable, DropsDone,
     UpdateStatus, UpdateStatusFail, storeVars
<1>3. Environment \/ UNCHANGED vars => ingested \subseteq ingested'
  BY DEF Environment, Ingest, NextDay, SaveSettings, vars
<1> QED
  BY <1>1, <1>2, <1>3 DEF Next

LEMMA CrowdedStable ==
    ASSUME [Next]_vars, NEW d \in Days, Crowded(d)
    PROVE  Crowded(d)'
<1> DEFINE A == {e \in MetadataDays : e < d}
           B == {e \in MetadataDays' : e < d}
<1>1. MetadataDays \subseteq MetadataDays' /\ MetadataDays' \subseteq Days
  BY IngestedGrows DEF MetadataDays
<1>2. A \in SUBSET B /\ B \in SUBSET Days
  BY <1>1
<1> HIDE DEF A, B
<1>3. Cardinality(A) <= Cardinality(B) /\ Cardinality(A) \in Nat /\ Cardinality(B) \in Nat
  BY <1>2, DaysSubset, DaysFinite
<1>4. Cardinality(A) >= MaxPartitionsPerRun
  BY DEF Crowded, A
<1>5. Cardinality(B) >= MaxPartitionsPerRun
  BY <1>3, <1>4, BoundsAssumption
<1> QED
  BY <1>5 DEF Crowded, B

(* So a day that is crowded out while no loop works on it is never backed  *)
(* up, and the data of its DROP_TABLES never moves to the bucket: what     *)
(* the run backup_starvation shows on one instance, for all of them.       *)
THEOREM StarvedForever ==
    ASSUME NEW d \in Days
    PROVE  Spec => [](Starved(d) => []Starved(d))
<1>1. CycleInv /\ [Next]_vars /\ Starved(d) => Starved(d)'
  BY CrowdedStep, CrowdedStable DEF Starved
<1> QED
  BY <1>1, CycleInvariance, PTL DEF Spec
=============================================================================
