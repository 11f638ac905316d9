------------------------- MODULE AgentDaemonProofs -------------------------
(***************************************************************************)
(* Proofs about AgentDaemon for any settings, numbers of polls, saves and  *)
(* restarts: TypeOK, SchedulerInStep, ReadyToPoll, that the daemon uses    *)
(* the scheduler only as module BackupScheduler says, and that it is back  *)
(* at its ticker in a few steps, the scheduler as the row seen wants it.   *)
(*                                                                         *)
(* The poller does not look at the scheduler: it compares two rows.  What  *)
(* ties them together is that the scheduler runs if and only if the row    *)
(* seen last enabled Glacier, except while the one action that makes it so *)
(* is still in the queue (Settled).  So a poll may only add such an action *)
(* when there is none (QueueOK, ActionOK), which is why a poll has to find *)
(* the queue empty.                                                        *)
(***************************************************************************)
EXTENDS AgentDaemon, TLAPS

-----------------------------------------------------------------------------
(* The scheduler, as far as the poller depends on it: the row stays a row, *)
(* its date never goes back, and a goroutine keeps the config it was given.*)

Sound(l) ==
    /\ "cfg" \in DOMAIN loop[l]
    /\ loop[l].pc = "dead" \/ loop[l].cfg \in BS!Config

Sched ==
    /\ today \in BS!Days
    /\ running \in BOOLEAN
    /\ lifecycle \in BS!Row /\ lifecycle.lastAt <= today
    /\ DOMAIN loop = BS!Loops
    /\ \A l \in BS!Loops : Sound(l)

LEMMA GotoSound ==
    ASSUME Sched, NEW l \in BS!Loops, NEW r, BS!Goto(l, r),
           "cfg" \in DOMAIN r, r.pc = "dead" \/ r.cfg \in BS!Config
    PROVE  DOMAIN loop' = BS!Loops /\ \A m \in BS!Loops : Sound(m)'
BY DEF Sched, Sound, BS!Goto

LEMMA EndCycleSound ==
    ASSUME Sched, NEW l \in BS!Loops, loop[l].pc # "dead", BS!EndCycle(l)
    PROVE  DOMAIN loop' = BS!Loops /\ \A m \in BS!Loops : Sound(m)'
<1> DEFINE r == [loop[l] EXCEPT !.pc = "select", !.ch = 0, !.target = {},
                                !.todo = {}, !.bad = {}, !.part = 0, !.drops = {}]
<1>1. "cfg" \in DOMAIN loop[l] /\ loop[l].cfg \in BS!Config
  BY DEF Sched, Sound
<1>2. "cfg" \in DOMAIN r /\ r.cfg = loop[l].cfg
  BY <1>1
<1>3. BS!Goto(l, r)
  BY DEF BS!EndCycle
<1>. QED
  BY <1>1, <1>2, <1>3, GotoSound

LEMMA PartitionDoneSound ==
    ASSUME Sched, NEW l \in BS!Loops, loop[l].pc # "dead", NEW d, NEW f \in BOOLEAN,
           BS!PartitionDone(l, d, f)
    PROVE  DOMAIN loop' = BS!Loops /\ \A m \in BS!Loops : Sound(m)'
<1> DEFINE left == loop[l].todo \ {d}
           p == IF left = {} THEN "status" ELSE "archive"
           r == [loop[l] EXCEPT !.pc = p, !.todo = left, !.part = 0, !.drops = {},
                   !.bad = IF f THEN @ \cup {d} ELSE @]
<1>1. "cfg" \in DOMAIN loop[l] /\ loop[l].cfg \in BS!Config
  BY DEF Sched, Sound
<1>2. "cfg" \in DOMAIN r /\ r.cfg = loop[l].cfg
  BY <1>1
<1>3. BS!Goto(l, r)
  BY DEF BS!PartitionDone
<1>. QED
  BY <1>1, <1>2, <1>3, GotoSound

(* What a step of a loop does to the row and to the loops.                 *)
LEMMA RunLoopLoops ==
    ASSUME Sched, NEW l \in BS!Loops, BS!RunLoop(l)
    PROVE  DOMAIN loop' = BS!Loops /\ \A m \in BS!Loops : Sound(m)'
<1>1. "cfg" \in DOMAIN loop[l] /\ (loop[l].pc # "dead" => loop[l].cfg \in BS!Config)
  BY DEF Sched, Sound
<1>2. "cfg" \in DOMAIN BS!Dead /\ BS!Dead.pc = "dead"
  BY DEF BS!Dead
<1>3. CASE BS!Gate(l) \/ BS!EnterSelect(l) \/ BS!SelectTick(l)
  BY <1>1, <1>3, GotoSound DEF BS!Gate, BS!EnterSelect, BS!SelectTick
<1>4. CASE BS!SelectDone(l) \/ BS!SelectStop(l)
  BY <1>2, <1>4, GotoSound DEF BS!SelectDone, BS!SelectStop, BS!Return
<1>5. CASE BS!QueryFail(l) \/ BS!UpdateStatus(l) \/ BS!UpdateStatusFail(l)
  BY <1>5, EndCycleSound DEF BS!QueryFail, BS!UpdateStatus, BS!UpdateStatusFail
<1>6. CASE BS!QueryPartitions(l) \/ BS!QueryCut(l)
  <2>1. PICK found : BS!TakePartitions(l, found)
    BY <1>6 DEF BS!QueryPartitions, BS!QueryCut
  <2>. QED
    BY <1>1, <2>1, GotoSound DEF BS!TakePartitions
<1>7. CASE (\E d \in BS!Days : BS!CreateBackup(l, d)) \/ BS!Upload(l)
           \/ BS!UploadFail(l) \/ BS!CleanLocal(l)
  BY <1>1, <1>7, GotoSound
     DEF BS!CreateBackup, BS!Upload, BS!UploadFail, BS!CleanLocal
<1>8. CASE (\E d \in BS!Days : BS!CreateFail(l, d)) \/ BS!AbortUpload(l)
           \/ BS!DropsDone(l)
  BY <1>8, PartitionDoneSound DEF BS!CreateFail, BS!AbortUpload, BS!DropsDone
<1>9. CASE \E t \in DROP_TABLES : BS!DropTable(l, t) \/ BS!SkipTable(l, t)
  BY <1>1, <1>9, GotoSound DEF BS!DropTable, BS!SkipTable
<1>. QED
  BY <1>3, <1>4, <1>5, <1>6, <1>7, <1>8, <1>9 DEF BS!RunLoop, BS!Cycle

LEMMA RunLoopRow ==
    ASSUME NEW l \in BS!Loops, BS!RunLoop(l)
    PROVE  /\ UNCHANGED <<today, running>>
           /\ \/ UNCHANGED lifecycle
              \/ /\ loop[l].pc = "status"
                 /\ \E s \in BS!Statuses : lifecycle' = BS!StatusRow(loop[l].cfg, s)
<1>1. CASE BS!UpdateStatus(l)
  BY <1>1 DEF BS!UpdateStatus, BS!Outcome, BS!Statuses, BS!ctrlVars
<1>2. CASE ~BS!UpdateStatus(l)
  BY <1>2 DEF BS!RunLoop, BS!Cycle, BS!Gate, BS!EnterSelect, BS!SelectDone, BS!SelectStop,
     BS!SelectTick, BS!QueryFail, BS!QueryPartitions, BS!QueryCut, BS!TakePartitions,
     BS!CreateBackup, BS!CreateFail, BS!Upload, BS!UploadFail, BS!AbortUpload,
     BS!CleanLocal, BS!DropTable, BS!SkipTable, BS!DropsDone, BS!UpdateStatusFail,
     BS!storeVars, BS!ctrlVars
<1>. QED
  BY <1>1, <1>2

LEMMA RunLoopSched ==
    ASSUME Sched, NEW l \in BS!Loops, BS!RunLoop(l)
    PROVE  Sched' /\ running' = running /\ lifecycle'.lastAt >= lifecycle.lastAt
<1>1. CASE UNCHANGED lifecycle
  BY <1>1, RunLoopLoops, RunLoopRow DEF Sched, BS!Row, BS!Days, BS!Never
<1>2. CASE loop[l].pc = "status"
           /\ \E s \in BS!Statuses : lifecycle' = BS!StatusRow(loop[l].cfg, s)
  <2>1. loop[l].cfg \in BS!Config
    BY <1>2 DEF Sched, Sound
  <2>2. lifecycle' \in BS!Row /\ lifecycle'.lastAt = today
    BY <1>2, <2>1 DEF Sched, BS!StatusRow, BS!Config, BS!Row
  <2>. QED
    BY <2>2, RunLoopLoops, RunLoopRow DEF Sched, BS!Days
<1>. QED
  BY <1>1, <1>2, RunLoopRow

-----------------------------------------------------------------------------

(* The inductive invariant.                                                *)

Switches == {"backup_start", "backup_stop"}

(* An action that starts or stops the scheduler, still to be executed, is  *)
(* due, and starts it with a row that has been in the table.               *)
InStep(a) ==
    /\ a.type = "backup_start" =>
           /\ ~running /\ last.glacier = 1
           /\ a.cfg \in BS!Config
           /\ a.cfg.glacier = 1 /\ a.cfg.lastAt <= lifecycle.lastAt
    /\ a.type = "backup_stop" => running /\ last.glacier = 0

(* There is at most one of them, in the queue or being executed.           *)
QueueOK ==
    /\ pc \in {"ready", "pollS3", "stopped"} => queue = <<>>
    /\ pc = "pollLifecycle" =>
           /\ Len(queue) <= 1
           /\ \A i \in 1 .. Len(queue) : queue[i].type = "s3_activate"
    /\ \A i \in 1 .. Len(queue) : InStep(queue[i])
    /\ \A i, j \in 1 .. Len(queue) :
           queue[i].type \in Switches /\ queue[j].type \in Switches => i = j

ActionOK ==
    /\ InStep(action)
    /\ pc = "exec" => action \in Actions
    /\ pc # "exec" => action = NoAction
    /\ action.type \in Switches =>
           \A i \in 1 .. Len(queue) : queue[i].type \notin Switches

(* The scheduler is as the row seen last wants it, or will be.             *)
Settled ==
    \/ pc = "stopped"
    \/ action.type \in Switches
    \/ \E i \in 1 .. Len(queue) : queue[i].type \in Switches
    \/ running <=> last.glacier = 1

StateOK ==
    /\ pc \in {"ready", "queue", "stopped"} => state = "idle"
    /\ pc \in {"pollS3", "pollLifecycle", "heartbeat"} => state = "polling"

IInv ==
    /\ TypeOK
    /\ Sched
    /\ StateOK
    /\ QueueOK
    /\ ActionOK
    /\ Settled

-----------------------------------------------------------------------------
(* Steps beside the main goroutine.                                        *)

LEMMA NoActionType == NoAction.type \notin Switches
BY DEF NoAction, Switches

(* A step that leaves the main goroutine and what it relies on alone.      *)
LEMMA AsideKeeps ==
    ASSUME IInv, Sched', lifecycle'.lastAt >= lifecycle.lastAt,
           UNCHANGED <<running, mainVars>>
    PROVE  StateOK' /\ QueueOK' /\ ActionOK' /\ Settled'
<1>1. \A a : InStep(a) => InStep(a)'
  <2>. SUFFICES ASSUME NEW a, InStep(a) PROVE InStep(a)'
    OBVIOUS
  <2>1. a.type = "backup_start" => a.cfg.lastAt <= lifecycle'.lastAt
    BY DEF InStep, IInv, Sched, BS!Row, BS!Config, BS!Days, BS!Never
  <2>. QED
    BY <2>1 DEF InStep, mainVars
<1>2. UNCHANGED <<pc, state, queue, action, last>>
  BY DEF mainVars
<1>3. StateOK'
  BY <1>2 DEF IInv, StateOK
<1>4. QueueOK'
  BY <1>1, <1>2 DEF IInv, QueueOK
<1>5. ActionOK'
  BY <1>1, <1>2 DEF IInv, ActionOK
<1>6. Settled'
  BY <1>2 DEF IInv, Settled
<1>. QED
  BY <1>3, <1>4, <1>5, <1>6

LEMMA AsideTypes ==
    ASSUME IInv, UNCHANGED <<s3Request, wish, saves, mainVars>>
    PROVE  TypeOK'
BY DEF IInv, TypeOK, mainVars

LEMMA GoroutineKeeps ==
    ASSUME IInv, NEW l \in BS!Loops, Goroutine(l)
    PROVE  IInv'
<1>1. Sched' /\ running' = running /\ lifecycle'.lastAt >= lifecycle.lastAt
  BY RunLoopSched DEF IInv, Goroutine
<1>2. TypeOK'
  BY AsideTypes DEF Goroutine, cfgVars
<1>. QED
  BY <1>1, <1>2, AsideKeeps DEF IInv, Goroutine

LEMMA TerminateKeeps ==
    ASSUME IInv, Terminate
    PROVE  IInv'
<1>1. UNCHANGED <<today, running, lifecycle, loop>>
  BY DEF Terminate, BS!Cancel, BS!storeVars
<1>2. Sched' /\ lifecycle'.lastAt >= lifecycle.lastAt
  BY <1>1 DEF IInv, Sched, Sound, BS!Row, BS!Days, BS!Never
<1>3. TypeOK'
  BY AsideTypes DEF Terminate, cfgVars
<1>. QED
  BY <1>1, <1>2, <1>3, AsideKeeps DEF IInv, Terminate

LEMMA SaveKeeps ==
    ASSUME IInv, NEW n \in Totals, NEW g \in {0, 1}, NEW f \in Frequencies,
           Save(n, g, f)
    PROVE  IInv'
<1>1. UNCHANGED <<today, running, loop>>
  BY DEF Save, BS!SaveSettings, BS!ctrlVars
<1>2. lifecycle' \in BS!Row /\ lifecycle'.lastAt = lifecycle.lastAt
  BY DEF Save, BS!SaveSettings, IInv, Sched, BS!Row
<1>3. Sched' /\ lifecycle'.lastAt >= lifecycle.lastAt
  BY <1>1, <1>2 DEF IInv, Sched, Sound, BS!Row, BS!Days, BS!Never
<1>4. TypeOK'
  BY DaemonBounds DEF Save, IInv, TypeOK, Settings, mainVars
<1>. QED
  BY <1>1, <1>3, <1>4, AsideKeeps DEF IInv, Save

LEMMA RequestS3Keeps ==
    ASSUME IInv, RequestS3
    PROVE  IInv'
<1>1. Sched' /\ running' = running /\ lifecycle'.lastAt >= lifecycle.lastAt
  BY DEF RequestS3, bsVars, IInv, Sched, Sound, BS!Row, BS!Days, BS!Never
<1>2. TypeOK'
  BY DEF RequestS3, IInv, TypeOK, mainVars
<1>. QED
  BY <1>1, <1>2, AsideKeeps DEF IInv, RequestS3

LEMMA StutterKeeps == IInv /\ UNCHANGED vars => IInv'
<1>. SUFFICES ASSUME IInv, UNCHANGED vars PROVE IInv'
  OBVIOUS
<1>1. Sched' /\ running' = running /\ lifecycle'.lastAt >= lifecycle.lastAt
  BY DEF vars, bsVars, IInv, Sched, Sound, BS!Row, BS!Days, BS!Never
<1>2. TypeOK'
  BY AsideTypes DEF vars, cfgVars
<1>. QED
  BY <1>1, <1>2, AsideKeeps DEF IInv, vars

-----------------------------------------------------------------------------
(* Steps of a poll.                                                        *)

LEMMA SchedKept == Sched /\ UNCHANGED <<today, running, lifecycle, loop>> => Sched'
BY DEF Sched, Sound

LEMMA BeginPollKeeps ==
    ASSUME IInv, BeginPoll
    PROVE  IInv'
<1>1. TypeOK' /\ Sched'
  BY SchedKept DEF BeginPoll, Transition, IInv, TypeOK, PCs, States, bsVars, cfgVars
<1>2. StateOK' /\ QueueOK'
  BY DEF BeginPoll, Transition, IInv, StateOK, QueueOK, InStep, bsVars
<1>3. ActionOK' /\ Settled'
  BY DEF BeginPoll, IInv, ActionOK, Settled, InStep, bsVars
<1>. QED
  BY <1>1, <1>2, <1>3 DEF IInv

LEMMA PollLifecycleFailKeeps ==
    ASSUME IInv, PollLifecycleFail
    PROVE  IInv'
<1>1. TypeOK' /\ Sched'
  BY SchedKept DEF PollLifecycleFail, IInv, TypeOK, PCs, bsVars, cfgVars
<1>2. StateOK' /\ QueueOK'
  BY DEF PollLifecycleFail, IInv, StateOK, QueueOK, InStep, bsVars
<1>3. ActionOK' /\ Settled'
  BY DEF PollLifecycleFail, IInv, ActionOK, Settled, InStep, bsVars
<1>. QED
  BY <1>1, <1>2, <1>3 DEF IInv

LEMMA HeartbeatKeeps ==
    ASSUME IInv, Heartbeat
    PROVE  IInv'
<1>1. TypeOK' /\ Sched'
  BY SchedKept DEF Heartbeat, Transition, IInv, TypeOK, PCs, States, bsVars, cfgVars
<1>2. StateOK' /\ QueueOK'
  BY DEF Heartbeat, Transition, IInv, StateOK, QueueOK, InStep, bsVars
<1>3. ActionOK' /\ Settled'
  BY DEF Heartbeat, IInv, ActionOK, Settled, InStep, bsVars
<1>. QED
  BY <1>1, <1>2, <1>3 DEF IInv

LEMMA QueueEmptyKeeps ==
    ASSUME IInv, QueueEmpty
    PROVE  IInv'
<1>1. TypeOK' /\ Sched'
  BY SchedKept DEF QueueEmpty, IInv, TypeOK, PCs, bsVars, cfgVars
<1>2. StateOK' /\ QueueOK'
  BY DEF QueueEmpty, IInv, StateOK, QueueOK, InStep, bsVars
<1>3. ActionOK' /\ Settled'
  BY DEF QueueEmpty, IInv, ActionOK, Settled, InStep, bsVars
<1>. QED
  BY <1>1, <1>2, <1>3 DEF IInv

LEMMA PollS3Keeps ==
    ASSUME IInv, PollS3
    PROVE  IInv'
<1>1. /\ queue' \in Seq(Actions) /\ Len(queue') <= 1
      /\ \A i \in 1 .. Len(queue') : queue'[i].type = "s3_activate"
  <2> DEFINE a == [type |-> "s3_activate", cfg |-> BS!NoConfig]
  <2>1. a \in Actions /\ a.type = "s3_activate"
    BY DEF Actions, Types
  <2>2. queue' = <<>> \/ queue' = <<a>>
    BY DEF PollS3, S3Actions, IInv, QueueOK
  <2>. HIDE DEF a
  <2>3. CASE queue' = <<>>
    BY <2>3
  <2>4. CASE queue' = <<a>>
    BY <2>1, <2>4
  <2>. QED
    BY <2>2, <2>3, <2>4
<1>2. lastS3' \in {0, 1, BS!Never}
  BY DEF PollS3, IInv, TypeOK
<1>3. TypeOK' /\ Sched'
  BY <1>1, <1>2, SchedKept DEF PollS3, IInv, TypeOK, PCs, bsVars, cfgVars
<1>4. StateOK'
  BY DEF PollS3, IInv, StateOK
<1>5. QueueOK'
  BY <1>1 DEF PollS3, QueueOK, InStep, Switches
<1>6. ActionOK'
  BY NoActionType DEF PollS3, IInv, ActionOK, InStep, Switches
<1>7. Settled'
  <2>1. running <=> last.glacier = 1
    BY NoActionType DEF PollS3, IInv, Settled, QueueOK, ActionOK, Switches
  <2>. QED
    BY <2>1 DEF PollS3, Settled, bsVars
<1>. QED
  BY <1>3, <1>4, <1>5, <1>6, <1>7 DEF IInv

LEMMA DequeueKeeps ==
    ASSUME IInv, Dequeue
    PROVE  IInv'
<1>1. /\ Len(queue) >= 1 /\ action' = queue[1] /\ action' \in Actions
      /\ queue' \in Seq(Actions) /\ Len(queue') = Len(queue) - 1
      /\ \A i \in 1 .. Len(queue') : queue'[i] = queue[i + 1]
  BY DEF Dequeue, IInv, TypeOK
<1>2. \A i \in 1 .. Len(queue') : i + 1 \in 1 .. Len(queue)
  BY <1>1 DEF IInv, TypeOK
<1>3. TypeOK' /\ Sched'
  BY <1>1, SchedKept DEF Dequeue, IInv, TypeOK, PCs, States, bsVars, cfgVars
<1>4. StateOK'
  BY DEF Dequeue, StateOK
<1>5. \A a : InStep(a) => InStep(a)'
  BY DEF Dequeue, bsVars, InStep
<1>6. QueueOK'
  BY <1>1, <1>2, <1>5 DEF Dequeue, IInv, QueueOK
<1>7. ActionOK'
  <2>1. InStep(queue[1])
    BY <1>1 DEF IInv, QueueOK
  <2>2. queue[1].type \in Switches =>
            \A i \in 1 .. Len(queue') : queue[i + 1].type \notin Switches
    BY <1>1, <1>2 DEF IInv, QueueOK
  <2>. QED
    BY <1>1, <1>5, <2>1, <2>2 DEF Dequeue, ActionOK
<1>8. Settled'
  <2>1. ASSUME NEW i \in 1 .. Len(queue), queue[i].type \in Switches
        PROVE  Settled'
    <3>1. CASE i = 1
      BY <1>1, <2>1, <3>1 DEF Settled
    <3>2. CASE i # 1
      BY <1>1, <2>1, <3>2 DEF Settled, IInv, TypeOK
    <3>. QED
      BY <3>1, <3>2
  <2>2. CASE running <=> last.glacier = 1
    BY <2>2 DEF Dequeue, bsVars, Settled
  <2>. QED
    BY <2>1, <2>2, NoActionType DEF Dequeue, IInv, Settled, ActionOK
<1>. QED
  BY <1>3, <1>4, <1>6, <1>7, <1>8 DEF IInv

(* What a changed row adds to the queue of a poll.                         *)
Switch == [type |-> IF lifecycle.glacier = 1 THEN "backup_start" ELSE "backup_stop",
           cfg  |-> BS!ConfigOf(lifecycle)]

LEMMA LifecycleAdds ==
    ASSUME Sched, NEW new, new = LifecycleActions(lifecycle)
    PROVE  /\ new \in Seq(Actions) /\ Len(new) <= 2
           /\ \A i \in 1 .. Len(new) : new[i].type \in Switches =>
                  i = 1 /\ lifecycle.glacier # last.glacier /\ new[i] = Switch
           /\ lifecycle.glacier # last.glacier =>
                  Len(new) >= 1 /\ new[1].type \in Switches
<1> DEFINE ttl == [type |-> "ttl_update", cfg |-> BS!ConfigOf(lifecycle)]
<1>1. BS!ConfigOf(lifecycle) \in BS!Config
  BY DEF Sched, BS!Row, BS!Config, BS!ConfigOf
<1>2. Switch \in Actions /\ ttl \in Actions
  BY <1>1 DEF Switch, Actions, Types
<1>3. Switch.type \in Switches /\ ttl.type \notin Switches
  BY DEF Switches, Switch
<1>4. GlacierActions(lifecycle) =
          IF lifecycle.glacier = last.glacier THEN <<>> ELSE <<Switch>>
  BY DEF GlacierActions, Backup, Switch
<1>5. new = GlacierActions(lifecycle) \o <<>> \/ new = GlacierActions(lifecycle) \o <<ttl>>
  BY DEF LifecycleActions, Backup
<1>. HIDE DEF ttl
<1>6. CASE lifecycle.glacier = last.glacier
  <2>1. new = <<>> \/ new = <<ttl>>
    BY <1>2, <1>4, <1>5, <1>6
  <2>2. CASE new = <<>>
    BY <1>6, <2>2
  <2>3. CASE new = <<ttl>>
    BY <1>2, <1>3, <1>6, <2>3
  <2>. QED
    BY <2>1, <2>2, <2>3
<1>7. CASE lifecycle.glacier # last.glacier
  <2>1. new = <<Switch>> \/ new = <<Switch, ttl>>
    BY <1>2, <1>4, <1>5, <1>7
  <2>2. CASE new = <<Switch>>
    BY <1>2, <1>3, <1>7, <2>2
  <2>3. CASE new = <<Switch, ttl>>
    BY <1>2, <1>3, <1>7, <2>3
  <2>. QED
    BY <2>1, <2>2, <2>3
<1>. QED
  BY <1>6, <1>7

LEMMA PollLifecycleKeeps ==
    ASSUME IInv, PollLifecycle
    PROVE  IInv'
<1> DEFINE new == LifecycleActions(lifecycle)
<1>1. /\ new \in Seq(Actions) /\ Len(new) <= 2
      /\ \A i \in 1 .. Len(new) : new[i].type \in Switches =>
             i = 1 /\ lifecycle.glacier # last.glacier /\ new[i] = Switch
      /\ lifecycle.glacier # last.glacier =>
             Len(new) >= 1 /\ new[1].type \in Switches
  BY LifecycleAdds DEF IInv
<1>2. queue' = queue \o new /\ queue \in Seq(Actions) /\ Len(queue) <= 1
  BY DEF PollLifecycle, IInv, TypeOK, QueueOK
<1>. HIDE DEF new
<1>3. /\ queue' \in Seq(Actions) /\ Len(queue') = Len(queue) + Len(new)
      /\ \A i \in 1 .. Len(queue') :
             \/ i \in 1 .. Len(queue) /\ queue'[i] = queue[i]
             \/ i - Len(queue) \in 1 .. Len(new) /\ queue'[i] = new[i - Len(queue)]
  BY <1>1, <1>2
<1>4. \A i \in 1 .. Len(queue) : queue[i].type \notin Switches
  BY DEF PollLifecycle, IInv, QueueOK, Switches
<1>5. \A i \in 1 .. Len(queue') : queue'[i].type \in Switches =>
          /\ i = Len(queue) + 1 /\ queue'[i] = Switch
          /\ lifecycle.glacier # last.glacier
  BY <1>1, <1>2, <1>3, <1>4
<1>6. /\ action = NoAction /\ UNCHANGED <<action, running, lifecycle>>
      /\ last' = SettingsOf(lifecycle) /\ last'.glacier = lifecycle.glacier
  BY DEF PollLifecycle, IInv, ActionOK, bsVars, SettingsOf
<1>7. last.glacier \in {0, 1} /\ lifecycle.glacier \in {0, 1}
      /\ last' \in Settings
  BY <1>6 DEF IInv, TypeOK, Settings, Unseen, Sched, SettingsOf, BS!Row
<1>8. running <=> last.glacier = 1
  BY <1>4, <1>6, NoActionType DEF PollLifecycle, IInv, Settled
<1>9. TypeOK' /\ Sched'
  BY <1>1, <1>2, <1>3, <1>7, SchedKept
     DEF PollLifecycle, IInv, TypeOK, PCs, bsVars, cfgVars
<1>10. StateOK'
  BY DEF PollLifecycle, IInv, StateOK
<1>11. ASSUME lifecycle.glacier # last.glacier
       PROVE  InStep(Switch)'
  <2>1. Switch' = Switch
    BY <1>6 DEF Switch
  <2>2. /\ Switch.cfg \in BS!Config /\ Switch.cfg.glacier = lifecycle.glacier
        /\ Switch.cfg.lastAt = lifecycle.lastAt
    BY DEF Switch, BS!ConfigOf, IInv, Sched, BS!Row, BS!Config
  <2>3. Switch.type = IF lifecycle.glacier = 1 THEN "backup_start" ELSE "backup_stop"
    BY DEF Switch
  <2>4. lifecycle.lastAt <= lifecycle.lastAt
    BY DEF IInv, Sched, BS!Row, BS!Days, BS!Never
  <2>. QED
    BY <1>6, <1>7, <1>8, <1>11, <2>1, <2>2, <2>3, <2>4 DEF InStep
<1>12. QueueOK'
  <2>1. ASSUME NEW i \in 1 .. Len(queue') PROVE InStep(queue[i])'
    <3>1. CASE queue'[i].type \in Switches
      <4>1. queue'[i] = Switch /\ lifecycle.glacier # last.glacier
        BY <1>5, <3>1
      <4>2. Switch' = Switch
        BY <1>6 DEF Switch
      <4>. QED
        BY <1>11, <4>1, <4>2 DEF InStep
    <3>2. CASE queue'[i].type \notin Switches
      BY <3>2 DEF InStep, Switches
    <3>. QED
      BY <3>1, <3>2
  <2>2. \A i, k \in 1 .. Len(queue') :
            queue'[i].type \in Switches /\ queue'[k].type \in Switches => i = k
    BY <1>5
  <2>3. pc' = "heartbeat"
    BY DEF PollLifecycle
  <2>. QED
    BY <2>1, <2>2, <2>3 DEF QueueOK
<1>13. ActionOK'
  BY <1>6, NoActionType DEF PollLifecycle, ActionOK, InStep, Switches
<1>14. Settled'
  <2>1. CASE lifecycle.glacier = last.glacier
    BY <1>6, <1>8, <2>1 DEF Settled
  <2>2. CASE lifecycle.glacier # last.glacier
    <3>1. Len(queue) + 1 \in 1 .. Len(queue') /\ queue'[Len(queue) + 1] = new[1]
      BY <1>1, <1>2, <2>2
    <3>. QED
      BY <1>1, <2>2, <3>1 DEF Settled
  <2>. QED
    BY <2>1, <2>2
<1>. QED
  BY <1>9, <1>10, <1>12, <1>13, <1>14 DEF IInv

-----------------------------------------------------------------------------
(* The actions of the queue.                                               *)

(* An action that is no switch.                                            *)
LEMMA OtherKeeps ==
    ASSUME IInv, ExecuteS3 \/ ExecuteTTL
    PROVE  IInv'
<1>1. UNCHANGED bsVars /\ action.type \notin Switches /\ Finish
      /\ s3Request' \in {s3Request, 0} /\ pc = "exec"
  BY DEF ExecuteS3, ExecuteTTL, Executing, Switches
<1>2. TypeOK' /\ Sched'
  BY <1>1, SchedKept DEF Finish, IInv, TypeOK, PCs, States, bsVars
<1>3. StateOK'
  BY <1>1 DEF Finish, StateOK
<1>4. QueueOK'
  BY <1>1 DEF Finish, bsVars, IInv, QueueOK, InStep
<1>5. ActionOK'
  BY <1>1, NoActionType DEF Finish, ActionOK, InStep, Switches
<1>6. Settled'
  BY <1>1, NoActionType DEF Finish, bsVars, IInv, Settled
<1>. QED
  BY <1>2, <1>3, <1>4, <1>5, <1>6 DEF IInv

(* A switch leaves the queue without one.                                  *)
LEMMA SwitchKeeps ==
    ASSUME IInv, Sched', pc = "exec", action.type \in Switches, Finish,
           running' <=> last.glacier = 1, UNCHANGED <<lifecycle, s3Request>>
    PROVE  IInv'
<1>1. TypeOK'
  BY DEF Finish, IInv, TypeOK, PCs, States
<1>2. StateOK'
  BY DEF Finish, StateOK
<1>3. \A i \in 1 .. Len(queue) : queue[i].type \notin Switches
  BY DEF IInv, ActionOK
<1>4. QueueOK'
  BY <1>3 DEF Finish, IInv, QueueOK, InStep, Switches
<1>5. ActionOK'
  BY NoActionType DEF Finish, ActionOK, InStep, Switches
<1>6. Settled'
  BY DEF Finish, Settled
<1>. QED
  BY <1>1, <1>2, <1>4, <1>5, <1>6 DEF IInv

LEMMA ExecuteStartKeeps ==
    ASSUME IInv, ExecuteStart
    PROVE  IInv'
<1>1. /\ action.type = "backup_start" /\ pc = "exec" /\ last.glacier = 1
      /\ action.cfg \in BS!Config
  BY DEF ExecuteStart, Executing, IInv, ActionOK, InStep
<1>2. /\ running' = TRUE /\ UNCHANGED <<today, lifecycle>>
      /\ BS!Goto(stopCh + 1, [BS!Dead EXCEPT !.pc = "gate", !.cfg = action.cfg])
  BY DEF ExecuteStart, BS!Start, BS!Launch, BS!storeVars
<1>3. \A l \in BS!Loops : Sound(l)'
  <2> DEFINE r == [BS!Dead EXCEPT !.pc = "gate", !.cfg = action.cfg]
  <2>1. "cfg" \in DOMAIN r /\ r.cfg = action.cfg
    BY DEF BS!Dead
  <2>. HIDE DEF r
  <2>. QED
    BY <1>1, <1>2, <2>1 DEF r, BS!Goto, IInv, Sched, Sound
<1>4. Sched'
  BY <1>2, <1>3 DEF BS!Goto, IInv, Sched
<1>. QED
  BY <1>1, <1>2, <1>4, SwitchKeeps DEF ExecuteStart, Switches

LEMMA ExecuteStopKeeps ==
    ASSUME IInv, ExecuteStop
    PROVE  IInv'
<1>1. action.type = "backup_stop" /\ pc = "exec" /\ last.glacier = 0
  BY DEF ExecuteStop, Executing, IInv, ActionOK, InStep
<1>2. running' = FALSE /\ UNCHANGED <<today, lifecycle, loop>>
  BY DEF ExecuteStop, BS!Stop, BS!StopRunning, BS!storeVars
<1>3. Sched'
  BY <1>2 DEF IInv, Sched, Sound
<1>. QED
  BY <1>1, <1>2, <1>3, SwitchKeeps DEF ExecuteStop, Switches

-----------------------------------------------------------------------------
(* The life of the process.                                                *)

LEMMA ShutdownKeeps ==
    ASSUME IInv, Shutdown
    PROVE  IInv'
<1>1. UNCHANGED <<today, lifecycle, loop>> /\ running' \in BOOLEAN
  BY DEF Shutdown, BS!Stop, BS!StopRunning, BS!storeVars, bsVars, IInv, Sched
<1>2. Sched'
  BY <1>1 DEF IInv, Sched, Sound
<1>3. TypeOK' /\ StateOK'
  BY DEF Shutdown, cfgVars, IInv, TypeOK, PCs, StateOK
<1>4. queue' = <<>> /\ action' = NoAction
  BY DEF Shutdown, IInv, QueueOK, ActionOK
<1>5. QueueOK' /\ ActionOK' /\ Settled'
  BY <1>4, NoActionType
     DEF Shutdown, QueueOK, ActionOK, Settled, InStep, Switches
<1>. QED
  BY <1>2, <1>3, <1>5 DEF IInv

LEMMA RestartKeeps ==
    ASSUME IInv, Restart
    PROVE  IInv'
<1>1. /\ UNCHANGED <<today, lifecycle>> /\ running' = FALSE
      /\ loop' = [l \in BS!Loops |-> BS!Dead]
  BY DEF Restart, BS!AgentRestart, BS!storeVars
<1>2. Sched'
  BY <1>1 DEF IInv, Sched, Sound, BS!Dead
<1>3. TypeOK' /\ StateOK'
  BY DaemonBounds
     DEF Restart, cfgVars, IInv, TypeOK, PCs, States, StateOK
<1>4. queue' = <<>> /\ action' = NoAction /\ last'.glacier = 0
  BY DEF Restart, Unseen
<1>5. QueueOK' /\ ActionOK' /\ Settled'
  BY <1>1, <1>4, NoActionType
     DEF Restart, QueueOK, ActionOK, Settled, InStep, Switches
<1>. QED
  BY <1>2, <1>3, <1>5 DEF IInv

-----------------------------------------------------------------------------
(* All steps together.                                                     *)

LEMMA InitInv == Init => IInv
<1>. SUFFICES ASSUME Init PROVE IInv
  OBVIOUS
<1>1. Sched
  <2>1. lifecycle \in BS!Row /\ lifecycle.lastAt = -1 /\ today = 0
    BY DEF Init, BS!Init, BS!Never
  <2>2. 0 \in BS!Days
    BY DaemonBounds DEF BS!Days
  <2>3. DOMAIN loop = BS!Loops /\ \A l \in BS!Loops : Sound(l)
    BY DEF Init, BS!Init, Sound, BS!Dead
  <2>4. running \in BOOLEAN
    BY DEF Init, BS!Init
  <2>. QED
    BY <2>1, <2>2, <2>3, <2>4 DEF Sched
<1>2. TypeOK
  BY <1>1, DaemonBounds
     DEF Init, TypeOK, SettingsOf, Settings, Sched, BS!Row, PCs, States
<1>3. StateOK /\ QueueOK /\ ActionOK /\ Settled
  BY NoActionType
     DEF Init, BS!Init, StateOK, QueueOK, ActionOK, Settled, InStep, Switches,
         Unseen
<1>. QED
  BY <1>1, <1>2, <1>3 DEF IInv

LEMMA MainKeeps == IInv /\ Main => IInv'
BY BeginPollKeeps, PollS3Keeps, PollLifecycleKeeps, PollLifecycleFailKeeps,
   HeartbeatKeeps, DequeueKeeps, QueueEmptyKeeps, OtherKeeps, ExecuteStartKeeps,
   ExecuteStopKeeps, ShutdownKeeps
   DEF Main, Poll, Execute

LEMMA NextKeeps == IInv /\ [Next]_vars => IInv'
<1>. SUFFICES ASSUME IInv, [Next]_vars PROVE IInv'
  OBVIOUS
<1>1. CASE Main
  BY <1>1, MainKeeps
<1>2. CASE \E l \in 1 .. MaxStarts : Goroutine(l)
  BY <1>2, GoroutineKeeps DEF BS!Loops
<1>3. CASE Terminate \/ Restart
  BY <1>3, TerminateKeeps, RestartKeeps
<1>4. CASE \E n \in Totals, g \in {0, 1}, f \in Frequencies : Save(n, g, f)
  BY <1>4, SaveKeeps
<1>5. CASE RequestS3
  BY <1>5, RequestS3Keeps
<1>6. CASE UNCHANGED vars
  BY <1>6, StutterKeeps
<1>. QED
  BY <1>1, <1>2, <1>3, <1>4, <1>5, <1>6 DEF Next

(* Each step of the daemon is one of the scheduler, as BackupScheduler     *)
(* expects it to be used, or none.                                         *)
LEMMA StepIsScheduler == IInv /\ [Next]_vars => [BS!Next]_(BS!vars)
<1>. SUFFICES ASSUME IInv, [Next]_vars PROVE [BS!Next]_(BS!vars)
  OBVIOUS
<1>1. CASE ExecuteStart
  <2>1. action.cfg \in BS!Polled
    BY <1>1 DEF ExecuteStart, Executing, IInv, ActionOK, InStep, BS!Polled
  <2>. QED
    BY <1>1, <2>1 DEF ExecuteStart, BS!Next, BS!Control
<1>2. CASE ExecuteStop
  BY <1>2 DEF ExecuteStop, BS!Next, BS!Control
<1>3. CASE Poll \/ Dequeue \/ QueueEmpty \/ ExecuteS3 \/ ExecuteTTL
  BY <1>3 DEF Poll, BeginPoll, PollS3, PollLifecycle, PollLifecycleFail,
              Heartbeat, Dequeue, QueueEmpty, ExecuteS3, ExecuteTTL, bsVars,
              BS!vars
<1>4. CASE Shutdown
  BY <1>4 DEF Shutdown, bsVars, BS!vars, BS!Next, BS!Control
<1>5. CASE \E l \in 1 .. MaxStarts : Goroutine(l)
  BY <1>5 DEF Goroutine, BS!Next, BS!Loops
<1>6. CASE Terminate \/ Restart
  BY <1>6 DEF Terminate, Restart, BS!Next, BS!Control
<1>7. CASE \E n \in Totals, g \in {0, 1}, f \in Frequencies : Save(n, g, f)
  BY <1>7 DEF Save, BS!Next, BS!Environment
<1>8. CASE RequestS3 \/ UNCHANGED vars
  BY <1>8 DEF RequestS3, vars, bsVars, BS!vars
<1>. QED
  BY <1>1, <1>2, <1>3, <1>4, <1>5, <1>6, <1>7, <1>8
     DEF Next, Main, Execute

-----------------------------------------------------------------------------
(* The inductive invariant holds in every state.                           *)
THEOREM DaemonInvariance == Spec => []IInv
BY InitInv, NextKeeps, PTL DEF Spec

(* The types of the configuration, of the state machine and of its queue,  *)
(* which never holds more than three actions.                              *)
THEOREM DaemonTypes == Spec => []TypeOK
<1>1. IInv => TypeOK
  BY DEF IInv
<1>. QED
  BY <1>1, DaemonInvariance, PTL

(* processQueue starts the scheduler only when it is stopped and stops it  *)
(* only when it runs.                                                      *)
THEOREM StartsAlternate == Spec => []SchedulerInStep
<1>1. IInv => SchedulerInStep
  BY DEF IInv, ActionOK, InStep, SchedulerInStep
<1>. QED
  BY <1>1, DaemonInvariance, PTL

(* A poll never starts over the actions of the one before.                 *)
THEOREM NeverBusy == Spec => []ReadyToPoll
<1>1. IInv => ReadyToPoll
  BY DEF IInv, StateOK, QueueOK, ReadyToPoll
<1>. QED
  BY <1>1, DaemonInvariance, PTL

(* The daemon uses the scheduler as BackupScheduler says it is used, so    *)
(* that what is proved of the scheduler holds inside the daemon.           *)
THEOREM SchedulerIsUsedAsAssumed == Spec => BS!Spec
<1>1. Init => BS!Init
  BY DEF Init
<1>. QED
  BY <1>1, StepIsScheduler, DaemonInvariance, PTL DEF Spec, BS!Spec
-----------------------------------------------------------------------------
(* FollowsRow, up to its fairness: when the daemon waits for its ticker    *)
(* the scheduler is as the row seen last wants it, and it waits for the    *)
(* next tick a few steps after the last one.                               *)
SchedulerAsSeen == pc = "ready" => (running <=> last.glacier = 1)

(* The steps of the main goroutine until it is at its ticker again: those  *)
(* of the poll, two for each action and one to find the queue empty.       *)
StepsOfPoll == 10

StepsLeft ==
    CASE pc = "pollS3"        -> StepsOfPoll
      [] pc = "pollLifecycle" -> 2 * Len(queue) + 7
      [] pc = "heartbeat"     -> 2 * Len(queue) + 2
      [] pc = "queue"         -> 2 * Len(queue) + 1
      [] pc = "exec"          -> 2 * Len(queue) + 2
      [] OTHER                -> 0

(* A step of the main goroutine lowers the count but for the tick, which   *)
(* comes when it is 0; the loops, the user and a restart do not raise it.  *)
PollCountsDown ==
    [][/\ Main /\ StepsLeft > 0 => StepsLeft' < StepsLeft
       /\ ~Main => StepsLeft' <= StepsLeft]_vars

LEMMA QueueType == TypeOK => queue \in Seq(Actions) /\ Len(queue) \in 0 .. 3
<1>. SUFFICES ASSUME TypeOK PROVE queue \in Seq(Actions) /\ Len(queue) \in 0 .. 3
  OBVIOUS
<1>1. queue \in Seq(Actions) /\ Len(queue) <= 3
  BY DEF TypeOK
<1>2. Len(queue) \in Nat
  BY <1>1
<1>3. \A n \in Nat : n <= 3 => n \in 0 .. 3
  OBVIOUS
<1>. QED
  BY <1>1, <1>2, <1>3

LEMMA StepsLeftRange ==
    ASSUME IInv
    PROVE  /\ StepsLeft \in 0 .. StepsOfPoll
           /\ StepsLeft = 0 <=> pc \in {"ready", "stopped"}
<1>1. Len(queue) \in 0 .. 3 /\ pc \in PCs
  BY QueueType DEF IInv, TypeOK
<1>2. pc = "pollLifecycle" => Len(queue) <= 1
  BY DEF IInv, QueueOK
<1>3. \A n \in 0 .. 3 :
          /\ 2 * n + 2 \in 1 .. StepsOfPoll /\ 2 * n + 1 \in 1 .. StepsOfPoll
          /\ n <= 1 => 2 * n + 7 \in 1 .. StepsOfPoll
  BY DEF StepsOfPoll
<1>4. StepsOfPoll \in 1 .. StepsOfPoll
  BY DEF StepsOfPoll
<1>5. StepsLeft \in 1 .. StepsOfPoll \/ (StepsLeft = 0 /\ pc \in {"ready", "stopped"})
  BY <1>1, <1>2, <1>3, <1>4 DEF StepsLeft, PCs
<1>6. StepsLeft \in 1 .. StepsOfPoll => pc \notin {"ready", "stopped"}
  BY DEF StepsLeft
<1>. QED
  BY <1>5, <1>6 DEF StepsOfPoll

LEMMA MainCounts ==
    ASSUME IInv, IInv', Main, StepsLeft > 0
    PROVE  StepsLeft' < StepsLeft
<1>0. /\ TypeOK /\ QueueOK
      /\ queue \in Seq(Actions) /\ Len(queue) \in 0 .. 3
      /\ queue' \in Seq(Actions) /\ Len(queue') \in 0 .. 3
  <2>1. (TypeOK => queue \in Seq(Actions) /\ Len(queue) \in 0 .. 3)'
    BY QueueType, PTL
  <2>. QED
    BY <2>1, QueueType DEF IInv
<1>1. pc \notin {"ready", "stopped"}
  BY StepsLeftRange
<1>2. CASE PollS3
  <2>1. queue = <<>> /\ pc = "pollS3" /\ pc' = "pollLifecycle"
    BY <1>0, <1>2 DEF PollS3, QueueOK
  <2>2. Len(queue') <= 1
    BY <2>1 DEF IInv, QueueOK
  <2>. QED
    BY <1>0, <2>1, <2>2 DEF StepsLeft, StepsOfPoll
<1>3. CASE PollLifecycle
  <2> DEFINE new == LifecycleActions(lifecycle)
  <2>1. new \in Seq(Actions) /\ Len(new) <= 2
    BY LifecycleAdds DEF IInv
  <2>2. queue' = queue \o new
    BY <1>3 DEF PollLifecycle
  <2> HIDE DEF new
  <2>3. Len(queue') <= Len(queue) + 2
    BY <1>0, <2>1, <2>2
  <2>. QED
    BY <1>0, <1>3, <2>3 DEF PollLifecycle, StepsLeft
<1>4. CASE PollLifecycleFail \/ Heartbeat \/ QueueEmpty
  BY <1>0, <1>4 DEF PollLifecycleFail, Heartbeat, QueueEmpty, StepsLeft
<1>5. CASE Dequeue
  <2>1. Len(queue') = Len(queue) - 1
    BY <1>0, <1>5 DEF Dequeue
  <2>. QED
    BY <1>0, <1>5, <2>1 DEF Dequeue, StepsLeft
<1>6. CASE Execute
  BY <1>0, <1>6 DEF Execute, ExecuteS3, ExecuteStart, ExecuteStop, ExecuteTTL, Executing,
     Finish, StepsLeft
<1>. QED
  BY <1>1, <1>2, <1>3, <1>4, <1>5, <1>6 DEF Main, Poll, BeginPoll, Shutdown

(* Everybody else leaves the main goroutine where it is or starts it anew. *)
LEMMA AsideCounts ==
    ASSUME IInv, IInv', [Next]_vars, ~Main
    PROVE  StepsLeft' <= StepsLeft
<1>1. CASE Restart
  <2>1. StepsLeft' = 0
    BY <1>1 DEF Restart, StepsLeft
  <2>. QED
    BY <2>1, StepsLeftRange DEF StepsOfPoll
<1>2. CASE UNCHANGED <<pc, queue>>
  <2>1. StepsLeft' = StepsLeft
    BY <1>2 DEF StepsLeft
  <2>. QED
    BY <2>1, StepsLeftRange DEF StepsOfPoll
<1>. QED
  BY <1>1, <1>2 DEF Next, Goroutine, Terminate, Save, RequestS3, mainVars, vars

(* The main loop never waits for its ticker with a scheduler that runs     *)
(* although the row seen last has Glacier off, or the other way round,     *)
(* across rows the scheduler writes itself, failed queries and restarts.   *)
THEOREM SchedulerFollowsRowSeen == Spec => []SchedulerAsSeen
<1>1. IInv => SchedulerAsSeen
  BY NoActionType DEF IInv, QueueOK, ActionOK, Settled, SchedulerAsSeen
<1>. QED
  BY <1>1, DaemonInvariance, PTL

(* A poll and the actions it has queued take ten steps of the main         *)
(* goroutine at most, whatever the queries answer: no action queues        *)
(* another one.  The count is 0 at the ticker and after shutdown only.     *)
THEOREM PollIsBounded ==
    Spec => /\ [](/\ StepsLeft \in 0 .. StepsOfPoll
                  /\ StepsLeft = 0 <=> pc \in {"ready", "stopped"})
            /\ PollCountsDown
<1>1. IInv => /\ StepsLeft \in 0 .. StepsOfPoll
              /\ StepsLeft = 0 <=> pc \in {"ready", "stopped"}
  BY StepsLeftRange
<1>2. IInv /\ IInv' /\ [Next]_vars =>
        [/\ Main /\ StepsLeft > 0 => StepsLeft' < StepsLeft
         /\ ~Main => StepsLeft' <= StepsLeft]_vars
  BY MainCounts, AsideCounts
<1>. QED
  BY <1>1, <1>2, DaemonInvariance, PTL DEF Spec, PollCountsDown
=============================================================================
