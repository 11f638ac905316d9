---------------------------- MODULE AgentDaemon ----------------------------
(***************************************************************************)
(* The main loop of the DB agent (internal/agent/daemon.go, poller.go,     *)
(* state.go) around the backup scheduler of BackupScheduler.               *)
(*                                                                         *)
(* One goroutine polls the two configuration tables, turns what changed    *)
(* since the last poll into a queue of actions and runs them one after the *)
(* other.  Actions of the scheduler only start and stop its goroutines,    *)
(* which go on beside the main loop and write the lifecycle row the poller *)
(* reads.  Activation of S3 (module S3Activator) is one long step here.    *)
(***************************************************************************)
EXTENDS Integers, Sequences, FiniteSets

CONSTANTS
    DROP_TABLES, BACKUP_ONLY_TABLES, MaxPartitionsPerRun, Totals, Frequencies,
    LateDays, MaxDay, MaxStarts,  \* see BackupScheduler
    MaxSaves,                     \* bound: settings saved by the user
    MaxRestarts                   \* bound: restarts of the agent

ASSUME DaemonBounds == MaxSaves \in Nat /\ MaxRestarts \in Nat /\ MaxDay \in Nat

VARIABLES
    (* those of BackupScheduler *)
    today, rows, ingested, localNames, localCells, remote, lifecycle,
    cancelled, running, stopCh, closed, frequency, pending, loop,
    (* the configuration *)
    s3Request,  \* activate_requested of s3_config
    wish,       \* history: the settings as the user saved them last
    saves,      \* history: settings saved so far
    (* the main goroutine *)
    pc,         \* next step
    state,      \* StateMachine.current
    queue,      \* StateMachine.queue
    action,     \* the action being executed
    lastS3,     \* activate_requested seen by the last poll
    last,       \* lastLifecycleConfig: what the last poll saw
    restarts    \* history: restarts so far

BS == INSTANCE BackupScheduler

bsVars   == <<today, rows, ingested, localNames, localCells, remote, lifecycle,
              cancelled, running, stopCh, closed, frequency, pending, loop>>
cfgVars  == <<s3Request, wish, saves>>
mainVars == <<pc, state, queue, action, lastS3, last, restarts>>
vars     == <<bsVars, cfgVars, mainVars>>

Settings == [total : Totals, glacier : {0, 1}]
Unseen   == [total |-> -1, glacier |-> 0]  \* nothing has been polled yet
SettingsOf(row) == [total |-> row.total, glacier |-> row.glacier]

States  == {"idle", "polling", "action_pending", "executing", "error"}
Types   == {"s3_activate", "backup_start", "backup_stop", "ttl_update"}
Actions == [type : Types, cfg : BS!Config \cup {BS!NoConfig}]
NoAction == [type |-> "none", cfg |-> BS!NoConfig]
PCs     == {"ready", "pollS3", "pollLifecycle", "heartbeat", "queue", "exec", "stopped"}

TypeOK ==
    /\ s3Request \in {0, 1}
    /\ wish \in Settings
    /\ saves \in 0 .. MaxSaves
    /\ pc \in PCs
    /\ state \in States
    /\ queue \in Seq(Actions) /\ Len(queue) <= 3
    /\ action \in Actions \cup {NoAction}
    /\ lastS3 \in {0, 1, BS!Never}
    /\ last \in Settings \cup {Unseen}
    /\ restarts \in 0 .. MaxRestarts

-----------------------------------------------------------------------------
(* StateMachine.                                                           *)

Targets(from) ==
    CASE from = "idle"           -> {"polling"}
      [] from = "polling"        -> {"idle", "action_pending"}
      [] from = "action_pending" -> {"executing"}
      [] from = "executing"      -> {"idle", "error"}
      [] from = "error"          -> {"idle"}

Transition(to) == to \in Targets(state) /\ state' = to

-----------------------------------------------------------------------------
(* The changes the poller reacts to, as sequences of actions.              *)

(* Mutant: a request is queued a second time, for the retry.               *)
S3ActionsTwice(request) ==
    IF request = 1 /\ lastS3 # 1
    THEN <<[type |-> "s3_activate", cfg |-> BS!NoConfig],
           [type |-> "s3_activate", cfg |-> BS!NoConfig]>> ELSE <<>>

S3Actions(request) ==
    IF request = 1 /\ lastS3 # 1
    THEN <<[type |-> "s3_activate", cfg |-> BS!NoConfig]>> ELSE <<>>

Backup(type, row) == <<[type |-> type, cfg |-> BS!ConfigOf(row)]>>

GlacierActions(row) ==
    IF row.glacier = last.glacier THEN <<>>
    ELSE Backup(IF row.glacier = 1 THEN "backup_start" ELSE "backup_stop", row)

(* Mutant: a change of the days restarts the scheduler.                    *)
LifecycleActionsRestart(row) ==
    GlacierActions(row) \o
        (IF last = Unseen \/ row.total = last.total \/ row.glacier = 0 THEN <<>>
         ELSE Backup("backup_start", row))

(* The first poll of a process only starts a scheduler that is enabled.    *)
LifecycleActions(row) ==
    GlacierActions(row) \o
        (IF last = Unseen \/ row.total = last.total THEN <<>>
         ELSE Backup("ttl_update", row))

-----------------------------------------------------------------------------
(* One poll.                                                               *)

(* The ping needs a context that is not cancelled; without it nothing      *)
(* happens.                                                                *)
BeginPoll ==
    /\ pc = "ready"
    /\ ~cancelled
    /\ Transition("polling")
    /\ pc' = "pollS3"
    /\ UNCHANGED <<bsVars, cfgVars, queue, action, lastS3, last, restarts>>

(* A query that fails leaves what was seen last for the next poll.         *)
PollS3 ==
    /\ pc = "pollS3"
    /\ pc' = "pollLifecycle"
    /\ \/ /\ ~cancelled
          /\ queue' = queue \o S3Actions(s3Request)
          /\ lastS3' = s3Request
       \/ UNCHANGED <<queue, lastS3>>
    /\ UNCHANGED <<bsVars, cfgVars, state, action, last, restarts>>

(* Mutant: the lifecycle row is only loaded once.                          *)
PollLifecycleOnce ==
    /\ pc = "pollLifecycle"
    /\ ~cancelled
    /\ last = Unseen
    /\ pc' = "heartbeat"
    /\ queue' = queue \o LifecycleActions(lifecycle)
    /\ last' = SettingsOf(lifecycle)
    /\ UNCHANGED <<bsVars, cfgVars, state, action, lastS3, restarts>>

PollLifecycle ==
    /\ pc = "pollLifecycle"
    /\ ~cancelled
    /\ pc' = "heartbeat"
    /\ queue' = queue \o LifecycleActions(lifecycle)
    /\ last' = SettingsOf(lifecycle)
    /\ UNCHANGED <<bsVars, cfgVars, state, action, lastS3, restarts>>

PollLifecycleFail ==
    /\ pc = "pollLifecycle"
    /\ pc' = "heartbeat"
    /\ UNCHANGED <<bsVars, cfgVars, state, queue, action, lastS3, last, restarts>>

Heartbeat ==
    /\ pc = "heartbeat"
    /\ Transition("idle")
    /\ pc' = "queue"
    /\ UNCHANGED <<bsVars, cfgVars, queue, action, lastS3, last, restarts>>

-----------------------------------------------------------------------------
(* processQueue.                                                           *)

Dequeue ==
    /\ pc = "queue"
    /\ queue # <<>>
    /\ action' = Head(queue)
    /\ queue' = Tail(queue)
    /\ state' = "executing"
    /\ pc' = "exec"
    /\ UNCHANGED <<bsVars, cfgVars, lastS3, last, restarts>>

QueueEmpty ==
    /\ pc = "queue"
    /\ queue = <<>>
    /\ pc' = "ready"
    /\ UNCHANGED <<bsVars, cfgVars, state, queue, action, lastS3, last, restarts>>

Executing(type) == pc = "exec" /\ action.type = type

(* Mutant: the state is left as it is.                                     *)
FinishExecuting ==
    /\ action' = NoAction
    /\ pc' = "queue"
    /\ UNCHANGED <<wish, saves, state, queue, lastS3, last, restarts>>

(* An error of the action is logged; the state is idle all the same.       *)
Finish ==
    /\ state' = "idle"
    /\ action' = NoAction
    /\ pc' = "queue"
    /\ UNCHANGED <<wish, saves, queue, lastS3, last, restarts>>

(* The request is reset, or the activation is skipped or fails.            *)
ExecuteS3 ==
    /\ Executing("s3_activate")
    /\ s3Request' \in {s3Request, 0}
    /\ Finish
    /\ UNCHANGED bsVars

ExecuteStart ==
    /\ Executing("backup_start")
    /\ BS!Start(action.cfg)
    /\ Finish
    /\ UNCHANGED s3Request

ExecuteStop ==
    /\ Executing("backup_stop")
    /\ BS!Stop
    /\ Finish
    /\ UNCHANGED s3Request

ExecuteTTL ==
    /\ Executing("ttl_update")
    /\ Finish
    /\ UNCHANGED <<bsVars, s3Request>>

-----------------------------------------------------------------------------
(* The life of the process.                                                *)

(* shutdown: the scheduler is told to stop, its goroutines are not waited  *)
(* for.                                                                    *)
Shutdown ==
    /\ pc = "ready"
    /\ cancelled
    /\ BS!Stop \/ (~running /\ UNCHANGED bsVars)
    /\ pc' = "stopped"
    /\ UNCHANGED <<cfgVars, state, queue, action, lastS3, last, restarts>>

Terminate ==
    /\ restarts < MaxRestarts
    /\ BS!Cancel
    /\ UNCHANGED <<cfgVars, mainVars>>

(* After a shutdown or a crash the service manager starts the agent again. *)
Restart ==
    /\ restarts < MaxRestarts
    /\ BS!AgentRestart
    /\ pc' = "ready"
    /\ state' = "idle"
    /\ queue' = <<>>
    /\ action' = NoAction
    /\ lastS3' = BS!Never
    /\ last' = Unseen
    /\ restarts' = restarts + 1
    /\ UNCHANGED cfgVars

-----------------------------------------------------------------------------
(* The user.                                                               *)

Save(total, glacier, freq) ==
    /\ saves < MaxSaves
    /\ saves' = saves + 1
    /\ BS!SaveSettings(total, glacier, freq)
    /\ wish' = [total |-> total, glacier |-> glacier]
    /\ UNCHANGED <<s3Request, mainVars>>

RequestS3 ==
    /\ s3Request = 0
    /\ s3Request' = 1
    /\ UNCHANGED <<bsVars, wish, saves, mainVars>>

-----------------------------------------------------------------------------
Init ==
    /\ BS!Init
    /\ s3Request = 0
    /\ wish = SettingsOf(lifecycle)
    /\ saves = 0
    /\ pc = "ready"
    /\ state = "idle"
    /\ queue = <<>>
    /\ action = NoAction
    /\ lastS3 = BS!Never
    /\ last = Unseen
    /\ restarts = 0

Poll    == BeginPoll \/ PollS3 \/ PollLifecycle \/ PollLifecycleFail \/ Heartbeat
Execute == ExecuteS3 \/ ExecuteStart \/ ExecuteStop \/ ExecuteTTL
Main    == Poll \/ Dequeue \/ QueueEmpty \/ Execute \/ Shutdown

Goroutine(l) == BS!RunLoop(l) /\ UNCHANGED <<cfgVars, mainVars>>

Next ==
    \/ Main
    \/ \E l \in 1 .. MaxStarts : Goroutine(l)
    \/ Terminate
    \/ Restart
    \/ \E n \in Totals, g \in {0, 1}, f \in Frequencies : Save(n, g, f)
    \/ RequestS3

Spec == Init /\ [][Next]_vars

(* The goroutines are scheduled, a query that is made again and again      *)
(* succeeds in the end, and a service that has stopped is started again.   *)
Fairness ==
    /\ WF_vars(Main)
    /\ SF_vars(PollLifecycle)
    /\ WF_vars(pc = "stopped" /\ Restart)
    /\ \A l \in 1 .. MaxStarts : WF_vars(Goroutine(l))

FairSpec == Spec /\ Fairness

-----------------------------------------------------------------------------
(* Properties.                                                             *)

(* The scheduler is never started while it runs nor stopped while it does  *)
(* not: the changes the poller sees alternate, across restarts, failed     *)
(* queries and rows written by the scheduler itself.                       *)
SchedulerInStep ==
    pc = "exec" =>
        /\ action.type = "backup_start" => ~running
        /\ action.type = "backup_stop" => running

(* When its ticker fires the daemon is idle with nothing left to do, so    *)
(* that a poll is never refused and the actions of two polls never mix.    *)
ReadyToPoll == pc = "ready" => state = "idle" /\ queue = <<>>

(* In the end the scheduler runs if and only if the row enables Glacier.   *)
FollowsRow == <>[](running <=> lifecycle.glacier = 1)

-----------------------------------------------------------------------------
(* What the repository says and the code does not do.                      *)

(* At most one loop of the scheduler waits for its next tick: Stop stops   *)
(* the scheduler.                                                          *)
OneLoopListens == BS!OneLoopListens

(* A user who turns Glacier off and leaves it off has it off.              *)
GlacierStaysOff == <>[](wish.glacier = 0) => <>[]~running
=============================================================================
