------------------------------- MODULE Engine -------------------------------
(***************************************************************************)
(* The whole program at work: the scheduler engine together with the HTTP  *)
(* handlers of package api that change its tables, on one store.  A        *)
(* handler that is one transaction is one action; trigger and retry enter  *)
(* the scheduler (Trigger, Retry) and proceed there.                       *)
(*                                                                         *)
(* Requests the code refuses (404, 400, 409) change nothing and are        *)
(* stuttering steps: their conditions are guards here.                     *)
(***************************************************************************)
EXTENDS Scheduler

CONSTANTS
  CreateInputs,  \* bodies of POST /api/v1/tasks
  UpdateInputs,  \* bodies of PUT /api/v1/tasks/{id}
  Ops,           \* the kinds of request the clients send
  MaxRequests    \* bound: requests served in a behaviour

AllOps == {"create", "update", "delete", "enable", "pause", "trigger", "retry",
           "deleteRun"}

ASSUME EngineAssumption ==
  /\ CreateInputs \subseteq TaskInput
  /\ UpdateInputs \subseteq TaskInput
  /\ Ops \subseteq AllOps
  /\ MaxRequests \in Nat

VARIABLE requests  \* requests served so far

engine == <<pc, job, due, tickAt, ranAt, pend, phase, since>>
vars   == <<tasks, runs, daily, born, issued, now, phase, since, pc, job, due,
            tickAt, ranAt, pend, crashes, faults, requests>>

Admit(op) ==
  /\ phase = "serving"
  /\ op \in Ops
  /\ requests < MaxRequests
  /\ requests' = requests + 1

-----------------------------------------------------------------------------
(* handleCreateTask and ScheduleNew.                                       *)

(* A *bool of the body: nil leaves the default.                            *)
Flag(given, default) == IF given = "nil" THEN default ELSE given = "true"

Draft(id, in) ==
  [id |-> id, kind |-> in.kind, specType |-> in.specType,
   cronExpr |-> in.cronExpr, delay |-> in.delay,
   enabled |-> Flag(in.enabled, TRUE), paused |-> Flag(in.paused, FALSE),
   maxRetries |-> in.maxRetries,
   nextRunAt |-> IF in.specType = "once" THEN in.nextRunAt ELSE 0,
   lastRunAt |-> 0]

BugFirstRun(t, at) ==  \* although Next answers strictly later than asked
  CASE t.specType = "cron"    -> ComputeNextCron(t, IF at < MaxTime THEN at + 1 ELSE at)
    [] t.specType = "delayed" -> at + t.delay
    [] t.specType = "once"    -> IF t.nextRunAt = 0 THEN at ELSE t.nextRunAt

(* Defined for a valid task; the cron expression must have a next match.   *)
FirstRun(t, at) ==
  CASE t.specType = "cron"    -> ComputeNextCron(t, at)
    [] t.specType = "delayed" -> at + t.delay
    [] t.specType = "once"    -> IF t.nextRunAt = 0 THEN at ELSE t.nextRunAt

ScheduleNew(t, at) ==
  /\ Validate(t)
  /\ t.specType = "cron" => ComputeNextCron(t, at) # 0
  /\ tasks' = CreateTask(tasks, [t EXCEPT !.nextRunAt = FirstRun(t, at)])

(* ScheduleNew reads the clock before it waits for its transaction.        *)
handleCreateTask ==
  /\ Admit("create")
  /\ \E id \in TaskId \ born, in \in CreateInputs, at \in Readings :
       /\ ScheduleNew(Draft(id, in), at)
       /\ born' = born \cup {id}
  /\ UNCHANGED <<runs, daily, issued, now, engine, limits>>

-----------------------------------------------------------------------------
(* handleUpdateTask: read, merge, validate and write in one transaction.   *)

(* A field left at its zero value keeps the column.                        *)
Given(value, zero, column) == IF value = zero THEN column ELSE value

(* next_run_at is taken for a task that is, or now becomes, of spec once.  *)
Rescheduled(cur, in) ==
  IF Given(in.specType, "", cur.specType) = "once"
  THEN Given(in.nextRunAt, 0, cur.nextRunAt) ELSE cur.nextRunAt

BugMerge(cur, in) ==  \* the row is built anew from the body
  [Draft(cur.id, in) EXCEPT !.kind = Given(in.kind, "", cur.kind),
                            !.specType = Given(in.specType, "", cur.specType),
                            !.nextRunAt = Rescheduled(cur, in)]

Merge(cur, in) ==
  [id |-> cur.id, kind |-> Given(in.kind, "", cur.kind),
   specType |-> Given(in.specType, "", cur.specType),
   cronExpr |-> in.cronExpr, delay |-> in.delay,
   enabled |-> Flag(in.enabled, cur.enabled),
   paused |-> Flag(in.paused, cur.paused),
   maxRetries |-> Given(in.maxRetries, 0, cur.maxRetries),
   nextRunAt |-> Rescheduled(cur, in), lastRunAt |-> cur.lastRunAt]

handleUpdateTask ==
  /\ Admit("update")
  /\ \E id \in TaskId, in \in UpdateInputs :
       /\ tasks[id] # NoRow
       /\ Validate(Merge(tasks[id], in))
       /\ tasks' = UpdateTask(tasks, Merge(tasks[id], in))
  /\ UNCHANGED <<runs, daily, ids, now, engine, limits>>

handleDeleteTask ==
  /\ Admit("delete")
  /\ \E id \in TaskId :
       /\ tasks[id] # NoRow
       /\ runs'  = DeleteRunsOf(runs, id)
       /\ tasks' = DeleteTask(tasks, id)
  /\ UNCHANGED <<daily, ids, now, engine, limits>>

setTaskEnabled ==
  /\ Admit("enable")
  /\ \E id \in TaskId, b \in BOOLEAN :
       /\ tasks[id] # NoRow
       /\ tasks' = SetEnabled(tasks, id, b)
  /\ UNCHANGED <<runs, daily, ids, now, engine, limits>>

setTaskPaused ==
  /\ Admit("pause")
  /\ \E id \in TaskId, b \in BOOLEAN :
       /\ tasks[id] # NoRow
       /\ tasks' = SetPaused(tasks, id, b)
  /\ UNCHANGED <<runs, daily, ids, now, engine, limits>>

handleDeleteRun ==
  /\ Admit("deleteRun")
  /\ \E r \in RunId : runs[r] # NoRow /\ runs' = DeleteRun(runs, r)
  /\ UNCHANGED <<tasks, daily, ids, now, engine, limits>>

handleTriggerTask(h) == Admit("trigger") /\ \E id \in TaskId : TriggerLoad(h, id)

handleRetryRun(h) == Admit("retry") /\ \E r \in RunId : RetryLoad(h, r)

-----------------------------------------------------------------------------
Init ==
  /\ tasks = [id \in TaskId |-> NoRow]
  /\ runs  = [r \in RunId |-> NoRow]
  /\ daily = [d \in Day |-> NoStats]
  /\ born = {} /\ issued = 0
  /\ now = 1
  /\ phase = "down" /\ since = 0
  /\ pc  = [p \in Procs |-> "idle"]
  /\ job = [p \in Procs |-> NoJob]
  /\ due = {} /\ tickAt = 0 /\ ranAt = 0 /\ pend = {}
  /\ crashes = 0 /\ faults = 0 /\ requests = 0

Request ==
  \/ handleCreateTask \/ handleUpdateTask \/ handleDeleteTask
  \/ setTaskEnabled \/ setTaskPaused \/ handleDeleteRun
  \/ \E h \in Handlers : handleTriggerTask(h) \/ handleRetryRun(h)

Tick ==
  /\ TickBegin \/ TickScan \/ DispatchInsert \/ DispatchExecute \/ DispatchAdvance
  /\ UNCHANGED requests

Serve(h) ==
  /\ TriggerInsert(h) \/ RetryInsert(h) \/ RequestExecute(h)
  /\ UNCHANGED requests

Boot ==
  /\ Restart \/ RecoverOrphans \/ RecoverExecute \/ Start
  /\ UNCHANGED requests

(* The process dies, a transaction fails, time passes.                     *)
Environment ==
  /\ \/ Crash
     \/ TickFails
     \/ \E h \in Handlers : RequestFails(h)
     \/ RecoverFails
     \/ ClockTick
  /\ UNCHANGED requests

Next == Request \/ Tick \/ (\E h \in Handlers : Serve(h)) \/ Boot \/ Environment

Spec == Init /\ [][Next]_vars

(* The ticker channel keeps firing, a goroutine that waits for the store's *)
(* connection gets it sooner or later (OperationsEnd of Connection), main  *)
(* goes through its start-up, and a process that died is started again.    *)
(* No fairness of clients, of failures or of the clock.                    *)
Fairness ==
  /\ WF_vars(Tick)
  /\ \A h \in Handlers : WF_vars(Serve(h))
  /\ WF_vars(Boot)

FairSpec == Spec /\ Fairness
=============================================================================
