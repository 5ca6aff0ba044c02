--------------------------- MODULE HistoryProofs ---------------------------
(***************************************************************************)
(* What the tables tell of the past.  How each step of the engine changes  *)
(* a row of tasks and a row of runs; that every id a goroutine carries was *)
(* given out and agrees with its row, and what follows for the retry       *)
(* budget and for cron tasks; the history of executions; the slots.        *)
(***************************************************************************)
EXTENDS EngineProofs

(* The jobs whose run is to be executed next.                              *)
Carried == {job[p] : p \in Executing} \cup pend

(* A new run and who creates it: the ticker for a due task, a request      *)
(* goroutine for the task it has read.                                     *)
Creates(p, t, row) ==
  /\ p \in Procs /\ t \in ValidTask /\ row \in Run
  /\ row.status \in Live /\ row.task = t.id
  /\ InsertRun(p, t, row)
  /\ \/ /\ p = Ticker /\ pc[p] = "dispatch" /\ t \in due /\ due' = due \ {t}
        /\ row = FirstAttempt(t, "schedule", tickAt, t.nextRunAt)
     \/ /\ p \in Handlers /\ pc[p] \in {"insert", "retry"} /\ t = job[p].task
        /\ row.triggeredBy # "schedule" /\ due' = due
        /\ row.attempt = IF pc[p] = "retry" THEN job[p].attempt + 1 ELSE 1
  /\ UNCHANGED <<tasks, daily, born, now, phase, tickAt, ranAt, pend, limits>>

Creation == \E p \in Procs, t \in ValidTask, row \in Run : Creates(p, t, row)
Execution == \E j \in Carried : ExecuteRun(j)

(* What a step may do to the row of a task.                                *)
Born(id) ==
  /\ handleCreateTask
  /\ id \notin born /\ born' = born \cup {id}
  /\ tasks'[id] \in ValidTask /\ tasks'[id].lastRunAt = 0
  /\ tasks'[id].specType = "cron" =>
       \E at \in 1..now : tasks'[id].nextRunAt = CronNext[tasks'[id].cronExpr][at]

Rewritten(id) ==
  /\ handleUpdateTask /\ "update" \in Ops
  /\ tasks'[id].lastRunAt = tasks[id].lastRunAt

Flagged(id) ==
  \E b \in BOOLEAN : \/ tasks'[id] = [tasks[id] EXCEPT !.enabled = b]
                     \/ tasks'[id] = [tasks[id] EXCEPT !.paused = b]

Ran(id) ==
  \E j \in Carried : /\ ExecuteRun(j) /\ j.task.id = id
                     /\ tasks'[id] = [tasks[id] EXCEPT !.lastRunAt = j.at]

Advanced(id) ==
  /\ DispatchAdvance /\ id = job[Ticker].task.id
  /\ \E at \in Time :
       /\ ranAt <= at /\ at <= now
       /\ tasks'[id] = [tasks[id] EXCEPT
                          !.nextRunAt = NextAfter(job[Ticker].task, at),
                          !.lastRunAt = tickAt]

TaskChange(id) ==
  \/ tasks'[id] = tasks[id]
  \/ tasks'[id] = NoRow
  \/ Born(id)
  \/ tasks[id] # NoRow /\ (Rewritten(id) \/ Flagged(id) \/ Ran(id) \/ Advanced(id))

(* What a step may do to the row of a run.                                 *)
RunChange(r) ==
  \/ runs'[r] = runs[r]
  \/ runs'[r] = NoRow
  \/ /\ runs[r] = NoRow /\ r = issued'
     /\ \E p \in Procs, t \in ValidTask : Creates(p, t, runs'[r])
  \/ /\ runs[r] # NoRow
     /\ \E j \in Carried : /\ ExecuteRun(j) /\ j.run = r
                           /\ runs'[r] = [runs[r] EXCEPT !.status = Outcome(j.task)]
  \/ /\ RecoverOrphans
     /\ \/ /\ runs[r] # NoRow /\ runs[r].status = "running"
           /\ runs'[r] = [runs[r] EXCEPT !.status = "orphaned"]
        \/ /\ runs[r] = NoRow /\ r > issued
           /\ \E o \in Retriable, at \in Time :
                runs'[r] = RetryRun(runs[o].task, runs[o].attempt, at)

-----------------------------------------------------------------------------
LEMMA CreationSteps ==
  ASSUME TypeOK,
         DispatchInsert \/ \E h \in Handlers : TriggerInsert(h) \/ RetryInsert(h)
  PROVE  Creation
<1> USE ProcsFacts
<1>1. now \in Time /\ Time \subseteq Nat
  BY ClockIsANumber DEF TypeOK, LimitsOK
<1>2. CASE DispatchInsert
  <2>1. PICK t \in Earliest(due) :
          /\ InsertRun(Ticker, t, FirstAttempt(t, "schedule", tickAt, t.nextRunAt))
          /\ due' = due \ {t}
    BY <1>2 DEF DispatchInsert
  <2>2. t \in due /\ t \in ValidTask /\ t.nextRunAt \in Int
    BY DEF Earliest, TypeOK, TickerOK, ValidTask, Task
  <2>3. tickAt \in Time
    BY <1>1, <1>2, BoundsAssumption
       DEF DispatchInsert, TypeOK, TickerOK, LimitsOK, Time
  <2> DEFINE row == FirstAttempt(t, "schedule", tickAt, t.nextRunAt)
  <2>4. row \in Run
    BY <2>2, <2>3, NewRunTypes DEF Triggers
  <2>5. row.status \in Live /\ row.task = t.id
    BY DEF FirstAttempt, Live
  <2> HIDE DEF row
  <2>6. row = FirstAttempt(t, "schedule", tickAt, t.nextRunAt)
    BY DEF row
  <2>7. Creates(Ticker, t, row)
    BY <1>2, <2>1, <2>2, <2>4, <2>5, <2>6 DEF Creates, DispatchInsert, InsertRun
  <2> QED
    BY <2>2, <2>4, <2>7 DEF Creation
<1>3. ASSUME NEW h \in Handlers, TriggerInsert(h)
      PROVE  Creation
  <2>1. PICK at \in job[h].at..now :
          InsertRun(h, job[h].task, FirstAttempt(job[h].task, "manual", at, 0))
    BY <1>3 DEF TriggerInsert
  <2>2. job[h].task \in ValidTask /\ job[h].at \in Time
    BY <1>3, JobTypes DEF TriggerInsert, TypeOK
  <2>3. at \in Time
    BY <1>1, <2>2, BoundsAssumption DEF Time
  <2> DEFINE row == FirstAttempt(job[h].task, "manual", at, 0)
  <2>4. row \in Run
    BY <2>2, <2>3, NewRunTypes, 0 \in Int DEF Triggers
  <2>5. /\ row.status \in Live /\ row.task = job[h].task.id
        /\ row.triggeredBy # "schedule" /\ row.attempt = 1
    BY DEF FirstAttempt, Live
  <2> HIDE DEF row
  <2>6. InsertRun(h, job[h].task, row)
    BY <2>1 DEF row
  <2>7. Creates(h, job[h].task, row)
    BY <1>3, <2>2, <2>4, <2>5, <2>6 DEF Creates, TriggerInsert, InsertRun, ticker
  <2> QED
    BY <2>2, <2>4, <2>7 DEF Creation
<1>4. ASSUME NEW h \in Handlers, RetryInsert(h)
      PROVE  Creation
  <2>1. /\ job[h].task \in ValidTask /\ job[h].task.id \in TaskId
        /\ job[h].attempt \in Nat
    BY <1>4, JobTypes DEF RetryInsert, TypeOK
  <2> DEFINE row == RetryRun(job[h].task.id, job[h].attempt, now)
  <2>2. row \in Run
    BY <1>1, <2>1, NewRunTypes
  <2>3. /\ row.status \in Live /\ row.task = job[h].task.id
        /\ row.triggeredBy # "schedule" /\ row.attempt = job[h].attempt + 1
    BY DEF RetryRun, Live
  <2>4. InsertRun(h, job[h].task, row)
    BY <1>4 DEF RetryInsert
  <2> HIDE DEF row
  <2>5. Creates(h, job[h].task, row)
    BY <1>4, <2>1, <2>2, <2>3, <2>4 DEF Creates, RetryInsert, InsertRun, ticker
  <2> QED
    BY <2>1, <2>2, <2>5 DEF Creation
<1> QED
  BY <1>2, <1>3, <1>4

LEMMA ExecutionSteps ==
  ASSUME DispatchExecute \/ RecoverExecute \/ \E h \in Handlers : RequestExecute(h)
  PROVE  Execution
<1>1. CASE DispatchExecute
  <2>1. job[Ticker] \in Carried
    BY <1>1, ProcsFacts DEF DispatchExecute, Carried, Executing
  <2> QED
    BY <1>1, <2>1 DEF Execution, DispatchExecute
<1>2. CASE RecoverExecute
  BY <1>2 DEF RecoverExecute, Execution, Carried, NextRetry
<1>3. ASSUME NEW h \in Handlers, RequestExecute(h)
      PROVE  Execution
  <2>1. job[h] \in Carried
    BY <1>3, ProcsFacts DEF RequestExecute, Carried, Executing
  <2> QED
    BY <1>3, <2>1 DEF Execution, RequestExecute
<1> QED
  BY <1>1, <1>2, <1>3

LEMMA CarriedTypes ==
  ASSUME TypeOK
  PROVE  \A j \in Carried : /\ j \in Job /\ j.task \in ValidTask
                            /\ j.task.id \in TaskId /\ j.at \in Time
                            /\ j.run \in Owed
<1>1. \A p \in Executing : job[p] \in Job
  BY JobTypes DEF Executing, TypeOK
<1>2. \A j \in Carried : j \in Job
  BY <1>1 DEF Carried, TypeOK, PhaseOK
<1> QED
  BY <1>2 DEF Carried, Owed, Job, ValidTask, Task

-----------------------------------------------------------------------------
(* A draft that passed validation is stored with its first run computed.   *)
LEMMA CreatedRow ==
  ASSUME TypeOK, NEW id \in TaskId, NEW in \in TaskInput, NEW at \in Time,
         ScheduleNew(Draft(id, in), at)
  PROVE  /\ \A k \in TaskId : k # id => tasks'[k] = tasks[k]
         /\ tasks'[id] \in ValidTask /\ tasks'[id].lastRunAt = 0
         /\ tasks'[id].specType = "cron" =>
              tasks'[id].nextRunAt = CronNext[tasks'[id].cronExpr][at]
<1> DEFINE t == Draft(id, in)
<1>1. tasks' = CreateTask(tasks, [t EXCEPT !.nextRunAt = FirstRun(t, at)])
  BY DEF ScheduleNew
<1>2. /\ t.id = id /\ t.lastRunAt = 0
      /\ t = [id |-> t.id, kind |-> t.kind, specType |-> t.specType,
              cronExpr |-> t.cronExpr, delay |-> t.delay,
              enabled |-> t.enabled, paused |-> t.paused,
              maxRetries |-> t.maxRetries, nextRunAt |-> t.nextRunAt,
              lastRunAt |-> t.lastRunAt]
  BY DEF Draft
<1>3. t.specType = "cron" => FirstRun(t, at) = CronNext[t.cronExpr][at]
  BY DEF FirstRun, ComputeNextCron
<1> HIDE DEF t
<1> DEFINE u == [t EXCEPT !.nextRunAt = FirstRun(t, at)]
<1>4. /\ u.id = id /\ u.lastRunAt = 0 /\ u.specType = t.specType
      /\ u.cronExpr = t.cronExpr /\ u.nextRunAt = FirstRun(t, at)
  BY <1>2
<1> HIDE DEF u
<1>5. tasks' = [tasks EXCEPT ![id] = u]
  BY <1>1, <1>4 DEF CreateTask, u
<1>6. tasks \in [TaskId -> ValidTask \cup {NoRow}]
  BY DEF TypeOK, TablesOK
<1>7. tasks'[id] = u /\ \A k \in TaskId : k # id => tasks'[k] = tasks[k]
  BY <1>5, <1>6
<1>8. tasks'[id] \in ValidTask
  <2>1. TablesOK
    BY DEF TypeOK
  <2> QED
    BY <2>1, CreateType
<1> QED
  BY <1>3, <1>4, <1>7, <1>8

(* Statements that set columns of one row leave the others alone.          *)
LEMMA AmendRow ==
  ASSUME NEW ts \in TaskTable, NEW k \in TaskId, NEW row, NEW id \in TaskId
  PROVE  \/ Amend(ts, k, row)[id] = ts[id]
         \/ id = k /\ ts[id] # NoRow /\ Amend(ts, k, row)[id] = row
BY DEF Amend, TaskTable

LEMMA TaskChanges ==
  ASSUME TypeOK, [Next]_vars, NEW id \in TaskId
  PROVE  TaskChange(id)
<1> USE ProcsFacts DEF TypeOK
<1>1. now \in Time /\ Time \subseteq Nat
  BY ClockIsANumber DEF LimitsOK
<1>2. tasks \in TaskTable /\ \A k \in TaskId : tasks[k] # NoRow =>
                                 tasks[k] \in ValidTask /\ tasks[k].id = k
  BY DEF TablesOK, TaskTable
<1>3. CASE handleCreateTask
  <2>1. PICK k \in TaskId \ born, in \in CreateInputs, at \in Readings :
          ScheduleNew(Draft(k, in), at) /\ born' = born \cup {k}
    BY <1>3 DEF handleCreateTask
  <2>2. in \in TaskInput /\ at \in Time /\ at \in 1..now
    BY <1>1, <1>3, EngineAssumption, ReadingsAreTimes
       DEF handleCreateTask, Admit
  <2>3. CASE id # k
    BY <2>1, <2>2, <2>3, CreatedRow DEF TaskChange
  <2>4. CASE id = k
    BY <1>3, <2>1, <2>2, <2>4, CreatedRow DEF TaskChange, Born
  <2> QED
    BY <2>3, <2>4
<1>4. CASE handleUpdateTask
  <2>1. PICK k \in TaskId, in \in UpdateInputs :
          /\ tasks[k] # NoRow
          /\ Validate(Merge(tasks[k], in))
          /\ tasks' = UpdateTask(tasks, Merge(tasks[k], in))
    BY <1>4 DEF handleUpdateTask
  <2>2. in \in TaskInput
    BY EngineAssumption
  <2>3. Merge(tasks[k], in).id = k
    BY <1>2, <2>1, <2>2, MergeType
  <2>4. Merge(tasks[k], in).lastRunAt = tasks[k].lastRunAt
    BY DEF Merge
  <2>5. \/ tasks'[id] = tasks[id]
        \/ id = k /\ tasks[id] # NoRow /\ tasks'[id] = Merge(tasks[k], in)
    BY <1>2, <2>1, <2>3, AmendRow DEF UpdateTask
  <2>6. "update" \in Ops
    BY <1>4 DEF handleUpdateTask, Admit
  <2> QED
    BY <1>4, <2>4, <2>5, <2>6 DEF TaskChange, Rewritten
<1>5. CASE handleDeleteTask
  BY <1>2, <1>5 DEF handleDeleteTask, DeleteTask, TaskTable, TaskChange
<1>6. CASE setTaskEnabled \/ setTaskPaused
  <2>1. PICK k \in TaskId, b \in BOOLEAN :
          \/ tasks' = Amend(tasks, k, [tasks[k] EXCEPT !.enabled = b])
          \/ tasks' = Amend(tasks, k, [tasks[k] EXCEPT !.paused = b])
    BY <1>6 DEF setTaskEnabled, setTaskPaused, SetEnabled, SetPaused
  <2>2. \/ tasks'[id] = tasks[id]
        \/ /\ tasks[id] # NoRow
           /\ \/ tasks'[id] = [tasks[id] EXCEPT !.enabled = b]
              \/ tasks'[id] = [tasks[id] EXCEPT !.paused = b]
    BY <1>2, <2>1, AmendRow
  <2> QED
    BY <2>2 DEF TaskChange, Flagged
<1>7. CASE DispatchExecute \/ RecoverExecute \/ \E h \in Handlers : RequestExecute(h)
  <2>1. PICK j \in Carried : ExecuteRun(j)
    BY <1>7, ExecutionSteps DEF Execution
  <2>2. j.task.id \in TaskId
    BY <2>1, CarriedTypes
  <2>3. tasks' = Amend(tasks, j.task.id, [tasks[j.task.id] EXCEPT !.lastRunAt = j.at])
    BY <2>1 DEF ExecuteRun, SetLastRun
  <2>4. \/ tasks'[id] = tasks[id]
        \/ /\ id = j.task.id /\ tasks[id] # NoRow
           /\ tasks'[id] = [tasks[id] EXCEPT !.lastRunAt = j.at]
    BY <1>2, <2>2, <2>3, AmendRow
  <2> QED
    BY <2>1, <2>4 DEF TaskChange, Ran
<1>8. CASE DispatchAdvance
  <2>1. PICK at \in ranAt..now :
          tasks' = SetNextRun(tasks, job[Ticker].task.id,
                              NextAfter(job[Ticker].task, at), tickAt)
    BY <1>8 DEF DispatchAdvance
  <2>2. at \in Time /\ ranAt <= at /\ at <= now
    BY <1>1, <1>8, BoundsAssumption DEF DispatchAdvance, TickerOK, Time
  <2>3. job[Ticker].task.id \in TaskId
    BY <1>8, JobTypes DEF DispatchAdvance
  <2> DEFINE next == NextAfter(job[Ticker].task, at)
             row(k) == [tasks[k] EXCEPT !.nextRunAt = next, !.lastRunAt = tickAt]
  <2>4. tasks' = Amend(tasks, job[Ticker].task.id, row(job[Ticker].task.id))
    BY <2>1 DEF SetNextRun
  <2> HIDE DEF row
  <2>5. \/ tasks'[id] = tasks[id]
        \/ /\ id = job[Ticker].task.id /\ tasks[id] # NoRow
           /\ tasks'[id] = row(id)
    BY <1>2, <2>3, <2>4, AmendRow
  <2> QED
    BY <1>8, <2>2, <2>5 DEF TaskChange, Advanced, row
<1>9. CASE UNCHANGED tasks
  BY <1>9 DEF TaskChange
<1>10. \/ UNCHANGED vars \/ TickBegin \/ TickScan \/ DispatchInsert \/ TickFails
       \/ Restart \/ RecoverOrphans \/ Start \/ RecoverFails \/ Crash
       \/ ClockTick \/ handleDeleteRun
       \/ \E h \in Handlers : \/ handleTriggerTask(h) \/ handleRetryRun(h)
                             \/ TriggerInsert(h) \/ RetryInsert(h) \/ RequestFails(h)
       => UNCHANGED tasks
  BY DEF vars, disk, TickBegin, TickScan, DispatchInsert, InsertRun, TickFails,
         Restart, RecoverOrphans, Start, RecoverFails, Crash, ClockTick,
         handleDeleteRun, handleTriggerTask, TriggerLoad, handleRetryRun,
         RetryLoad, TriggerInsert, RetryInsert, RequestFails
<1> QED
  BY <1>3, <1>4, <1>5, <1>6, <1>7, <1>8, <1>9, <1>10
     DEF Next, Request, Tick, Serve, Boot, Environment

-----------------------------------------------------------------------------
LEMMA CreatedRun ==
  ASSUME TypeOK, Custody, NEW p \in Procs, NEW t \in ValidTask, NEW row \in Run,
         Creates(p, t, row), NEW r \in RunId
  PROVE  \/ r # issued' /\ runs'[r] = runs[r]
         \/ r = issued' /\ runs[r] = NoRow /\ runs'[r] = row
<1>1. pc[p] # "execute" /\ pend' = pend
  BY DEF Creates
<1>2. /\ issued' \in RunId /\ runs[issued'] = NoRow
      /\ runs' = [runs EXCEPT ![issued'] = row]
  BY <1>1, TakingHold DEF Creates
<1> QED
  BY <1>2 DEF TypeOK, TablesOK

LEMMA ExecutedRun ==
  ASSUME TypeOK, Custody, NEW j \in Carried, ExecuteRun(j), NEW r \in RunId
  PROVE  \/ runs'[r] = runs[r]
         \/ /\ j.run = r /\ runs[r] # NoRow
            /\ runs'[r] = [runs[r] EXCEPT !.status = Outcome(j.task)]
BY DEF ExecuteRun, UpdateRunStatus, Amend, TypeOK, TablesOK

LEMMA RecoveredRun ==
  ASSUME TypeOK, Custody, RecoverOrphans, NEW r \in RunId
  PROVE  \/ runs'[r] = runs[r]
         \/ /\ runs[r] # NoRow /\ runs[r].status = "running"
            /\ runs'[r] = [runs[r] EXCEPT !.status = "orphaned"]
         \/ /\ runs[r] = NoRow /\ r > issued
            /\ \E o \in Retriable, at \in Time :
                 runs'[r] = RetryRun(runs[o].task, runs[o].attempt, at)
<1>1. PICK f \in RetryIds(Retriable), at \in [Retriable -> Readings] :
        LET NewRow(o) == RetryRun(runs[o].task, runs[o].attempt, at[o]) IN
        runs' = [k \in RunId |->
                   IF k \in OrphanedRuns(runs)
                   THEN [runs[k] EXCEPT !.status = "orphaned"]
                   ELSE IF \E o \in Retriable : f[o] = k
                   THEN NewRow(CHOOSE o \in Retriable : f[o] = k)
                   ELSE runs[k]]
  BY DEF RecoverOrphans
<1>2. \A o \in Retriable : f[o] \in RunId /\ f[o] > issued
  BY RetryIdsAreFresh DEF RecoverOrphans, TypeOK
<1>3. CASE r \in OrphanedRuns(runs)
  BY <1>1, <1>3 DEF OrphanedRuns
<1>4. CASE r \notin OrphanedRuns(runs) /\ \E o \in Retriable : f[o] = r
  <2>1. PICK q \in Retriable : q = CHOOSE o \in Retriable : f[o] = r
    BY <1>4
  <2>2. runs'[r] = RetryRun(runs[q].task, runs[q].attempt, at[q])
    BY <1>1, <1>4, <2>1
  <2>3. r > issued /\ runs[r] = NoRow
    BY <1>2, <1>4 DEF Custody, Hands
  <2>4. at[q] \in Readings
    BY <2>1
  <2>5. at[q] \in Time
    BY <2>4, ReadingsAreTimes DEF TypeOK, LimitsOK, RecoverOrphans
  <2> QED
    BY <2>1, <2>2, <2>3, <2>5
<1>5. CASE r \notin OrphanedRuns(runs) /\ ~\E o \in Retriable : f[o] = r
  BY <1>1, <1>5
<1> QED
  BY <1>3, <1>4, <1>5

LEMMA RunChanges ==
  ASSUME TypeOK, Custody, [Next]_vars, NEW r \in RunId
  PROVE  RunChange(r)
<1>1. CASE Request
  BY <1>1, RequestStep DEF RunChange
<1>2. CASE DispatchInsert \/ \E h \in Handlers : TriggerInsert(h) \/ RetryInsert(h)
  <2>1. PICK p \in Procs, t \in ValidTask, row \in Run : Creates(p, t, row)
    BY <1>2, CreationSteps DEF Creation
  <2> QED
    BY <2>1, CreatedRun DEF RunChange
<1>3. CASE DispatchExecute \/ RecoverExecute \/ \E h \in Handlers : RequestExecute(h)
  <2>1. PICK j \in Carried : ExecuteRun(j)
    BY <1>3, ExecutionSteps DEF Execution
  <2> QED
    BY <2>1, ExecutedRun DEF RunChange
<1>4. CASE RecoverOrphans
  BY <1>4, RecoveredRun DEF RunChange
<1>5. CASE UNCHANGED runs
  BY <1>5 DEF RunChange
<1>6. \/ UNCHANGED vars \/ TickBegin \/ TickScan \/ DispatchAdvance \/ TickFails
      \/ Restart \/ Start \/ RecoverFails \/ Crash \/ ClockTick
      \/ \E h \in Handlers : RequestFails(h)
      => UNCHANGED runs
  BY DEF vars, disk, TickBegin, TickScan, DispatchAdvance, TickFails, Restart,
         Start, RecoverFails, Crash, ClockTick, RequestFails
<1> QED
  BY <1>1, <1>2, <1>3, <1>4, <1>5, <1>6 DEF Next, Tick, Serve, Boot, Environment

-----------------------------------------------------------------------------
(* The rows of tasks that goroutines, the tick in progress and main hold   *)
(* copies of.                                                              *)
Copies == due \cup {j.task : j \in pend}
              \cup {job[p].task : p \in {q \in Procs : job[q] # NoJob}}

FromTable(t) == \E id \in TaskId : tasks[id] # NoRow /\ t = tasks[id]

(* A copy is passed on, or it is read from the table.                      *)
LEMMA CopiesStep ==
  ASSUME TypeOK, [Next]_vars, NEW t \in Copies'
  PROVE  t \in Copies \/ FromTable(t)
<1> USE ProcsFacts
<1>1. ASSUME NEW p \in Procs, NEW label, NEW j, Goto(p, label, j),
             j = NoJob \/ j.task \in Copies \/ FromTable(j.task),
             pend' \subseteq pend, due' \subseteq due
      PROVE  t \in Copies \/ FromTable(t)
  <2>1. /\ job'[p] = j
        /\ \A q \in Procs : q # p => job'[q] = job[q]
    BY <1>1 DEF Goto, TypeOK, GoroutinesOK
  <2> QED
    BY <1>1, <2>1 DEF Copies
<1>2. \A p \in Procs : pc[p] \in {"insert", "retry", "execute", "advance"}
                        => job[p].task \in Copies
  BY DEF TypeOK, GoroutinesOK, Copies
<1>3. CASE UNCHANGED <<job, pend, due>>
  BY <1>3 DEF Copies
<1>4. CASE Crash
  BY <1>4 DEF Crash, Copies
<1>5. CASE RecoverOrphans
  <2>1. \A o \in Retriable : FromTable(tasks[runs[o].task])
    BY DEF Retriable, OrphanedRuns, TypeOK, TablesOK, Run, FromTable
  <2>2. \A j \in pend' : FromTable(j.task)
    BY <1>5, <2>1 DEF RecoverOrphans
  <2> QED
    BY <1>5, <2>2 DEF RecoverOrphans, ticker, Copies
<1>6. CASE RecoverExecute \/ RecoverFails
  BY <1>6 DEF RecoverExecute, RecoverFails, ticker, Copies
<1>7. CASE TickScan
  <2>1. \A u \in due' : FromTable(u)
    BY <1>7 DEF TickScan, Continue, DueTasks, FromTable, TypeOK, TablesOK
  <2>2. job'[Ticker] = NoJob /\ pend' = pend
        /\ \A q \in Procs : q # Ticker => job'[q] = job[q]
    BY <1>7 DEF TickScan, Continue, Goto, TypeOK, GoroutinesOK
  <2> QED
    BY <2>1, <2>2 DEF Copies
<1>8. CASE TickBegin \/ DispatchAdvance \/ TickFails
  BY <1>1, <1>8 DEF TickBegin, DispatchAdvance, TickFails, Continue
<1>9. CASE DispatchInsert
  <2>1. PICK u \in Earliest(due) :
          InsertRun(Ticker, u, FirstAttempt(u, "schedule", tickAt, u.nextRunAt))
    BY <1>9 DEF DispatchInsert
  <2>2. u \in Copies /\ pend' = pend /\ due' \subseteq due
    BY <1>9 DEF DispatchInsert, Earliest, Copies
  <2> QED
    BY <1>1, <2>1, <2>2 DEF InsertRun
<1>10. CASE DispatchExecute
  BY <1>1, <1>2, <1>10 DEF DispatchExecute
<1>11. ASSUME NEW h \in Handlers, handleTriggerTask(h) \/ handleRetryRun(h)
       PROVE  t \in Copies \/ FromTable(t)
  <2>1. PICK id \in TaskId : \E r, label, n, at :
          /\ tasks[id] # NoRow
          /\ Goto(h, label, [task |-> tasks[id], run |-> r, attempt |-> n, at |-> at])
    BY <1>11 DEF handleTriggerTask, TriggerLoad, handleRetryRun, RetryLoad,
                 TypeOK, TablesOK, Run
  <2>2. pend' = pend /\ due' = due
    BY <1>11 DEF handleTriggerTask, TriggerLoad, handleRetryRun, RetryLoad, ticker
  <2> QED
    BY <1>1, <2>1, <2>2 DEF FromTable
<1>12. ASSUME NEW h \in Handlers, TriggerInsert(h) \/ RetryInsert(h)
       PROVE  t \in Copies \/ FromTable(t)
  BY <1>1, <1>2, <1>12 DEF TriggerInsert, RetryInsert, InsertRun, ticker
<1>13. ASSUME NEW h \in Handlers, RequestExecute(h) \/ RequestFails(h)
       PROVE  t \in Copies \/ FromTable(t)
  BY <1>1, <1>13 DEF RequestExecute, RequestFails, ticker
<1>14. \/ UNCHANGED vars \/ Restart \/ Start \/ ClockTick
       \/ handleCreateTask \/ handleUpdateTask \/ handleDeleteTask
       \/ setTaskEnabled \/ setTaskPaused \/ handleDeleteRun
       => UNCHANGED <<job, pend, due>>
  BY DEF vars, engine, ticker, Restart, Start, ClockTick, handleCreateTask,
         handleUpdateTask, handleDeleteTask, setTaskEnabled, setTaskPaused,
         handleDeleteRun
<1> QED
  BY <1>3, <1>4, <1>5, <1>6, <1>7, <1>8, <1>9, <1>10, <1>11, <1>12, <1>13,
     <1>14 DEF Next, Request, Tick, Serve, Boot, Environment

-----------------------------------------------------------------------------
(* Every id the tables and the goroutines refer to was given out, so a new *)
(* task never meets a run or a copy that refers to it.                     *)
Known ==
  /\ \A id \in TaskId : tasks[id] # NoRow => id \in born
  /\ \A r \in RunId : runs[r] # NoRow => runs[r].task \in born
  /\ \A t \in Copies : t.id \in born

LEMMA CopyTypes == TypeOK => Copies \subseteq ValidTask
BY DEF TypeOK, TickerOK, PhaseOK, GoroutinesOK, Copies, Job

LEMMA CreatorHolds ==
  ASSUME TypeOK, NEW p \in Procs, NEW t, NEW row, Creates(p, t, row)
  PROVE  t \in Copies
BY DEF Creates, Copies, TypeOK, GoroutinesOK

LEMMA BornGrows == [Next]_vars => born \subseteq born'
BY DEF Next, vars, ids, Request, Tick, Serve, Boot, Environment,
   handleCreateTask, handleUpdateTask, handleDeleteTask, setTaskEnabled,
   setTaskPaused, handleDeleteRun, handleTriggerTask, TriggerLoad,
   handleRetryRun, RetryLoad, TickBegin, TickScan, DispatchInsert,
   DispatchExecute, DispatchAdvance, TriggerInsert, RetryInsert, InsertRun,
   RequestExecute, ExecuteRun, Restart, RecoverOrphans, RecoverExecute, Start,
   Crash, TickFails, RequestFails, RecoverFails, ClockTick

LEMMA KnownInit == Init => Known
BY DEF Init, Known, Copies

LEMMA KnownStep ==
  ASSUME TypeOK, Custody, Known, [Next]_vars
  PROVE  Known'
<1>1. born \subseteq born'
  BY BornGrows
<1>2. ASSUME NEW id \in TaskId, tasks'[id] # NoRow
      PROVE  id \in born'
  BY <1>1, <1>2, TaskChanges DEF TaskChange, Born, Known
<1>3. ASSUME NEW r \in RunId, runs'[r] # NoRow
      PROVE  runs'[r].task \in born'
  <2>1. RunChange(r)
    BY RunChanges
  <2>2. CASE \E p \in Procs, t \in ValidTask : Creates(p, t, runs'[r])
    <3>1. PICK p \in Procs, t \in ValidTask : Creates(p, t, runs'[r])
      BY <2>2
    <3>2. t \in Copies /\ runs'[r].task = t.id
      BY <3>1, CreatorHolds DEF Creates
    <3> QED
      BY <1>1, <3>2 DEF Known
  <2>3. CASE \E o \in Retriable, at \in Time :
               runs'[r] = RetryRun(runs[o].task, runs[o].attempt, at)
    <3>1. PICK o \in Retriable : runs'[r].task = runs[o].task
      BY <2>3 DEF RetryRun
    <3>2. o \in RunId /\ runs[o] # NoRow
      BY DEF Retriable, OrphanedRuns, TypeOK, TablesOK
    <3> QED
      BY <1>1, <3>1, <3>2 DEF Known
  <2>4. CASE runs[r] # NoRow /\ \E s : runs'[r] = [runs[r] EXCEPT !.status = s]
    <3>1. runs[r] \in Run
      BY <2>4 DEF TypeOK, TablesOK
    <3>2. runs'[r].task = runs[r].task
      BY <2>4, <3>1 DEF Run
    <3> QED
      BY <1>1, <2>4, <3>2 DEF Known
  <2>5. CASE runs'[r] = runs[r]
    BY <1>1, <1>3, <2>5 DEF Known
  <2> QED
    BY <1>3, <2>1, <2>2, <2>3, <2>4, <2>5 DEF RunChange
<1>4. ASSUME NEW t \in Copies'
      PROVE  t.id \in born'
  <2>1. t \in Copies \/ FromTable(t)
    BY CopiesStep
  <2> QED
    BY <1>1, <2>1 DEF FromTable, Known, TypeOK, TablesOK
<1> QED
  BY <1>2, <1>3, <1>4 DEF Known

-----------------------------------------------------------------------------
(* Without PUT requests a task keeps its kind of schedule and its budget,  *)
(* and so do the copies the goroutines work with.                          *)
Same(t, u) ==
  /\ t.specType = u.specType /\ t.cronExpr = u.cronExpr
  /\ t.maxRetries = u.maxRetries

Agreement ==
  "update" \notin Ops =>
    \A t \in Copies : tasks[t.id] # NoRow => Same(t, tasks[t.id])

LEMMA KeepsSpec ==
  ASSUME TypeOK, "update" \notin Ops, [Next]_vars,
         NEW id \in born, tasks'[id] # NoRow
  PROVE  tasks[id] # NoRow /\ Same(tasks[id], tasks'[id])
<1>1. id \in TaskId
  BY DEF TypeOK, IdsOK
<1>2. TaskChange(id)
  BY <1>1, TaskChanges
<1>3. CASE tasks'[id] = tasks[id]
  BY <1>3 DEF Same
<1>4. CASE tasks[id] # NoRow /\ (Flagged(id) \/ Ran(id) \/ Advanced(id))
  <2>1. tasks[id] \in ValidTask
    BY <1>1, <1>4 DEF TypeOK, TablesOK
  <2>2. PICK b, c, d, e :
          \/ tasks'[id] = [tasks[id] EXCEPT !.enabled = b]
          \/ tasks'[id] = [tasks[id] EXCEPT !.paused = c]
          \/ tasks'[id] = [tasks[id] EXCEPT !.lastRunAt = d]
          \/ tasks'[id] = [tasks[id] EXCEPT !.nextRunAt = e, !.lastRunAt = d]
    BY <1>4 DEF Flagged, Ran, Advanced
  <2> QED
    BY <1>4, <2>1, <2>2 DEF ValidTask, Task, Same
<1> QED
  BY <1>2, <1>3, <1>4 DEF TaskChange, Born, Rewritten

LEMMA AgreementStep ==
  ASSUME TypeOK, Known, Agreement, [Next]_vars
  PROVE  Agreement'
<1> SUFFICES ASSUME "update" \notin Ops, NEW t \in Copies', tasks'[t.id] # NoRow
             PROVE  Same(t, tasks'[t.id])
  BY DEF Agreement
<1>1. CASE t \in Copies
  <2>1. t.id \in born
    BY <1>1 DEF Known
  <2>2. tasks[t.id] # NoRow /\ Same(tasks[t.id], tasks'[t.id])
    BY <2>1, KeepsSpec
  <2>3. Same(t, tasks[t.id])
    BY <1>1, <2>2 DEF Agreement
  <2> QED
    BY <2>2, <2>3 DEF Same
<1>2. CASE FromTable(t)
  <2>1. t = tasks[t.id] /\ t.id \in born
    BY <1>2 DEF FromTable, Known, TypeOK, TablesOK
  <2>2. Same(tasks[t.id], tasks'[t.id])
    BY <2>1, KeepsSpec
  <2> QED
    BY <2>1, <2>2
<1> QED
  BY <1>1, <1>2, CopiesStep

(* A request goroutine that is about to insert a retry has the budget.     *)
Granted ==
  \A h \in Handlers : pc[h] = "retry" => CanRetry(job[h].task, job[h].attempt)

LEMMA GrantedStep ==
  ASSUME TypeOK, Granted, [Next]_vars
  PROVE  Granted'
<1> USE ProcsFacts
<1> SUFFICES ASSUME NEW h \in Handlers, pc'[h] = "retry"
             PROVE  CanRetry(job'[h].task, job'[h].attempt)
  BY DEF Granted
<1>1. ASSUME NEW p \in Procs, NEW label, label # "retry", NEW j, Goto(p, label, j)
      PROVE  pc[h] = "retry" /\ job'[h] = job[h]
  BY <1>1 DEF Goto, TypeOK, GoroutinesOK
<1>2. ASSUME NEW p \in Handlers, handleRetryRun(p)
      PROVE  \/ pc[h] = "retry" /\ job'[h] = job[h]
             \/ CanRetry(job'[h].task, job'[h].attempt)
  <2>1. PICK r \in RunId :
          /\ CanRetry(tasks[runs[r].task], runs[r].attempt)
          /\ Goto(p, "retry", [task |-> tasks[runs[r].task], run |-> r,
                               attempt |-> runs[r].attempt,
                               at |-> runs[r].scheduledAt])
    BY <1>2 DEF handleRetryRun, RetryLoad
  <2> QED
    BY <2>1 DEF Goto, TypeOK, GoroutinesOK
<1>3. CASE Crash
  BY <1>3 DEF Crash
<1>4. ASSUME NEW p \in Handlers,
             \/ handleTriggerTask(p) \/ TriggerInsert(p) \/ RetryInsert(p)
             \/ RequestExecute(p) \/ RequestFails(p)
      PROVE  pc[h] = "retry" /\ job'[h] = job[h]
  BY <1>1, <1>4 DEF handleTriggerTask, TriggerLoad, TriggerInsert, RetryInsert,
     InsertRun, RequestExecute, RequestFails
<1>5. ASSUME Tick \/ TickFails
      PROVE  pc[h] = "retry" /\ job'[h] = job[h]
  BY <1>1, <1>5 DEF Tick, TickBegin, TickScan, Continue, DispatchInsert,
     InsertRun, DispatchExecute, DispatchAdvance, TickFails
<1>6. \/ UNCHANGED vars \/ Restart \/ RecoverOrphans \/ RecoverExecute \/ Start
      \/ RecoverFails \/ ClockTick
      \/ handleCreateTask \/ handleUpdateTask \/ handleDeleteTask
      \/ setTaskEnabled \/ setTaskPaused \/ handleDeleteRun
      => UNCHANGED <<pc, job>>
  BY DEF vars, engine, Restart, RecoverOrphans, RecoverExecute, Start,
         RecoverFails, ClockTick, handleCreateTask, handleUpdateTask,
         handleDeleteTask, setTaskEnabled, setTaskPaused, handleDeleteRun
<1>7. pc[h] = "retry" => CanRetry(job[h].task, job[h].attempt)
  BY DEF Granted
<1> QED
  BY <1>2, <1>3, <1>4, <1>5, <1>6, <1>7 DEF Next, Request, Serve, Boot, Environment

LEMMA BudgetStep ==
  ASSUME TypeOK, Custody, Known, Agreement, Granted, AttemptWithinBudget,
         [Next]_vars
  PROVE  AttemptWithinBudget'
<1> SUFFICES ASSUME "update" \notin Ops, NEW r \in RunId, runs'[r] # NoRow,
                    tasks'[runs'[r].task] # NoRow
             PROVE  runs'[r].attempt <= tasks'[runs'[r].task].maxRetries + 1
  BY DEF AttemptWithinBudget
<1>1. RunChange(r)
  BY RunChanges
<1>2. \A id \in TaskId : tasks[id] # NoRow =>
        tasks[id] \in ValidTask /\ tasks[id].maxRetries \in Nat
  BY DEF TypeOK, TablesOK, ValidTask, Task
<1>3. CASE /\ runs[r] # NoRow /\ runs'[r].task = runs[r].task
           /\ runs'[r].attempt = runs[r].attempt
  <2>1. runs[r].task \in born
    BY <1>3 DEF Known
  <2>2. /\ tasks[runs[r].task] # NoRow
        /\ tasks'[runs[r].task].maxRetries = tasks[runs[r].task].maxRetries
    BY <1>3, <2>1, KeepsSpec DEF Same
  <2> QED
    BY <1>3, <2>2 DEF AttemptWithinBudget
<1>4. CASE \E p \in Procs, t \in ValidTask : Creates(p, t, runs'[r])
  <2>1. PICK p \in Procs, t \in ValidTask : Creates(p, t, runs'[r])
    BY <1>4
  <2>2. t \in Copies /\ runs'[r].task = t.id /\ tasks' = tasks
    BY <2>1, CreatorHolds DEF Creates
  <2>3. t.maxRetries \in Nat /\ t.maxRetries = tasks'[t.id].maxRetries
    BY <2>2 DEF Agreement, Same, ValidTask, Task
  <2>4. CASE runs'[r].attempt = 1
    BY <2>2, <2>3, <2>4
  <2>5. CASE p \in Handlers /\ pc[p] = "retry" /\ runs'[r].attempt # 1
    <3>1. runs'[r].attempt = job[p].attempt + 1 /\ t = job[p].task
      BY <2>1, <2>5, ProcsFacts DEF Creates
    <3>2. job[p].attempt \in Nat /\ job[p].attempt <= t.maxRetries
      BY <2>5, <3>1, ProcsFacts, JobTypes DEF Granted, CanRetry, TypeOK
    <3> QED
      BY <2>2, <2>3, <3>1, <3>2
  <2>6. runs'[r].attempt = 1 \/ (p \in Handlers /\ pc[p] = "retry")
    BY <2>1 DEF Creates, FirstAttempt
  <2> QED
    BY <2>4, <2>5, <2>6
<1>5. CASE RecoverOrphans /\ \E o \in Retriable, at \in Time :
             runs'[r] = RetryRun(runs[o].task, runs[o].attempt, at)
  <2>1. PICK o \in Retriable :
          /\ runs'[r].task = runs[o].task
          /\ runs'[r].attempt = runs[o].attempt + 1
    BY <1>5 DEF RetryRun
  <2>2. o \in RunId /\ runs[o] \in Run
    BY DEF Retriable, OrphanedRuns, TypeOK, TablesOK
  <2>3. runs[o].task \in TaskId /\ runs[o].attempt \in Nat
    BY <2>2 DEF Run
  <2>4. /\ tasks[runs[o].task] # NoRow
        /\ runs[o].attempt <= tasks[runs[o].task].maxRetries
    BY DEF Retriable, CanRetry
  <2>5. tasks[runs[o].task].maxRetries \in Nat
    BY <1>2, <2>3, <2>4
  <2>6. tasks' = tasks
    BY <1>5 DEF RecoverOrphans
  <2> QED
    BY <2>1, <2>3, <2>4, <2>5, <2>6
<1>6. CASE runs[r] # NoRow /\ \E s : runs'[r] = [runs[r] EXCEPT !.status = s]
  <2>1. runs[r] \in Run
    BY <1>6 DEF TypeOK, TablesOK
  <2>2. runs'[r].task = runs[r].task /\ runs'[r].attempt = runs[r].attempt
    BY <1>6, <2>1 DEF Run
  <2> QED
    BY <1>3, <1>6, <2>2
<1>7. CASE runs'[r] = runs[r]
  BY <1>3, <1>7
<1> QED
  BY <1>1, <1>4, <1>5, <1>6, <1>7 DEF RunChange

LEMMA ClockGoesOn ==
  ASSUME TypeOK, [Next]_vars
  PROVE  now \in Nat /\ now' \in Nat /\ now <= now' /\ 1..now \subseteq 1..now'
<1>1. now' = now \/ now' = now + 1
  BY DEF Next, vars, Request, Tick, Serve, Boot, Environment, engine,
   handleCreateTask, handleUpdateTask, handleDeleteTask, setTaskEnabled,
   setTaskPaused, handleDeleteRun, handleTriggerTask, TriggerLoad,
   handleRetryRun, RetryLoad, TickBegin, TickScan, DispatchInsert,
   DispatchExecute, DispatchAdvance, TriggerInsert, RetryInsert,
   RequestExecute, Restart, RecoverOrphans, RecoverExecute, Start,
   Crash, TickFails, RequestFails, RecoverFails, ClockTick
<1>2. now \in Nat
  BY BoundsAssumption DEF TypeOK, LimitsOK, Time
<1> QED
  BY <1>1, <1>2

LEMMA ArmedStep ==
  ASSUME TypeOK, Known, Agreement, CronStaysArmed, [Next]_vars
  PROVE  CronStaysArmed'
<1> SUFFICES ASSUME "update" \notin Ops, NEW id \in TaskId, tasks'[id] # NoRow,
                    tasks'[id].specType = "cron",
                    0 \notin {CronNext[tasks'[id].cronExpr][t] : t \in Time}
             PROVE  tasks'[id].nextRunAt
                      \in {CronNext[tasks'[id].cronExpr][t] : t \in 1..now'}
  BY DEF CronStaysArmed
<1>1. TaskChange(id)
  BY TaskChanges
<1>2. 1..now \subseteq 1..now' /\ now \in Nat
  BY ClockGoesOn
<1>3. CASE Born(id)
  BY <1>2, <1>3 DEF Born
<1>4. CASE tasks[id] # NoRow /\ tasks'[id] = tasks[id]
  BY <1>2, <1>4 DEF CronStaysArmed
<1>5. CASE tasks[id] # NoRow /\ (Flagged(id) \/ Ran(id))
  <2>1. tasks[id] \in ValidTask
    BY <1>5 DEF TypeOK, TablesOK
  <2>2. PICK b, c, d :
          \/ tasks'[id] = [tasks[id] EXCEPT !.enabled = b]
          \/ tasks'[id] = [tasks[id] EXCEPT !.paused = c]
          \/ tasks'[id] = [tasks[id] EXCEPT !.lastRunAt = d]
    BY <1>5 DEF Flagged, Ran
  <2>3. /\ tasks'[id].specType = tasks[id].specType
        /\ tasks'[id].cronExpr = tasks[id].cronExpr
        /\ tasks'[id].nextRunAt = tasks[id].nextRunAt
    BY <2>1, <2>2 DEF ValidTask, Task
  <2> QED
    BY <1>2, <1>5, <2>3 DEF CronStaysArmed
<1>6. CASE tasks[id] # NoRow /\ Advanced(id)
  <2> DEFINE t == job[Ticker].task
  <2>1. PICK at \in Time :
          /\ at <= now
          /\ tasks'[id] = [tasks[id] EXCEPT !.nextRunAt = NextAfter(t, at),
                                            !.lastRunAt = tickAt]
    BY <1>6 DEF Advanced
  <2>2. t \in Copies /\ t.id = id
    BY <1>6, ProcsFacts
       DEF Advanced, DispatchAdvance, Copies, TypeOK, GoroutinesOK
  <2>3. Same(t, tasks[id])
    BY <1>6, <2>2 DEF Agreement
  <2>4. tasks[id] \in ValidTask
    BY <1>6 DEF TypeOK, TablesOK
  <2> HIDE DEF t
  <2>5. /\ tasks'[id].specType = tasks[id].specType
        /\ tasks'[id].cronExpr = tasks[id].cronExpr
        /\ tasks'[id].nextRunAt = NextAfter(t, at)
    BY <2>1, <2>4 DEF ValidTask, Task
  <2>6. at \in 1..now
    BY <1>2, <2>1, ClockIsANumber DEF Time
  <2> QED
    BY <1>2, <2>3, <2>5, <2>6 DEF Same, NextAfter, ComputeNextCron
<1> QED
  BY <1>1, <1>3, <1>4, <1>5, <1>6 DEF TaskChange, Rewritten

-----------------------------------------------------------------------------
(* What the tables and the goroutines hold fits together: the inductive    *)
(* invariant the two theorems below rest on, with TypeOK and Custody.      *)
Records == Known /\ Agreement /\ Granted /\ AttemptWithinBudget /\ CronStaysArmed

LEMMA RecordsHold == Spec => []Records
<1>1. Init => Records
  <2> SUFFICES ASSUME Init PROVE Records
    OBVIOUS
  <2>1. \A h \in Handlers : pc[h] # "retry"
    BY ProcsFacts DEF Init
  <2>2. Copies = {}
    BY DEF Init, Copies
  <2> QED
    BY <2>1, <2>2, KnownInit
       DEF Init, Records, Agreement, Granted, AttemptWithinBudget, CronStaysArmed
<1>2. TypeOK /\ Custody /\ Records /\ [Next]_vars => Records'
  BY KnownStep, AgreementStep, GrantedStep, BudgetStep, ArmedStep DEF Records
<1> QED
  BY <1>1, <1>2, TypeCorrect, RunsAreInCustody, PTL DEF Spec

(* The attempts of a run and of its retries, by request and by recovery,   *)
(* stay within max_retries + 1, for any number of goroutines that read the *)
(* run before any of them inserts its retry.                               *)
THEOREM AttemptsAreBounded == Spec => []AttemptWithinBudget
<1>1. Records => AttemptWithinBudget
  BY DEF Records
<1> QED
  BY <1>1, RecordsHold, PTL

(* A cron task whose expression has a next match stays armed on the one    *)
(* after a moment that has come.                                           *)
THEOREM CronTasksStayArmed == Spec => []CronStaysArmed
<1>1. Records => CronStaysArmed
  BY DEF Records
<1> QED
  BY <1>1, RecordsHold, PTL

-----------------------------------------------------------------------------
(* The history of executions as the tables tell it: a run in hand agrees   *)
(* with its row, last_run_at is the time of a run that was executed, and   *)
(* the daily counters count the rows.                                      *)

Ended == {"succeeded", "failed"}

LEMMA IssuedGrows ==
  ASSUME TypeOK, [Next]_vars
  PROVE  issued \in Nat /\ issued' \in Nat /\ issued <= issued'
<1>1. issued \in Nat /\ issued' \in Nat
  BY TablesStep, BoundsAssumption DEF TypeOK, IdsOK
<1>2. CASE RecoverOrphans
  <2>1. IsFiniteSet(RunId) /\ Retriable \subseteq RunId
    BY FS_Interval, BoundsAssumption DEF RunId, Retriable, OrphanedRuns, TypeOK, TablesOK
  <2>2. Cardinality(Retriable) \in Nat
    BY <2>1, FS_Subset, FS_CardinalityType
  <2> QED
    BY <1>1, <1>2, <2>2 DEF RecoverOrphans
<1>3. CASE issued' = issued \/ issued' = issued + 1
  BY <1>1, <1>3
<1>4. RecoverOrphans \/ issued' = issued \/ issued' = issued + 1
  BY DEF Next, vars, ids, Request, Tick, Serve, Boot, Environment,
     handleCreateTask, handleUpdateTask, handleDeleteTask, setTaskEnabled,
     setTaskPaused, handleDeleteRun, handleTriggerTask, TriggerLoad,
     handleRetryRun, RetryLoad, TickBegin, TickScan, DispatchInsert,
     DispatchExecute, DispatchAdvance, TriggerInsert, RetryInsert, InsertRun,
     RequestExecute, ExecuteRun, Restart, RecoverExecute, Start,
     Crash, TickFails, RequestFails, RecoverFails, ClockTick
<1> QED
  BY <1>2, <1>3, <1>4

(* What a row says of the origin of its run never changes.                 *)
LEMMA RowStep ==
  ASSUME TypeOK, Custody, [Next]_vars, NEW r \in RunId, r <= issued,
         runs'[r] # NoRow
  PROVE  /\ runs[r] # NoRow
         /\ runs'[r].task = runs[r].task /\ runs'[r].slot = runs[r].slot
         /\ runs'[r].scheduledAt = runs[r].scheduledAt
         /\ runs'[r].triggeredBy = runs[r].triggeredBy
<1>1. RunChange(r)
  BY RunChanges
<1>2. issued \in Nat /\ r \in Nat
  BY IssuedGrows DEF RunId
<1>3. CASE runs'[r] = runs[r]
  BY <1>3
<1>4. CASE r = issued' /\ \E p \in Procs, t \in ValidTask : Creates(p, t, runs'[r])
  <2>1. issued' = issued + 1
    BY <1>4 DEF Creates, InsertRun
  <2> QED
    BY <1>2, <1>4, <2>1
<1>5. CASE runs[r] # NoRow /\ \E s : runs'[r] = [runs[r] EXCEPT !.status = s]
  <2>1. runs[r] \in Run
    BY <1>5 DEF TypeOK, TablesOK
  <2> QED
    BY <1>5, <2>1 DEF Run
<1>6. CASE r > issued
  BY <1>2, <1>6
<1> QED
  BY <1>1, <1>3, <1>4, <1>5, <1>6 DEF RunChange

LEMMA Undeleted ==
  ASSUME TypeOK, Custody, [Next]_vars, NothingDeleted'
  PROVE  NothingDeleted
<1>1. ASSUME NEW r \in 1..issued
      PROVE  runs[r] # NoRow
  <2>1. r \in RunId /\ r <= issued /\ r \in 1..issued'
    BY IssuedGrows, BoundsAssumption DEF TypeOK, IdsOK, RunId
  <2>2. runs'[r] # NoRow
    BY <2>1 DEF NothingDeleted
  <2> QED
    BY <2>1, <2>2, RowStep
<1> QED
  BY <1>1 DEF NothingDeleted

(* Only an execution gives a run the outcome succeeded or failed.          *)
LEMMA EndedStays ==
  ASSUME TypeOK, Custody, [Next]_vars, ~Execution, NEW r \in RunId
  PROVE  /\ r \in Rows(Ended)' => r \in Rows(Ended) /\ runs'[r] = runs[r]
         /\ r \in Rows(Ended) /\ NothingDeleted' => runs'[r] = runs[r]
<1>1. ASSUME r \in Rows(Ended)'
      PROVE  r \in Rows(Ended) /\ runs'[r] = runs[r]
  <2>1. RunChange(r) /\ runs'[r] # NoRow /\ runs'[r].status \in Ended
    BY <1>1, RunChanges DEF Rows
  <2>2. CASE \E p \in Procs, t \in ValidTask : Creates(p, t, runs'[r])
    BY <2>1, <2>2 DEF Creates, Live, Ended
  <2>3. CASE \E o \in Retriable, at \in Time :
               runs'[r] = RetryRun(runs[o].task, runs[o].attempt, at)
    BY <2>1, <2>3 DEF RetryRun, Ended
  <2>4. CASE runs[r] # NoRow /\ runs'[r] = [runs[r] EXCEPT !.status = "orphaned"]
    <3>1. runs[r] \in Run
      BY <2>4 DEF TypeOK, TablesOK
    <3> QED
      BY <2>1, <2>4, <3>1 DEF Run, Ended
  <2>5. ~\E j \in Carried : ExecuteRun(j)
    BY DEF Execution
  <2>6. runs'[r] = runs[r]
    BY <2>1, <2>2, <2>3, <2>4, <2>5 DEF RunChange
  <2> QED
    BY <2>1, <2>6 DEF Rows
<1>2. ASSUME r \in Rows(Ended), NothingDeleted'
      PROVE  runs'[r] = runs[r]
  <2>1. runs[r] # NoRow /\ r <= issued
    BY <1>2, IssuedGrows DEF Rows, Custody, Hands, RunId
  <2>2. r \in 1..issued'
    BY <2>1, IssuedGrows DEF RunId
  <2>3. runs'[r] # NoRow
    BY <1>2, <2>2 DEF NothingDeleted
  <2>4. r \in Rows(Terminal)
    BY <1>2 DEF Rows, Ended, Terminal
  <2>5. Final
    BY CustodyStep
  <2> QED
    BY <2>3, <2>4, <2>5 DEF Final
<1> QED
  BY <1>1, <1>2

LEMMA CountedByExecution == [Next]_vars => Execution \/ UNCHANGED daily
<1>1. DispatchExecute \/ RecoverExecute \/ (\E h \in Handlers : RequestExecute(h))
      => Execution
  BY ExecutionSteps
<1> QED
  BY <1>1 DEF Next, vars, disk, Request, Tick, Serve, Boot, Environment,
     handleCreateTask, handleUpdateTask, handleDeleteTask, setTaskEnabled,
     setTaskPaused, handleDeleteRun, handleTriggerTask, TriggerLoad,
     handleRetryRun, RetryLoad, TickBegin, TickScan, DispatchInsert,
     DispatchAdvance, TriggerInsert, RetryInsert, InsertRun,
     Restart, RecoverOrphans, Start, Crash, TickFails, RequestFails,
     RecoverFails, ClockTick

-----------------------------------------------------------------------------
(* A job in hand agrees with the row of its run.                           *)
Traces(j) ==
  j.run \in RunId /\ runs[j.run] # NoRow =>
    /\ runs[j.run].task = j.task.id
    /\ runs[j.run].scheduledAt = j.at

LEMMA CarriedStep ==
  ASSUME TypeOK, Custody, [Next]_vars, NEW j \in Carried'
  PROVE  \/ j \in Carried
         \/ \E p \in Procs, t \in ValidTask, row \in Run :
              /\ Creates(p, t, row) /\ j = job'[p]
         \/ RecoverOrphans /\ j \in pend'
<1> USE ProcsFacts
<1> DEFINE Goal == \/ j \in Carried
                   \/ \E p \in Procs, t \in ValidTask, row \in Run :
                        /\ Creates(p, t, row) /\ j = job'[p]
                   \/ RecoverOrphans /\ j \in pend'
<1>1. ASSUME \A q \in Procs : pc'[q] = "execute" =>
                                pc[q] = "execute" /\ job'[q] = job[q],
             pend' \subseteq pend
      PROVE  Goal
  BY <1>1 DEF Carried, Executing
<1>2. ASSUME NEW p \in Procs, NEW label, label # "execute", NEW k,
             Goto(p, label, k), pend' = pend
      PROVE  Goal
  <2>1. \A q \in Procs : pc'[q] = "execute" =>
                           pc[q] = "execute" /\ job'[q] = job[q]
    BY <1>2, StepsAside
  <2> QED
    BY <1>1, <1>2, <2>1
<1>3. CASE DispatchInsert \/ \E h \in Handlers : TriggerInsert(h) \/ RetryInsert(h)
  <2>1. PICK p \in Procs, t \in ValidTask, row \in Run : Creates(p, t, row)
    BY <1>3, CreationSteps DEF Creation
  <2>2. \A q \in Procs : q # p => pc'[q] = pc[q] /\ job'[q] = job[q]
    BY <2>1 DEF Creates, InsertRun, Goto, TypeOK, GoroutinesOK
  <2>3. pend' = pend
    BY <2>1 DEF Creates
  <2> QED
    BY <2>1, <2>2, <2>3 DEF Carried, Executing
<1>4. CASE RecoverOrphans
  <2>1. UNCHANGED <<pc, job>>
    BY <1>4 DEF RecoverOrphans
  <2> QED
    BY <1>4, <2>1 DEF Carried, Executing
<1>5. CASE Crash
  BY <1>1, <1>5 DEF Crash
<1>6. CASE RecoverExecute \/ RecoverFails
  BY <1>1, <1>6 DEF RecoverExecute, RecoverFails
<1>7. CASE DispatchExecute \/ TickBegin \/ TickScan \/ DispatchAdvance \/ TickFails
  BY <1>2, <1>7 DEF DispatchExecute, TickBegin, TickScan, DispatchAdvance,
     TickFails, Continue
<1>8. ASSUME NEW h \in Handlers,
             \/ handleTriggerTask(h) \/ handleRetryRun(h)
             \/ RequestExecute(h) \/ RequestFails(h)
      PROVE  Goal
  BY <1>2, <1>8 DEF handleTriggerTask, TriggerLoad, handleRetryRun, RetryLoad,
     RequestExecute, RequestFails
<1>9. \/ UNCHANGED vars \/ Restart \/ Start \/ ClockTick
      \/ handleCreateTask \/ handleUpdateTask \/ handleDeleteTask
      \/ setTaskEnabled \/ setTaskPaused \/ handleDeleteRun
      => UNCHANGED <<pc, job, pend>>
  BY DEF vars, engine, Restart, Start, ClockTick, handleCreateTask,
     handleUpdateTask, handleDeleteTask, setTaskEnabled, setTaskPaused,
     handleDeleteRun
<1> QED
  BY <1>1, <1>3, <1>4, <1>5, <1>6, <1>7, <1>8, <1>9
     DEF Next, Request, Tick, Serve, Boot, Environment

(* The retries of recovery are the rows it has just inserted.              *)
LEMMA RecoveredTraces ==
  ASSUME TypeOK, Custody, RecoverOrphans, NEW j \in pend'
  PROVE  /\ j.run \in RunId
         /\ runs'[j.run].task = j.task.id /\ runs'[j.run].scheduledAt = j.at
<1>1. PICK f \in RetryIds(Retriable), at \in [Retriable -> Readings] :
        LET NewRow(o) == RetryRun(runs[o].task, runs[o].attempt, at[o]) IN
        /\ runs' = [r \in RunId |->
                      IF r \in OrphanedRuns(runs)
                      THEN [runs[r] EXCEPT !.status = "orphaned"]
                      ELSE IF \E o \in Retriable : f[o] = r
                      THEN NewRow(CHOOSE o \in Retriable : f[o] = r)
                      ELSE runs[r]]
        /\ pend' = {[task |-> tasks[runs[o].task], run |-> f[o],
                     attempt |-> runs[o].attempt + 1, at |-> at[o]] : o \in Retriable}
  BY DEF RecoverOrphans
<1>2. /\ \A o \in Retriable : f[o] \in RunId /\ f[o] > issued
      /\ \A o, q \in Retriable : f[o] = f[q] => o = q
  BY RetryIdsAreFresh DEF RecoverOrphans, TypeOK
<1>3. PICK o \in Retriable : /\ j.task = tasks[runs[o].task]
                             /\ j.run = f[o] /\ j.at = at[o]
  BY <1>1
<1>4. f[o] \in RunId /\ runs[f[o]] = NoRow
  BY <1>2 DEF Custody, Hands
<1>5. f[o] \notin OrphanedRuns(runs) /\ \E q \in Retriable : f[q] = f[o]
  BY <1>4 DEF OrphanedRuns
<1>6. (CHOOSE q \in Retriable : f[q] = f[o]) = o
  BY <1>2
<1>7. runs'[f[o]] = RetryRun(runs[o].task, runs[o].attempt, at[o])
  BY <1>1, <1>4, <1>5, <1>6
<1>8. j.task.id = runs[o].task
  BY <1>3 DEF Retriable, OrphanedRuns, TypeOK, TablesOK, Run
<1> QED
  BY <1>3, <1>4, <1>7, <1>8 DEF RetryRun

LEMMA TracesStep ==
  ASSUME TypeOK, Custody, \A j \in Carried : Traces(j), [Next]_vars,
         NEW j \in Carried'
  PROVE  Traces(j)'
<1>1. CASE j \in Carried
  <2>1. j.run \in Owed /\ j.run <= issued
    BY <1>1, CarriedTypes DEF Custody, Hands, TypeOK, IdsOK
  <2> SUFFICES ASSUME j.run \in RunId, runs'[j.run] # NoRow
               PROVE  /\ runs'[j.run].task = j.task.id
                      /\ runs'[j.run].scheduledAt = j.at
    BY DEF Traces
  <2> QED
    BY <1>1, <2>1, RowStep DEF Traces
<1>2. CASE \E p \in Procs, t \in ValidTask, row \in Run :
             Creates(p, t, row) /\ j = job'[p]
  <2>1. PICK p \in Procs, t \in ValidTask, row \in Run :
          Creates(p, t, row) /\ j = job'[p]
    BY <1>2
  <2>2. j.run = issued' /\ j.task = t /\ j.at = row.scheduledAt
    BY <2>1 DEF Creates, InsertRun, Goto, TypeOK, GoroutinesOK
  <2>3. j.run \in RunId => runs'[j.run] = row
    BY <2>1, <2>2, CreatedRun
  <2> QED
    BY <2>1, <2>2, <2>3 DEF Traces, Creates
<1>3. CASE RecoverOrphans /\ j \in pend'
  BY <1>3, RecoveredTraces DEF Traces
<1> QED
  BY <1>1, <1>2, <1>3, CarriedStep

(* The ticker executes a run of the current tick and, when it advances the *)
(* task, that run has its outcome.                                         *)
EndedRun(r, id, at) ==
  /\ r \in RunId /\ r <= issued
  /\ runs[r] # NoRow =>
       /\ runs[r].status \in Ended /\ runs[r].task = id
       /\ runs[r].scheduledAt = at

TickerTraces ==
  /\ pc[Ticker] = "execute" => job[Ticker].at = tickAt
  /\ pc[Ticker] = "advance" =>
       EndedRun(job[Ticker].run, job[Ticker].task.id, tickAt)

LEMMA TickerMoves ==
  ASSUME TypeOK, [Next]_vars
  PROVE  \/ pc'[Ticker] = pc[Ticker] /\ job'[Ticker] = job[Ticker] /\ UNCHANGED ticker
         \/ pc'[Ticker] \in {"idle", "scan", "dispatch"}
         \/ DispatchInsert \/ DispatchExecute
<1> USE ProcsFacts
<1>1. ASSUME NEW h \in Handlers,
             \/ handleTriggerTask(h) \/ handleRetryRun(h) \/ TriggerInsert(h)
             \/ RetryInsert(h) \/ RequestExecute(h) \/ RequestFails(h)
      PROVE  /\ pc'[Ticker] = pc[Ticker] /\ job'[Ticker] = job[Ticker]
             /\ UNCHANGED ticker
  <2>1. h # Ticker /\ UNCHANGED ticker
    BY <1>1 DEF handleTriggerTask, TriggerLoad, handleRetryRun, RetryLoad,
       TriggerInsert, RetryInsert, RequestExecute, RequestFails
  <2>2. PICK label, j : Goto(h, label, j)
    BY <1>1 DEF handleTriggerTask, TriggerLoad, handleRetryRun, RetryLoad,
       TriggerInsert, RetryInsert, InsertRun, RequestExecute, RequestFails
  <2> QED
    BY <2>1, <2>2 DEF Goto, TypeOK, GoroutinesOK
<1>2. CASE TickBegin \/ TickScan \/ DispatchAdvance \/ TickFails
  <2>1. PICK label \in {"idle", "scan", "dispatch"} : \E j : Goto(Ticker, label, j)
    BY <1>2 DEF TickBegin, TickScan, DispatchAdvance, TickFails, Continue
  <2> QED
    BY <2>1 DEF Goto, TypeOK, GoroutinesOK
<1>3. CASE Crash
  BY <1>3 DEF Crash
<1>4. \/ UNCHANGED vars \/ Restart \/ RecoverOrphans \/ RecoverExecute \/ Start
      \/ RecoverFails \/ ClockTick
      \/ handleCreateTask \/ handleUpdateTask \/ handleDeleteTask
      \/ setTaskEnabled \/ setTaskPaused \/ handleDeleteRun
      => UNCHANGED <<pc, job, ticker>>
  BY DEF vars, engine, ticker, Restart, RecoverOrphans, RecoverExecute, Start,
         RecoverFails, ClockTick, handleCreateTask, handleUpdateTask,
         handleDeleteTask, setTaskEnabled, setTaskPaused, handleDeleteRun
<1> QED
  BY <1>1, <1>2, <1>3, <1>4 DEF Next, Request, Tick, Serve, Boot, Environment

(* Executing a run gives its row the outcome.                              *)
LEMMA ExecutedOutcome ==
  ASSUME TypeOK, Custody, NEW j \in Carried, ExecuteRun(j), Traces(j)
  PROVE  /\ j.run \in RunId /\ j.run <= issued /\ issued' = issued
         /\ \A r \in RunId : r # j.run => runs'[r] = runs[r]
         /\ runs[j.run] = NoRow => runs'[j.run] = NoRow
         /\ runs[j.run] # NoRow =>
              /\ runs'[j.run] # NoRow /\ runs'[j.run].status = Outcome(j.task)
              /\ runs'[j.run].task = j.task.id /\ runs'[j.run].scheduledAt = j.at
<1>1. j.run \in Owed
  BY CarriedTypes
<1>2. j.run \in RunId /\ j.run <= issued
  BY <1>1, BoundsAssumption DEF Custody, Hands, TypeOK, IdsOK, RunId
<1>3. /\ \A r \in RunId : r # j.run => runs'[r] = runs[r]
      /\ runs[j.run] = NoRow => runs'[j.run] = NoRow
      /\ issued' = issued
  BY <1>1, <1>2, ExecuteTouchesOne
<1>4. ASSUME runs[j.run] # NoRow
      PROVE  /\ runs'[j.run] # NoRow /\ runs'[j.run].status = Outcome(j.task)
             /\ runs'[j.run].task = j.task.id /\ runs'[j.run].scheduledAt = j.at
  <2>1. runs[j.run] \in Run /\ runs \in [RunId -> Run \cup {NoRow}]
    BY <1>2, <1>4 DEF TypeOK, TablesOK
  <2>2. [runs[j.run] EXCEPT !.status = Outcome(j.task)] \in Run
    BY <2>1 DEF Run, Outcome, Terminal
  <2>3. runs'[j.run] = [runs[j.run] EXCEPT !.status = Outcome(j.task)]
    BY <1>2, <1>4, <2>1 DEF ExecuteRun, UpdateRunStatus, Amend
  <2>4. runs'[j.run] # NoRow
    BY <2>2, <2>3, NoRowIsNoRun
  <2> QED
    BY <1>2, <1>4, <2>1, <2>3, <2>4 DEF Run, Traces
<1> QED
  BY <1>2, <1>3, <1>4

LEMMA TickerTracesStep ==
  ASSUME TypeOK, Custody, \A j \in Carried : Traces(j), TickerTraces, [Next]_vars
  PROVE  TickerTraces'
<1> USE ProcsFacts
<1>1. CASE DispatchInsert
  <2>1. PICK t : InsertRun(Ticker, t, FirstAttempt(t, "schedule", tickAt, t.nextRunAt))
    BY <1>1 DEF DispatchInsert
  <2>2. job'[Ticker].at = tickAt /\ pc'[Ticker] = "execute"
    BY <2>1 DEF InsertRun, Goto, FirstAttempt, TypeOK, GoroutinesOK
  <2> QED
    BY <1>1, <2>2 DEF DispatchInsert, TickerTraces
<1>2. CASE DispatchExecute
  <2>1. job[Ticker] \in Carried /\ ExecuteRun(job[Ticker])
    BY <1>2 DEF DispatchExecute, Carried, Executing
  <2>2. job[Ticker].at = tickAt /\ tickAt' = tickAt
    BY <1>2 DEF DispatchExecute, TickerTraces
  <2>3. pc'[Ticker] = "advance" /\ job'[Ticker] = job[Ticker]
    BY <1>2 DEF DispatchExecute, Goto, TypeOK, GoroutinesOK
  <2>4. Outcome(job[Ticker].task) \in Ended
    BY DEF Outcome, Ended
  <2>5. EndedRun(job[Ticker].run, job[Ticker].task.id, tickAt)'
    BY <2>1, <2>2, <2>3, <2>4, ExecutedOutcome DEF EndedRun
  <2> QED
    BY <2>3, <2>5 DEF TickerTraces
<1>3. CASE /\ pc'[Ticker] = pc[Ticker] /\ job'[Ticker] = job[Ticker]
           /\ UNCHANGED ticker
  <2>1. ASSUME NEW r, NEW id, NEW at, EndedRun(r, id, at)
        PROVE  EndedRun(r, id, at)'
    <3>1. r \in RunId /\ r <= issued' /\ r \in Nat
      BY <2>1, IssuedGrows DEF EndedRun, RunId
    <3>2. runs'[r] # NoRow => runs[r] # NoRow
      BY <2>1, RowStep DEF EndedRun
    <3>3. runs[r] # NoRow => r \in Rows(Terminal)
      BY <2>1 DEF EndedRun, Rows, Ended, Terminal
    <3>4. runs[r] # NoRow => runs'[r] = runs[r] \/ runs'[r] = NoRow
      BY <3>3, CustodyStep DEF Final
    <3> QED
      BY <2>1, <3>1, <3>2, <3>4 DEF EndedRun
  <2> QED
    BY <1>3, <2>1 DEF TickerTraces, ticker
<1>4. CASE pc'[Ticker] \in {"idle", "scan", "dispatch"}
  BY <1>4 DEF TickerTraces
<1> QED
  BY <1>1, <1>2, <1>3, <1>4, TickerMoves

-----------------------------------------------------------------------------
(* last_run_at.                                                            *)

Times(id) == {runs[r].scheduledAt : r \in {s \in Rows(Ended) : runs[s].task = id}}

LEMMA LastRunByTimes ==
  LastRunIsARun <=>
    (NothingDeleted => \A id \in TaskId : tasks[id] # NoRow =>
       IF Times(id) = {} THEN tasks[id].lastRunAt = 0
       ELSE tasks[id].lastRunAt \in Times(id))
BY DEF LastRunIsARun, Times, Ended

LEMMA LastRunStep ==
  ASSUME TypeOK, Custody, Known, \A j \in Carried : Traces(j), TickerTraces,
         LastRunIsARun, [Next]_vars
  PROVE  LastRunIsARun'
<1> SUFFICES ASSUME NothingDeleted', NEW id \in TaskId, tasks'[id] # NoRow
             PROVE  /\ Times(id)' = {} => tasks'[id].lastRunAt = 0
                    /\ Times(id)' # {} => tasks'[id].lastRunAt \in Times(id)'
  BY DEF LastRunIsARun, Times, Ended
<1>1. NothingDeleted
  BY Undeleted
<1>2. tasks[id] # NoRow =>
        /\ Times(id) = {} => tasks[id].lastRunAt = 0
        /\ Times(id) # {} => tasks[id].lastRunAt \in Times(id)
  BY <1>1, LastRunByTimes
<1>3. CASE Execution
  <2>1. PICK j \in Carried : ExecuteRun(j)
    BY <1>3 DEF Execution
  <2>2. /\ j.task.id \in TaskId /\ j.at \in Nat /\ Outcome(j.task) \in Ended
    BY CarriedTypes, ClockIsANumber DEF Outcome, Ended
  <2>3. /\ j.run \in RunId /\ j.run \in 1..issued
        /\ \A r \in RunId : r # j.run => runs'[r] = runs[r]
        /\ runs[j.run] # NoRow =>
             /\ runs'[j.run] # NoRow /\ runs'[j.run].status = Outcome(j.task)
             /\ runs'[j.run].task = j.task.id /\ runs'[j.run].scheduledAt = j.at
    BY <2>1, ExecutedOutcome, IssuedGrows DEF RunId
  <2>4. runs[j.run] # NoRow
    BY <1>1, <2>3 DEF NothingDeleted
  <2>5. j.run \notin Rows(Ended)
    <3>1. j.run \notin Rows(Terminal)
      BY CarriedTypes DEF Custody, Hands
    <3> QED
      BY <3>1 DEF Rows, Ended, Terminal
  <2>6. tasks \in TaskTable
    BY DEF TypeOK, TablesOK, TaskTable
  <2>7. tasks' = Amend(tasks, j.task.id, [tasks[j.task.id] EXCEPT !.lastRunAt = j.at])
    BY <2>1 DEF ExecuteRun, SetLastRun
  <2>8. \/ id # j.task.id /\ tasks'[id] = tasks[id]
        \/ /\ id = j.task.id /\ tasks[id] # NoRow
           /\ tasks'[id] = [tasks[id] EXCEPT !.lastRunAt = j.at]
    BY <2>2, <2>6, <2>7 DEF Amend, TaskTable
  <2>9. CASE id # j.task.id
    <3>1. {s \in Rows(Ended)' : runs'[s].task = id}
            = {s \in Rows(Ended) : runs[s].task = id}
      BY <2>3, <2>4, <2>5, <2>9 DEF Rows
    <3>2. Times(id)' = Times(id)
      BY <2>3, <2>4, <2>9, <3>1 DEF Times, Rows
    <3> QED
      BY <1>2, <2>8, <2>9, <3>2
  <2>10. CASE id = j.task.id
    <3>1. j.run \in Rows(Ended)'
      BY <2>2, <2>3, <2>4 DEF Rows
    <3>2. j.at \in Times(id)'
      BY <2>3, <2>4, <2>10, <3>1 DEF Times
    <3>3. tasks[id] \in ValidTask /\ tasks'[id] = [tasks[id] EXCEPT !.lastRunAt = j.at]
      BY <2>6, <2>8, <2>10 DEF TaskTable
    <3>4. tasks'[id].lastRunAt = j.at
      BY <3>3 DEF ValidTask, Task
    <3> QED
      BY <3>2, <3>4
  <2> QED
    BY <2>9, <2>10
<1>4. CASE ~Execution
  <2>1. \A r \in RunId :
          /\ r \in Rows(Ended)' => r \in Rows(Ended) /\ runs'[r] = runs[r]
          /\ r \in Rows(Ended) => runs'[r] = runs[r]
    BY <1>4, EndedStays
  <2>2. Rows(Ended)' = Rows(Ended) /\ \A r \in Rows(Ended) : runs'[r] = runs[r]
    BY <2>1 DEF Rows
  <2>3. Times(id)' = Times(id)
    BY <2>2 DEF Times
  <2>4. TaskChange(id)
    BY TaskChanges
  <2>5. CASE Born(id)
    <3>1. id \notin born
      BY <2>5 DEF Born
    <3>2. Times(id) = {}
      BY <3>1 DEF Times, Rows, Known
    <3> QED
      BY <2>3, <2>5, <3>2 DEF Born
  <2>6. CASE tasks[id] # NoRow /\ Advanced(id)
    <3>1. PICK next : /\ id = job[Ticker].task.id
                      /\ tasks'[id] = [tasks[id] EXCEPT !.nextRunAt = next,
                                                       !.lastRunAt = tickAt]
      BY <2>6 DEF Advanced
    <3>2. tasks[id] \in ValidTask
      BY <2>6 DEF TypeOK, TablesOK
    <3>3. tasks'[id].lastRunAt = tickAt
      BY <3>1, <3>2 DEF ValidTask, Task
    <3>4. EndedRun(job[Ticker].run, id, tickAt)
      BY <2>6, <3>1 DEF Advanced, DispatchAdvance, TickerTraces
    <3>5. job[Ticker].run \in 1..issued
      BY <3>4, IssuedGrows DEF EndedRun, RunId
    <3>6. tickAt \in Times(id)
      BY <1>1, <3>4, <3>5 DEF NothingDeleted, EndedRun, Times, Rows
    <3> QED
      BY <2>3, <3>3, <3>6
  <2>7. CASE tasks[id] # NoRow /\ tasks'[id].lastRunAt = tasks[id].lastRunAt
    BY <1>2, <2>3, <2>7
  <2>8. CASE tasks[id] # NoRow /\ (Rewritten(id) \/ Flagged(id))
    <3>1. tasks[id] \in ValidTask
      BY <2>8 DEF TypeOK, TablesOK
    <3>2. tasks'[id].lastRunAt = tasks[id].lastRunAt
      BY <2>8, <3>1 DEF Rewritten, Flagged, ValidTask, Task
    <3> QED
      BY <2>7, <2>8, <3>2
  <2> QED
    BY <1>4, <2>4, <2>5, <2>6, <2>7, <2>8 DEF TaskChange, Ran, Execution
<1> QED
  BY <1>3, <1>4

-----------------------------------------------------------------------------
(* The daily counters.                                                     *)

Recorded(s, d) == {r \in Rows({s}) : DayOf(runs[r].scheduledAt) = d}
Count(s, d) == IF s = "succeeded" THEN daily[d].succeeded ELSE daily[d].failed

Matches(s, d) ==
  /\ Count(s, d) >= Cardinality(Recorded(s, d))
  /\ NothingDeleted => Count(s, d) = Cardinality(Recorded(s, d))

LEMMA CountersByOutcome ==
  CountersMatchRows <=> \A s \in Ended, d \in Day : Matches(s, d)
<1>1. ASSUME CountersMatchRows, NEW s \in Ended, NEW d \in Day
      PROVE  Matches(s, d)
  BY <1>1 DEF CountersMatchRows, Ended, Matches, Count, Recorded
<1>2. ASSUME \A s \in Ended, d \in Day : Matches(s, d)
      PROVE  CountersMatchRows
  <2> SUFFICES ASSUME NEW d \in Day
               PROVE  /\ daily[d].succeeded >= Cardinality(Recorded("succeeded", d))
                      /\ daily[d].failed >= Cardinality(Recorded("failed", d))
                      /\ NothingDeleted =>
                           /\ daily[d].succeeded = Cardinality(Recorded("succeeded", d))
                           /\ daily[d].failed = Cardinality(Recorded("failed", d))
    BY DEF CountersMatchRows, Recorded
  <2>1. Matches("succeeded", d) /\ Matches("failed", d)
    BY <1>2 DEF Ended
  <2> QED
    BY <2>1 DEF Matches, Count
<1> QED
  BY <1>1, <1>2

LEMMA RecordedFinite ==
  ASSUME NEW s, NEW d
  PROVE  IsFiniteSet(Recorded(s, d)) /\ Cardinality(Recorded(s, d)) \in Nat
<1>1. IsFiniteSet(RunId)
  BY FS_Interval, BoundsAssumption DEF RunId
<1>2. Recorded(s, d) \subseteq RunId
  BY DEF Recorded, Rows
<1> QED
  BY <1>1, <1>2, FS_Subset, FS_CardinalityType

LEMMA CountStep ==
  ASSUME TypeOK, NEW j \in Carried, ExecuteRun(j), NEW s \in Ended, NEW d \in Day
  PROVE  /\ Count(s, d) \in Nat
         /\ s = Outcome(j.task) /\ d = DayOf(j.at) => Count(s, d)' = Count(s, d) + 1
         /\ ~(s = Outcome(j.task) /\ d = DayOf(j.at)) => Count(s, d)' = Count(s, d)
<1>1. DayOf(j.at) \in Day
  BY CarriedTypes, ClockIsANumber
<1>2. daily \in [Day -> [succeeded : Nat, failed : Nat, running : Nat]]
  BY DEF TypeOK, TablesOK
<1>3. Outcome(j.task) \in Ended
  BY DEF Outcome, Ended
<1>4. daily' = [daily EXCEPT ![DayOf(j.at)][Outcome(j.task)] = @ + 1]
  BY <1>3 DEF ExecuteRun, RecordRunOutcome, StatColumn, Ended
<1>5. daily[d] \in [succeeded : Nat, failed : Nat, running : Nat]
  BY <1>2
<1>6. CASE d # DayOf(j.at)
  BY <1>1, <1>2, <1>4, <1>5, <1>6 DEF Count
<1>7. CASE d = DayOf(j.at) /\ Outcome(j.task) = "succeeded"
  <2>1. daily'[d] = [daily[d] EXCEPT !.succeeded = @ + 1]
    BY <1>2, <1>4, <1>7
  <2> QED
    BY <1>5, <1>7, <2>1 DEF Count, Ended
<1>8. CASE d = DayOf(j.at) /\ Outcome(j.task) = "failed"
  <2>1. daily'[d] = [daily[d] EXCEPT !.failed = @ + 1]
    BY <1>2, <1>4, <1>8
  <2> QED
    BY <1>5, <1>8, <2>1 DEF Count, Ended
<1> QED
  BY <1>3, <1>6, <1>7, <1>8 DEF Ended

LEMMA MatchesStep ==
  ASSUME TypeOK, Custody, \A j \in Carried : Traces(j), [Next]_vars,
         NEW s \in Ended, NEW d \in Day, Matches(s, d)
  PROVE  Matches(s, d)'
<1>1. /\ Cardinality(Recorded(s, d)) \in Nat
      /\ Cardinality(Recorded(s, d)') \in Nat
      /\ IsFiniteSet(Recorded(s, d))
  <2>1. Cardinality(Recorded(s, d)) \in Nat /\ IsFiniteSet(Recorded(s, d))
    BY RecordedFinite
  <2>2. IsFiniteSet(RunId) /\ Recorded(s, d)' \subseteq RunId
    BY FS_Interval, BoundsAssumption DEF RunId, Recorded, Rows
  <2> QED
    BY <2>1, <2>2, FS_Subset, FS_CardinalityType
<1>2. NothingDeleted' => NothingDeleted
  BY Undeleted
<1>3. CASE Execution
  <2>1. PICK j \in Carried : ExecuteRun(j)
    BY <1>3 DEF Execution
  <2>2. /\ j.run \in RunId /\ j.run \in 1..issued /\ issued' = issued
        /\ \A r \in RunId : r # j.run => runs'[r] = runs[r]
        /\ runs[j.run] = NoRow => runs'[j.run] = NoRow
        /\ runs[j.run] # NoRow =>
             /\ runs'[j.run] # NoRow /\ runs'[j.run].status = Outcome(j.task)
             /\ runs'[j.run].scheduledAt = j.at
    BY <2>1, ExecutedOutcome, IssuedGrows DEF RunId
  <2>3. j.run \notin Recorded(s, d)
    <3>1. j.run \notin Rows(Terminal)
      BY CarriedTypes DEF Custody, Hands
    <3> QED
      BY <3>1 DEF Recorded, Rows, Ended, Terminal
  <2>4. /\ Count(s, d) \in Nat
        /\ s = Outcome(j.task) /\ d = DayOf(j.at) => Count(s, d)' = Count(s, d) + 1
        /\ ~(s = Outcome(j.task) /\ d = DayOf(j.at)) => Count(s, d)' = Count(s, d)
    BY <2>1, CountStep
  <2>5. CASE s = Outcome(j.task) /\ d = DayOf(j.at) /\ runs[j.run] # NoRow
    <3>1. Recorded(s, d)' = Recorded(s, d) \cup {j.run}
      BY <2>2, <2>5 DEF Recorded, Rows
    <3>2. Cardinality(Recorded(s, d)') = Cardinality(Recorded(s, d)) + 1
      BY <1>1, <2>3, <3>1, FS_AddElement
    <3> QED
      BY <1>1, <1>2, <2>4, <2>5, <3>2 DEF Matches
  <2>6. CASE ~(s = Outcome(j.task) /\ d = DayOf(j.at)) \/ runs[j.run] = NoRow
    <3>1. Recorded(s, d)' = Recorded(s, d)
      BY <2>2, <2>3, <2>6 DEF Recorded, Rows
    <3>2. CASE runs[j.run] = NoRow
      <4>1. ~NothingDeleted'
        BY <2>2, <3>2 DEF NothingDeleted
      <4>2. Count(s, d)' >= Count(s, d) /\ Count(s, d)' \in Nat
        BY <2>4
      <4>3. Count(s, d) >= Cardinality(Recorded(s, d))
        BY DEF Matches
      <4>4. Count(s, d)' >= Cardinality(Recorded(s, d)')
        BY <1>1, <2>4, <3>1, <4>2, <4>3
      <4> QED
        BY <4>1, <4>4 DEF Matches
    <3>3. CASE runs[j.run] # NoRow
      <4>1. Count(s, d)' = Count(s, d)
        BY <2>4, <2>6, <3>3
      <4> QED
        BY <1>2, <3>1, <4>1 DEF Matches
    <3> QED
      BY <3>2, <3>3
  <2> QED
    BY <2>5, <2>6
<1>4. CASE ~Execution
  <2>1. \A r \in RunId :
          /\ r \in Rows(Ended)' => r \in Rows(Ended) /\ runs'[r] = runs[r]
          /\ r \in Rows(Ended) /\ NothingDeleted' => runs'[r] = runs[r]
    BY <1>4, EndedStays
  <2>2. Recorded(s, d)' \subseteq Recorded(s, d)
    BY <2>1 DEF Recorded, Rows, Ended
  <2>3. NothingDeleted' => Recorded(s, d)' = Recorded(s, d)
    BY <2>1, <2>2 DEF Recorded, Rows, Ended
  <2>4. Cardinality(Recorded(s, d)') <= Cardinality(Recorded(s, d))
    BY <1>1, <2>2, FS_Subset
  <2>5. Count(s, d)' = Count(s, d) /\ Count(s, d) \in Nat
    <3>1. daily' = daily
      BY <1>4, CountedByExecution
    <3>2. daily[d] \in [succeeded : Nat, failed : Nat, running : Nat]
      BY DEF TypeOK, TablesOK
    <3> QED
      BY <3>1, <3>2 DEF Count
  <2>6. Count(s, d) >= Cardinality(Recorded(s, d))
    BY DEF Matches
  <2>7. Count(s, d)' >= Cardinality(Recorded(s, d)')
    BY <1>1, <2>4, <2>5, <2>6
  <2>8. NothingDeleted' => Count(s, d)' = Cardinality(Recorded(s, d)')
    BY <1>2, <2>3, <2>5 DEF Matches
  <2> QED
    BY <2>7, <2>8 DEF Matches
<1> QED
  BY <1>3, <1>4

-----------------------------------------------------------------------------
(* With TypeOK, Custody and Records, the inductive invariant of the two    *)
(* theorems below.                                                         *)
History ==
  /\ \A j \in Carried : Traces(j)
  /\ TickerTraces
  /\ LastRunIsARun
  /\ CountersMatchRows

LEMMA HistoryInit == Init => History
<1> SUFFICES ASSUME Init PROVE History
  OBVIOUS
<1>1. Carried = {} /\ pc[Ticker] = "idle"
  BY ProcsFacts DEF Init, Carried, Executing
<1>2. \A S : Rows(S) = {}
  BY DEF Init, Rows
<1>3. LastRunIsARun
  BY DEF Init, LastRunIsARun
<1>4. ASSUME NEW s \in Ended, NEW d \in Day
      PROVE  Matches(s, d)
  <2>1. Recorded(s, d) = {}
    BY <1>2 DEF Recorded
  <2>2. Cardinality(Recorded(s, d)) = 0
    BY <2>1, FS_EmptySet
  <2>3. Count(s, d) = 0
    BY DEF Init, Count, NoStats
  <2> QED
    BY <2>2, <2>3 DEF Matches
<1>5. CountersMatchRows
  BY <1>4, CountersByOutcome
<1> QED
  BY <1>1, <1>3, <1>5 DEF History, TickerTraces

LEMMA HistoryStep ==
  ASSUME TypeOK, Custody, Known, History, [Next]_vars
  PROVE  History'
<1>1. (\A j \in Carried : Traces(j)) /\ TickerTraces /\ LastRunIsARun
  BY DEF History
<1>2. \A s \in Ended, d \in Day : Matches(s, d)
  BY CountersByOutcome DEF History
<1>3. \A s \in Ended, d \in Day : Matches(s, d)'
  BY <1>1, <1>2, MatchesStep
<1>4. CountersMatchRows'
  <2>1. CountersMatchRows' <=> (\A s \in Ended, d \in Day : Matches(s, d))'
    BY CountersByOutcome, PTL
  <2> QED
    BY <1>3, <2>1
<1> QED
  BY <1>1, <1>4, TracesStep, TickerTracesStep, LastRunStep DEF History

LEMMA HistoryHolds == Spec => []History
<1>1. TypeOK /\ Custody /\ Records /\ History /\ [Next]_vars => History'
  BY HistoryStep DEF Records
<1> QED
  BY <1>1, HistoryInit, TypeCorrect, RunsAreInCustody, RecordsHold, PTL DEF Spec

(* last_run_at is the scheduled time of a run of the task that succeeded   *)
(* or failed, for any interleaving of ticks, triggers, retries, edits and  *)
(* crashes.                                                                *)
THEOREM LastRunsAreRuns == Spec => []LastRunIsARun
<1>1. History => LastRunIsARun
  BY DEF History
<1> QED
  BY <1>1, HistoryHolds, PTL

(* The counters of a day never fall behind the rows of that day, and while *)
(* no run was deleted they are exactly their number.                       *)
THEOREM CountersAreExact == Spec => []CountersMatchRows
<1>1. History => CountersMatchRows
  BY DEF History
<1> QED
  BY <1>1, HistoryHolds, PTL

-----------------------------------------------------------------------------
(* Slots: a next_run_at is run before it moves, and dispatched once but    *)
(* for crashes and failed transactions.                                    *)

(* The ticker stands between the insertion of a scheduled run and the      *)
(* SetNextRun that moves its slot.                                         *)
InFlight == pc[Ticker] \in {"execute", "advance"}

TickerCopies == due \cup {t \in {job[Ticker].task} : InFlight}

(* The rows of one tick are of different tasks, due, and each is taken     *)
(* from the list when it is dispatched.                                    *)
OnceDue ==
  /\ \A t, u \in due : t.id = u.id => t = u
  /\ InFlight => \A t \in due : t.id # job[Ticker].task.id
  /\ \A t \in due : 0 < t.nextRunAt /\ t.nextRunAt <= tickAt

(* Without PUT requests only the ticker moves a slot, and the rows it read *)
(* still show it.                                                          *)
Current ==
  "update" \notin Ops =>
    \A t \in TickerCopies :
      tasks[t.id] # NoRow => tasks[t.id].nextRunAt = t.nextRunAt

(* The run in flight is recorded under the slot it was dispatched for.     *)
FlightIsRecorded ==
  InFlight =>
    /\ job[Ticker].run \in RunId /\ job[Ticker].run <= issued
    /\ runs[job[Ticker].run] # NoRow =>
         /\ runs[job[Ticker].run].triggeredBy = "schedule"
         /\ runs[job[Ticker].run].slot = job[Ticker].task.nextRunAt

Scheduled(r) == runs[r] # NoRow /\ runs[r].triggeredBy = "schedule"

(* Slots lie in the past when they are dispatched.                         *)
SlotsArePast ==
  \A r \in RunId : Scheduled(r) =>
    /\ 0 < runs[r].slot /\ runs[r].slot <= now
    /\ pc[Ticker] = "advance" => runs[r].slot <= ranAt

-----------------------------------------------------------------------------
LEMMA DueMoves ==
  ASSUME TypeOK, [Next]_vars
  PROVE  \/ TickScan
         \/ /\ due' \subseteq due
            /\ due' = {} \/ tickAt' = tickAt \/ tickAt' = now
<1>1. CASE TickBegin \/ DispatchInsert \/ DispatchExecute
  BY <1>1 DEF TickBegin, DispatchInsert, DispatchExecute
<1>2. CASE DispatchAdvance \/ TickFails
  BY <1>2 DEF DispatchAdvance, TickFails, Continue
<1>3. CASE Crash
  BY <1>3 DEF Crash
<1>4. \/ UNCHANGED vars \/ Request \/ Boot \/ RecoverFails \/ ClockTick
      \/ \E h \in Handlers : Serve(h) \/ RequestFails(h)
      => UNCHANGED ticker
  BY DEF vars, engine, ticker, Request, handleCreateTask, handleUpdateTask,
     handleDeleteTask, setTaskEnabled, setTaskPaused, handleDeleteRun,
     handleTriggerTask, TriggerLoad, handleRetryRun, RetryLoad, Boot, Restart,
     RecoverOrphans, RecoverExecute, Start, RecoverFails, ClockTick, Serve,
     TriggerInsert, RetryInsert, RequestExecute, RequestFails
<1> QED
  BY <1>1, <1>2, <1>3, <1>4 DEF Next, Tick, Environment, ticker

LEMMA TimeMoves ==
  ASSUME TypeOK, [Next]_vars
  PROVE  /\ now \in Nat /\ now' \in Nat /\ now <= now'
         /\ tickAt \in Nat /\ tickAt <= now
<1>1. now \in Nat /\ tickAt \in Nat /\ tickAt <= now
  BY ClockIsANumber DEF TypeOK, LimitsOK, TickerOK
<1>2. now' = now \/ now' = now + 1
  BY DEF Next, vars, Request, Tick, Serve, Boot, Environment,
     handleCreateTask, handleUpdateTask, handleDeleteTask, setTaskEnabled,
     setTaskPaused, handleDeleteRun, handleTriggerTask, TriggerLoad,
     handleRetryRun, RetryLoad, TickBegin, TickScan, DispatchInsert,
     DispatchExecute, DispatchAdvance, TriggerInsert, RetryInsert,
     RequestExecute, Restart, RecoverOrphans, RecoverExecute, Start,
     Crash, TickFails, RequestFails, RecoverFails, ClockTick
<1> QED
  BY <1>1, <1>2

LEMMA DispatchMoves ==
  ASSUME TypeOK, DispatchInsert
  PROVE  \E t \in due :
           /\ t \in ValidTask /\ due' = due \ {t}
           /\ pc[Ticker] = "dispatch" /\ pc'[Ticker] = "execute"
           /\ job'[Ticker].task = t /\ job'[Ticker].run = issued'
           /\ issued' \in RunId /\ issued' = issued + 1
           /\ runs'[issued'] = FirstAttempt(t, "schedule", tickAt, t.nextRunAt)
           /\ tasks' = tasks /\ now' = now /\ tickAt' = tickAt /\ ranAt' = ranAt
<1> USE ProcsFacts
<1>1. PICK t \in Earliest(due) :
        /\ InsertRun(Ticker, t, FirstAttempt(t, "schedule", tickAt, t.nextRunAt))
        /\ due' = due \ {t}
  BY DEF DispatchInsert
<1>2. t \in due /\ t \in ValidTask
  BY DEF Earliest, TypeOK, TickerOK
<1>3. issued' \in RunId /\ issued' = issued + 1
  BY <1>1, BoundsAssumption DEF InsertRun, RunId, TypeOK, IdsOK
<1>4. /\ pc'[Ticker] = "execute"
      /\ job'[Ticker].task = t /\ job'[Ticker].run = issued'
  BY <1>1 DEF InsertRun, Goto, TypeOK, GoroutinesOK
<1>5. runs'[issued'] = FirstAttempt(t, "schedule", tickAt, t.nextRunAt)
  BY <1>1, <1>3 DEF InsertRun, CreateRun, TypeOK, TablesOK
<1>6. /\ tasks' = tasks /\ now' = now /\ tickAt' = tickAt /\ ranAt' = ranAt
      /\ pc[Ticker] = "dispatch"
  BY <1>1 DEF DispatchInsert, InsertRun
<1> QED
  BY <1>1, <1>2, <1>3, <1>4, <1>5, <1>6

(* How the ticker comes to be in flight.                                   *)
LEMMA FlightMoves ==
  ASSUME TypeOK, [Next]_vars, InFlight'
  PROVE  \/ DispatchInsert
         \/ /\ InFlight /\ job'[Ticker] = job[Ticker] /\ due' = due
            /\ tickAt' = tickAt
            /\ pc'[Ticker] = "advance" =>
                 ranAt' = now \/ (pc[Ticker] = "advance" /\ ranAt' = ranAt)
<1>1. CASE DispatchExecute
  <2>1. pc[Ticker] = "execute" /\ job'[Ticker] = job[Ticker]
    BY <1>1, ProcsFacts DEF DispatchExecute, Goto, TypeOK, GoroutinesOK
  <2> QED
    BY <1>1, <2>1 DEF DispatchExecute, InFlight
<1>2. CASE /\ pc'[Ticker] = pc[Ticker] /\ job'[Ticker] = job[Ticker]
           /\ UNCHANGED ticker
  BY <1>2 DEF InFlight, ticker
<1>3. CASE pc'[Ticker] \in {"idle", "scan", "dispatch"}
  BY <1>3 DEF InFlight
<1> QED
  BY <1>1, <1>2, <1>3, TickerMoves

LEMMA OnceDueStep ==
  ASSUME TypeOK, OnceDue, [Next]_vars
  PROVE  OnceDue'
<1>1. /\ \A t, u \in due' : t.id = u.id => t = u
      /\ \A t \in due' : 0 < t.nextRunAt /\ t.nextRunAt <= tickAt'
  <2>1. CASE TickScan
    <3>1. due' = DueTasks(tasks, tickAt)
      BY <2>1 DEF TickScan, Continue
    <3>2. due' # {} => tickAt' = tickAt
      BY <2>1, <3>1 DEF TickScan, Continue
    <3>3. \A t \in due' : \E id \in TaskId :
            /\ t = tasks[id] /\ t.id = id
            /\ 0 < t.nextRunAt /\ t.nextRunAt <= tickAt
      BY <3>1 DEF DueTasks, TypeOK, TablesOK, ValidTask, Task
    <3> QED
      BY <3>2, <3>3
  <2>2. CASE due' \subseteq due /\ (due' = {} \/ tickAt' = tickAt \/ tickAt' = now)
    <3>1. \A t \in due : t.nextRunAt \in Int
      BY DEF TypeOK, TickerOK, ValidTask, Task
    <3> QED
      BY <2>2, <3>1, TimeMoves DEF OnceDue
  <2> QED
    BY <2>1, <2>2, DueMoves
<1>2. ASSUME InFlight'
      PROVE  \A t \in due' : t.id # job'[Ticker].task.id
  <2>1. CASE DispatchInsert
    BY <2>1, DispatchMoves DEF OnceDue
  <2>2. CASE InFlight /\ job'[Ticker] = job[Ticker] /\ due' = due
    BY <2>2 DEF OnceDue
  <2> QED
    BY <1>2, <2>1, <2>2, FlightMoves
<1> QED
  BY <1>1, <1>2 DEF OnceDue

LEMMA SlotsArePastStep ==
  ASSUME TypeOK, Custody, OnceDue, SlotsArePast, [Next]_vars
  PROVE  SlotsArePast'
<1> SUFFICES ASSUME NEW r \in RunId, runs'[r] # NoRow,
                    runs'[r].triggeredBy = "schedule"
             PROVE  /\ 0 < runs'[r].slot /\ runs'[r].slot <= now'
                    /\ pc'[Ticker] = "advance" => runs'[r].slot <= ranAt'
  BY DEF SlotsArePast, Scheduled
<1>1. /\ now \in Nat /\ now' \in Nat /\ now <= now'
      /\ tickAt \in Nat /\ tickAt <= now /\ ranAt \in Nat
  BY TimeMoves, ClockIsANumber DEF TypeOK, LimitsOK, TickerOK
<1>2. CASE r <= issued
  <2>1. /\ runs[r] # NoRow /\ runs[r].triggeredBy = "schedule"
        /\ runs'[r].slot = runs[r].slot
    BY <1>2, RowStep
  <2>2. runs[r].slot \in Int
    BY <2>1 DEF TypeOK, TablesOK, Run
  <2>3. /\ 0 < runs[r].slot /\ runs[r].slot <= now
        /\ pc[Ticker] = "advance" => runs[r].slot <= ranAt
    BY <2>1 DEF SlotsArePast, Scheduled
  <2>4. pc'[Ticker] = "advance" => runs[r].slot <= ranAt'
    <3>1. CASE DispatchInsert
      BY <3>1, DispatchMoves
    <3>2. CASE pc'[Ticker] = "advance" =>
                 ranAt' = now \/ (pc[Ticker] = "advance" /\ ranAt' = ranAt)
      BY <2>3, <3>2
    <3> QED
      BY <3>1, <3>2, FlightMoves DEF InFlight
  <2> QED
    BY <1>1, <2>1, <2>2, <2>3, <2>4
<1>3. CASE r > issued
  <2>1. runs[r] = NoRow
    BY <1>3 DEF Custody, Hands
  <2>2. RunChange(r)
    BY RunChanges
  <2>3. ASSUME NEW o \in Retriable, NEW at \in Time,
               runs'[r] = RetryRun(runs[o].task, runs[o].attempt, at)
        PROVE  FALSE
    <3>1. runs'[r].triggeredBy = "retry"
      BY <2>3 DEF RetryRun
    <3> QED
      BY <3>1
  <2>4. PICK p \in Procs, t \in ValidTask : Creates(p, t, runs'[r])
    BY <2>1, <2>2, <2>3 DEF RunChange
  <2>5. p = Ticker /\ t \in due /\ runs'[r].slot = t.nextRunAt
    BY <2>4 DEF Creates, FirstAttempt
  <2>6. pc'[Ticker] = "execute" /\ now' = now
    BY <2>4, <2>5, ProcsFacts DEF Creates, InsertRun, Goto, TypeOK, GoroutinesOK
  <2>7. t.nextRunAt \in Int /\ 0 < t.nextRunAt /\ t.nextRunAt <= tickAt
    BY <2>4, <2>5 DEF OnceDue, ValidTask, Task
  <2> QED
    BY <1>1, <2>5, <2>6, <2>7
<1> QED
  BY <1>2, <1>3, IssuedGrows DEF RunId

LEMMA FlightStep ==
  ASSUME TypeOK, Custody, FlightIsRecorded, [Next]_vars
  PROVE  FlightIsRecorded'
<1> SUFFICES ASSUME InFlight'
             PROVE  /\ job'[Ticker].run \in RunId /\ job'[Ticker].run <= issued'
                    /\ runs'[job'[Ticker].run] # NoRow =>
                         /\ runs'[job'[Ticker].run].triggeredBy = "schedule"
                         /\ runs'[job'[Ticker].run].slot = job'[Ticker].task.nextRunAt
  BY DEF FlightIsRecorded
<1>1. CASE DispatchInsert
  <2>1. PICK t \in due :
          /\ job'[Ticker].task = t /\ job'[Ticker].run = issued'
          /\ issued' \in RunId
          /\ runs'[issued'] = FirstAttempt(t, "schedule", tickAt, t.nextRunAt)
    BY <1>1, DispatchMoves
  <2> QED
    BY <2>1, IssuedGrows DEF FirstAttempt
<1>2. CASE InFlight /\ job'[Ticker] = job[Ticker]
  <2> DEFINE r == job[Ticker].run
  <2>1. /\ r \in RunId /\ r <= issued /\ r \in Nat
        /\ runs[r] # NoRow => /\ runs[r].triggeredBy = "schedule"
                              /\ runs[r].slot = job[Ticker].task.nextRunAt
    BY <1>2 DEF FlightIsRecorded, RunId
  <2> HIDE DEF r
  <2>2. runs'[r] # NoRow => /\ runs[r] # NoRow /\ runs'[r].slot = runs[r].slot
                            /\ runs'[r].triggeredBy = runs[r].triggeredBy
    BY <2>1, RowStep
  <2>3. r <= issued'
    BY <2>1, IssuedGrows
  <2>4. job'[Ticker].run = r /\ job'[Ticker].task = job[Ticker].task
    BY <1>2 DEF r
  <2> QED
    BY <2>1, <2>2, <2>3, <2>4
<1> QED
  BY <1>1, <1>2, FlightMoves

-----------------------------------------------------------------------------
(* Without PUT requests the next_run_at of a task that stays is changed by *)
(* the ticker that advances it, and by nobody else.                        *)
LEMMA SlotMoves ==
  ASSUME TypeOK, "update" \notin Ops, [Next]_vars,
         NEW id \in born, tasks'[id] # NoRow,
         tasks'[id].nextRunAt # tasks[id].nextRunAt
  PROVE  tasks[id] # NoRow /\ Advanced(id)
<1>1. id \in TaskId
  BY DEF TypeOK, IdsOK
<1>2. TaskChange(id)
  BY <1>1, TaskChanges
<1>3. CASE tasks[id] # NoRow /\ (Flagged(id) \/ Ran(id))
  <2>1. tasks[id] \in ValidTask
    BY <1>1, <1>3 DEF TypeOK, TablesOK
  <2>2. PICK b, c, d :
          \/ tasks'[id] = [tasks[id] EXCEPT !.enabled = b]
          \/ tasks'[id] = [tasks[id] EXCEPT !.paused = c]
          \/ tasks'[id] = [tasks[id] EXCEPT !.lastRunAt = d]
    BY <1>3 DEF Flagged, Ran
  <2> QED
    BY <2>1, <2>2 DEF ValidTask, Task
<1> QED
  BY <1>2, <1>3 DEF TaskChange, Born, Rewritten

LEMMA CurrentStep ==
  ASSUME TypeOK, Known, OnceDue, Current, [Next]_vars
  PROVE  Current'
<1> USE ProcsFacts
<1> SUFFICES ASSUME "update" \notin Ops, NEW t \in TickerCopies',
                    tasks'[t.id] # NoRow
             PROVE  tasks'[t.id].nextRunAt = t.nextRunAt
  BY DEF Current
<1>1. CASE TickScan
  <2>1. t \in due' /\ due' = DueTasks(tasks, tickAt) /\ tasks' = tasks
    <3>1. ~InFlight'
      BY <1>1 DEF TickScan, Continue, Goto, InFlight, TypeOK, GoroutinesOK
    <3> QED
      BY <1>1, <3>1 DEF TickScan, Continue, disk, TickerCopies
  <2>2. t = tasks[t.id]
    BY <2>1 DEF DueTasks, TypeOK, TablesOK
  <2> QED
    BY <2>1, <2>2
<1>2. CASE t \in TickerCopies
  <2>1. t \in Copies
    BY <1>2 DEF TickerCopies, InFlight, Copies, TypeOK, GoroutinesOK
  <2>2. t.id \in born
    BY <2>1 DEF Known
  <2>3. CASE tasks'[t.id].nextRunAt = tasks[t.id].nextRunAt
    <3>1. tasks[t.id] # NoRow
      BY <2>2, KeepsSpec
    <3> QED
      BY <1>2, <2>3, <3>1 DEF Current
  <2>4. CASE tasks'[t.id].nextRunAt # tasks[t.id].nextRunAt
    <3>1. DispatchAdvance /\ t.id = job[Ticker].task.id
      BY <2>2, <2>4, SlotMoves DEF Advanced
    <3>2. InFlight /\ ~InFlight' /\ due' = due
      BY <3>1 DEF DispatchAdvance, Continue, Goto, InFlight, TypeOK, GoroutinesOK
    <3>3. t \in due
      BY <3>2 DEF TickerCopies
    <3> QED
      BY <3>1, <3>2, <3>3 DEF OnceDue
  <2> QED
    BY <2>3, <2>4
<1>3. CASE ~TickScan /\ t \notin TickerCopies
  <2>1. due' \subseteq due
    BY <1>3, DueMoves
  <2>2. InFlight' /\ t = job'[Ticker].task
    BY <1>3, <2>1 DEF TickerCopies
  <2>3. CASE DispatchInsert
    BY <1>3, <2>2, <2>3, DispatchMoves DEF TickerCopies
  <2>4. CASE InFlight /\ job'[Ticker] = job[Ticker]
    BY <1>3, <2>2, <2>4 DEF TickerCopies
  <2> QED
    BY <2>2, <2>3, <2>4, FlightMoves
<1> QED
  BY <1>1, <1>2, <1>3

-----------------------------------------------------------------------------
Slots == OnceDue /\ Current /\ FlightIsRecorded /\ SlotsArePast

LEMMA SlotsHold == Spec => []Slots
<1>1. Init => Slots
  BY ProcsFacts DEF Init, Slots, OnceDue, Current, TickerCopies, InFlight,
     FlightIsRecorded, SlotsArePast, Scheduled
<1>2. TypeOK /\ Custody /\ Records /\ Slots /\ [Next]_vars => Slots'
  BY OnceDueStep, CurrentStep, FlightStep, SlotsArePastStep DEF Slots, Records
<1> QED
  BY <1>1, <1>2, TypeCorrect, RunsAreInCustody, RecordsHold, PTL DEF Spec

LEMMA SlotMovesAfterRun ==
  ASSUME TypeOK, Known, History, Slots, [Next]_vars,
         "update" \notin Ops, NothingDeleted, NEW id \in TaskId,
         tasks[id] # NoRow, tasks'[id] # NoRow,
         tasks'[id].nextRunAt # tasks[id].nextRunAt
  PROVE  \E r \in Rows({"succeeded", "failed"}) :
           /\ runs[r].task = id /\ runs[r].triggeredBy = "schedule"
           /\ runs[r].slot = tasks[id].nextRunAt
<1> DEFINE r == job[Ticker].run
<1>1. DispatchAdvance /\ id = job[Ticker].task.id
  <2>1. id \in born
    BY DEF Known
  <2> QED
    BY <2>1, SlotMoves DEF Advanced
<1>2. InFlight /\ EndedRun(r, id, tickAt)
  BY <1>1 DEF DispatchAdvance, InFlight, History, TickerTraces
<1>3. r \in RunId /\ runs[r] # NoRow
  <2>1. r \in 1..issued
    BY <1>2, IssuedGrows DEF EndedRun, RunId
  <2> QED
    BY <1>2, <2>1 DEF EndedRun, NothingDeleted
<1>4. runs[r].triggeredBy = "schedule" /\ runs[r].slot = job[Ticker].task.nextRunAt
  BY <1>2, <1>3 DEF Slots, FlightIsRecorded
<1>5. tasks[id].nextRunAt = job[Ticker].task.nextRunAt
  BY <1>1, <1>2 DEF Slots, Current, TickerCopies
<1>6. r \in Rows({"succeeded", "failed"}) /\ runs[r].task = id
  BY <1>2, <1>3 DEF EndedRun, Ended, Rows
<1> QED
  BY <1>4, <1>5, <1>6

(* No slot is skipped: a next_run_at moves only when a scheduled run of it *)
(* has its outcome, however many transactions failed and whenever the      *)
(* process died.                                                           *)
THEOREM SlotsAreRun == Spec => SlotIsRunBeforeItMoves
<1> DEFINE A == ("update" \notin Ops /\ NothingDeleted) =>
                  \A id \in TaskId :
                    tasks[id] # NoRow /\ tasks'[id] # NoRow
                      /\ tasks'[id].nextRunAt # tasks[id].nextRunAt
                    => \E r \in Rows({"succeeded", "failed"}) :
                         /\ runs[r].task = id /\ runs[r].triggeredBy = "schedule"
                         /\ runs[r].slot = tasks[id].nextRunAt
<1>1. TypeOK /\ Known /\ History /\ Slots /\ [Next]_vars => A
  BY SlotMovesAfterRun
<1>2. Records => Known
  BY DEF Records
<1>3. TypeOK /\ Known /\ History /\ Slots /\ [Next]_vars => [A]_vars
  BY <1>1
<1> QED
  BY <1>2, <1>3, TypeCorrect, RecordsHold, HistoryHolds, SlotsHold, PTL
     DEF Spec, SlotIsRunBeforeItMoves

-----------------------------------------------------------------------------
(* How often a slot is dispatched.                                         *)

RunsOfSlot(id, s) ==
  {r \in RunId : Scheduled(r) /\ runs[r].task = id /\ runs[r].slot = s}

(* The slot may be dispatched without another crash or failure: it is on   *)
(* the ticker's list, or the next scan finds it.                           *)
Ready(id, s) ==
  \/ \E t \in due : t.id = id /\ t.nextRunAt = s
  \/ /\ tasks[id] # NoRow /\ tasks[id].nextRunAt = s
     /\ ~(InFlight /\ job[Ticker].task.id = id)

Spent(id, s) == IF Ready(id, s) THEN 0 ELSE 1

Dispatched(id, s) ==
  Cardinality(RunsOfSlot(id, s)) <= crashes + faults + Spent(id, s)

LEMMA RunsOfSlotFinite ==
  ASSUME NEW id, NEW s
  PROVE  /\ IsFiniteSet(RunsOfSlot(id, s)) /\ IsFiniteSet(RunsOfSlot(id, s)')
         /\ Cardinality(RunsOfSlot(id, s)) \in Nat
         /\ Cardinality(RunsOfSlot(id, s)') \in Nat
<1>1. IsFiniteSet(RunId)
  BY FS_Interval, BoundsAssumption DEF RunId
<1>2. RunsOfSlot(id, s) \subseteq RunId /\ RunsOfSlot(id, s)' \subseteq RunId
  BY DEF RunsOfSlot
<1> QED
  BY <1>1, <1>2, FS_Subset, FS_CardinalityType

LEMMA LimitsKept == [Next]_vars /\ ~Mishap => UNCHANGED limits
BY DEF Next, Mishap, vars, limits, Request, Tick, Serve, Boot, Environment,
   handleCreateTask, handleUpdateTask, handleDeleteTask, setTaskEnabled,
   setTaskPaused, handleDeleteRun, handleTriggerTask, TriggerLoad,
   handleRetryRun, RetryLoad, TickBegin, TickScan, DispatchInsert,
   DispatchExecute, DispatchAdvance, TriggerInsert, RetryInsert,
   RequestExecute, Restart, RecoverOrphans, RecoverExecute, Start, ClockTick

(* The runs of a slot grow by the ticker's dispatch of it only.            *)
LEMMA SlotGrows ==
  ASSUME TypeOK, Custody, [Next]_vars, NEW id, NEW s
  PROVE  \/ RunsOfSlot(id, s)' \subseteq RunsOfSlot(id, s)
         \/ /\ RunsOfSlot(id, s)' \subseteq RunsOfSlot(id, s) \cup {issued'}
            /\ \E t \in due, row \in Run :
                 /\ t.id = id /\ t.nextRunAt = s /\ Creates(Ticker, t, row)
<1>1. ASSUME NEW r \in RunsOfSlot(id, s)', r <= issued
      PROVE  r \in RunsOfSlot(id, s)
  BY <1>1, RowStep DEF RunsOfSlot, Scheduled
<1>2. ASSUME NEW r \in RunsOfSlot(id, s)', ~(r <= issued)
      PROVE  /\ r = issued'
             /\ \E t \in due, row \in Run :
                  /\ t.id = id /\ t.nextRunAt = s /\ Creates(Ticker, t, row)
  <2>1. /\ r \in RunId /\ runs'[r] # NoRow /\ runs'[r].triggeredBy = "schedule"
        /\ runs'[r].task = id /\ runs'[r].slot = s
    BY DEF RunsOfSlot, Scheduled
  <2>2. runs[r] = NoRow
    BY <1>2, <2>1, IssuedGrows DEF Custody, Hands, RunId
  <2>3. ASSUME NEW o \in Retriable, NEW at \in Time,
               runs'[r] = RetryRun(runs[o].task, runs[o].attempt, at)
        PROVE  FALSE
    <3>1. runs'[r].triggeredBy = "retry"
      BY <2>3 DEF RetryRun
    <3> QED
      BY <2>1, <3>1
  <2>4. RunChange(r)
    BY <2>1, RunChanges
  <2>5. r = issued' /\ \E p \in Procs, t \in ValidTask : Creates(p, t, runs'[r])
    BY <2>1, <2>2, <2>3, <2>4 DEF RunChange
  <2>6. PICK p \in Procs, t \in ValidTask : Creates(p, t, runs'[r])
    BY <2>5
  <2>7. p = Ticker /\ t \in due /\ runs'[r].slot = t.nextRunAt /\ t.id = runs'[r].task
    BY <2>1, <2>6 DEF Creates, FirstAttempt
  <2>8. runs'[r] \in Run
    BY <2>6 DEF Creates
  <2> QED
    BY <2>1, <2>5, <2>6, <2>7, <2>8
<1> QED
  BY <1>1, <1>2

(* A slot becomes ready again without a crash or a failure only when it    *)
(* was never dispatched.                                                   *)
LEMMA ReadyStep ==
  ASSUME TypeOK, Known, OnceDue, SlotsArePast, "update" \notin Ops, [Next]_vars,
         ~Mishap, NEW id \in TaskId, NEW s \in Int, Ready(id, s)'
  PROVE  Ready(id, s) \/ RunsOfSlot(id, s) = {}
<1> USE ProcsFacts
<1>1. CASE \E t \in due' : t.id = id /\ t.nextRunAt = s
  <2>1. PICK t \in due' : t.id = id /\ t.nextRunAt = s
    BY <1>1
  <2>2. CASE TickScan
    <3>1. t = tasks[id] /\ tasks[id] # NoRow
      BY <2>1, <2>2 DEF TickScan, Continue, DueTasks, TypeOK, TablesOK
    <3> QED
      BY <2>1, <2>2, <3>1 DEF TickScan, InFlight, Ready
  <2>3. CASE due' \subseteq due
    BY <2>1, <2>3 DEF Ready
  <2> QED
    BY <2>2, <2>3, DueMoves
<1>2. CASE /\ tasks'[id] # NoRow /\ tasks'[id].nextRunAt = s
           /\ ~(InFlight' /\ job'[Ticker].task.id = id)
  <2>1. CASE id \notin born
    BY <2>1 DEF RunsOfSlot, Scheduled, Known
  <2>2. CASE id \in born /\ ~DispatchAdvance
    <3>1. tasks[id] # NoRow
      BY <1>2, <2>2, KeepsSpec
    <3>2. tasks[id].nextRunAt = s
      BY <1>2, <2>2, SlotMoves DEF Advanced
    <3>3. ~(InFlight /\ job[Ticker].task.id = id)
      <4> SUFFICES ASSUME InFlight, job[Ticker].task.id = id PROVE FALSE
        OBVIOUS
      <4>1. CASE UNCHANGED <<pc[Ticker], job[Ticker]>>
        BY <1>2, <4>1 DEF InFlight
      <4>2. CASE DispatchExecute
        BY <1>2, <4>2 DEF DispatchExecute, Goto, InFlight, TypeOK, GoroutinesOK
      <4>3. CASE DispatchInsert
        BY <4>3 DEF DispatchInsert, InFlight
      <4>4. CASE pc'[Ticker] \in {"idle", "scan", "dispatch"} /\ ~DispatchExecute
                 /\ ~DispatchInsert
        <5>1. pc'[Ticker] # pc[Ticker]
          BY <4>4 DEF InFlight
        <5>2. ~TickBegin /\ ~TickScan
          BY DEF InFlight, TickBegin, TickScan
        <5>3. ~Tick
          BY <2>2, <4>4, <5>2 DEF Tick
        <5>4. ASSUME NEW h \in Handlers, NEW label, NEW j, Goto(h, label, j)
              PROVE  pc'[Ticker] = pc[Ticker]
          BY <5>4 DEF Goto, TypeOK, GoroutinesOK
        <5>5. ASSUME NEW h \in Handlers,
                     Serve(h) \/ handleTriggerTask(h) \/ handleRetryRun(h)
              PROVE  pc'[Ticker] = pc[Ticker]
          BY <5>4, <5>5 DEF Serve, TriggerInsert, RetryInsert, InsertRun,
             RequestExecute, handleTriggerTask, TriggerLoad, handleRetryRun,
             RetryLoad
        <5>6. \/ UNCHANGED vars \/ Boot \/ ClockTick
              \/ handleCreateTask \/ handleUpdateTask \/ handleDeleteTask
              \/ setTaskEnabled \/ setTaskPaused \/ handleDeleteRun
              => UNCHANGED pc
          BY DEF vars, engine, Boot, Restart, RecoverOrphans, RecoverExecute,
             Start, ClockTick, handleCreateTask, handleUpdateTask,
             handleDeleteTask, setTaskEnabled, setTaskPaused, handleDeleteRun
        <5> QED
          BY <5>1, <5>3, <5>5, <5>6 DEF Next, Request, Environment, Mishap
      <4> QED
        BY <4>1, <4>2, <4>3, <4>4, TickerMoves
    <3> QED
      BY <3>1, <3>2, <3>3 DEF Ready
  <2>3. CASE id \in born /\ DispatchAdvance /\ id # job[Ticker].task.id
    <3>1. tasks[id] # NoRow
      BY <1>2, <2>3, KeepsSpec
    <3>2. tasks[id].nextRunAt = s
      BY <1>2, <2>3, SlotMoves DEF Advanced
    <3> QED
      BY <2>3, <3>1, <3>2 DEF Ready
  <2>4. CASE id \in born /\ DispatchAdvance /\ id = job[Ticker].task.id
    <3>1. tasks[id] # NoRow
      BY <1>2, <2>4, KeepsSpec
    <3>2. PICK at \in ranAt..now :
            tasks' = SetNextRun(tasks, id, NextAfter(job[Ticker].task, at), tickAt)
      BY <2>4 DEF DispatchAdvance
    <3>3. tasks[id] \in ValidTask /\ tasks \in TaskTable
      BY <3>1 DEF TypeOK, TablesOK, TaskTable
    <3>4. tasks'[id].nextRunAt = NextAfter(job[Ticker].task, at)
      <4> DEFINE next == NextAfter(job[Ticker].task, at)
      <4>1. tasks' = [tasks EXCEPT ![id] =
                        [tasks[id] EXCEPT !.nextRunAt = next, !.lastRunAt = tickAt]]
        BY <3>1, <3>2 DEF SetNextRun, Amend
      <4> HIDE DEF next
      <4>2. tasks'[id] = [tasks[id] EXCEPT !.nextRunAt = next, !.lastRunAt = tickAt]
        BY <3>3, <4>1 DEF TaskTable
      <4>3. tasks'[id].nextRunAt = next
        BY <3>3, <4>2 DEF ValidTask, Task
      <4> QED
        BY <4>3 DEF next
    <3>5. /\ now \in Nat /\ ranAt \in Nat /\ at \in Time /\ ranAt <= at
          /\ at \in Nat
      <4>1. now \in Time /\ Time \subseteq Nat /\ ranAt \in 0..now /\ ranAt # 0
        BY <2>4, ClockIsANumber DEF DispatchAdvance, TypeOK, LimitsOK, TickerOK
      <4> QED
        BY <4>1, BoundsAssumption DEF Time
    <3>6. s = 0 \/ s > at
      <4>1. job[Ticker].task \in ValidTask
        BY <2>4, JobTypes DEF DispatchAdvance, TypeOK
      <4>2. job[Ticker].task.specType = "cron" =>
              job[Ticker].task.cronExpr \in CronExpr
        BY <4>1 DEF ValidTask, Task, Validate
      <4>3. s = NextAfter(job[Ticker].task, at)
        BY <1>2, <3>4
      <4> QED
        BY <3>5, <4>2, <4>3, CronAssumption DEF NextAfter, ComputeNextCron
    <3>7. ASSUME NEW r \in RunsOfSlot(id, s)
          PROVE  FALSE
      <4>1. 0 < s /\ s <= ranAt
        BY <2>4, <3>7 DEF RunsOfSlot, SlotsArePast, DispatchAdvance
      <4> QED
        BY <3>5, <3>6, <4>1
    <3> QED
      BY <3>7
  <2> QED
    BY <2>1, <2>2, <2>3, <2>4
<1> QED
  BY <1>1, <1>2 DEF Ready

LEMMA DispatchedStep ==
  ASSUME TypeOK, Custody, Known, OnceDue, SlotsArePast, "update" \notin Ops,
         [Next]_vars, NEW id \in TaskId, NEW s \in Int, Dispatched(id, s)
  PROVE  Dispatched(id, s)'
<1> DEFINE n == Cardinality(RunsOfSlot(id, s))
<1>1. /\ n \in Nat /\ n' \in Nat
      /\ IsFiniteSet(RunsOfSlot(id, s)) /\ IsFiniteSet(RunsOfSlot(id, s)')
  BY RunsOfSlotFinite
<1>2. crashes \in Nat /\ faults \in Nat /\ crashes' \in Nat /\ faults' \in Nat
  <2>1. LimitsOK /\ LimitsOK'
    BY LimitsStep DEF TypeOK
  <2> QED
    BY <2>1, SchedulerAssumption DEF LimitsOK
<1>3. Spent(id, s) \in {0, 1} /\ Spent(id, s)' \in {0, 1}
  BY DEF Spent
<1>4. n <= crashes + faults + Spent(id, s)
  BY DEF Dispatched
<1>5. CASE Mishap
  <2>1. RunsOfSlot(id, s)' = RunsOfSlot(id, s)
    BY <1>5, MishapStep DEF RunsOfSlot, Scheduled
  <2>2. n' = n
    BY <2>1
  <2>3. \/ crashes' = crashes + 1 /\ faults' = faults
        \/ crashes' = crashes /\ faults' = faults + 1
    BY <1>5 DEF Mishap, Crash, TickFails, RecoverFails, RequestFails
  <2> HIDE DEF n
  <2>4. n' <= crashes' + faults' + Spent(id, s)'
    BY <1>1, <1>2, <1>3, <1>4, <2>2, <2>3
  <2> QED
    BY <2>4 DEF Dispatched, n
<1>6. CASE ~Mishap /\ RunsOfSlot(id, s)' \subseteq RunsOfSlot(id, s)
  <2>1. crashes' = crashes /\ faults' = faults
    BY <1>6, LimitsKept DEF limits
  <2>2. n' <= n
    BY <1>1, <1>6, FS_Subset
  <2>3. Ready(id, s)' => Ready(id, s) \/ RunsOfSlot(id, s) = {}
    BY <1>6, ReadyStep
  <2>4. RunsOfSlot(id, s) = {} => n = 0
    BY FS_EmptySet
  <2>5. n = 0 \/ Spent(id, s) <= Spent(id, s)'
    BY <2>3, <2>4 DEF Spent
  <2> HIDE DEF n
  <2>6. n' <= crashes' + faults' + Spent(id, s)'
    BY <1>1, <1>2, <1>3, <1>4, <2>1, <2>2, <2>5
  <2> QED
    BY <2>6 DEF Dispatched, n
<1>7. CASE /\ ~Mishap
           /\ RunsOfSlot(id, s)' \subseteq RunsOfSlot(id, s) \cup {issued'}
           /\ \E t \in due, row \in Run :
                /\ t.id = id /\ t.nextRunAt = s /\ Creates(Ticker, t, row)
  <2>1. crashes' = crashes /\ faults' = faults
    BY <1>7, LimitsKept DEF limits
  <2>2. PICK t \in due, row \in Run :
          /\ t.id = id /\ t.nextRunAt = s /\ Creates(Ticker, t, row)
    BY <1>7
  <2>3. Spent(id, s) = 0
    BY <2>2 DEF Spent, Ready
  <2>4. Spent(id, s)' = 1
    <3>1. /\ due' = due \ {t} /\ job'[Ticker].task = t /\ pc'[Ticker] = "execute"
      BY <2>2, ProcsFacts DEF Creates, InsertRun, Goto, TypeOK, GoroutinesOK
    <3>2. InFlight' /\ \A u \in due' : u.id # id
      BY <2>2, <3>1 DEF InFlight, OnceDue
    <3>3. ~Ready(id, s)'
      BY <2>2, <3>1, <3>2 DEF Ready
    <3> QED
      BY <3>3 DEF Spent
  <2>5. n' <= n + 1
    <3>1. /\ IsFiniteSet(RunsOfSlot(id, s) \cup {issued'})
          /\ Cardinality(RunsOfSlot(id, s) \cup {issued'}) \in {n, n + 1}
      BY <1>1, FS_AddElement
    <3>2. n' <= Cardinality(RunsOfSlot(id, s) \cup {issued'})
      BY <1>7, <3>1, FS_Subset
    <3> HIDE DEF n
    <3> QED
      BY <1>1, <3>1, <3>2
  <2> HIDE DEF n
  <2>6. n' <= crashes' + faults' + Spent(id, s)'
    BY <1>1, <1>2, <1>4, <2>1, <2>3, <2>4, <2>5
  <2> QED
    BY <2>6 DEF Dispatched, n
<1> QED
  BY <1>5, <1>6, <1>7, SlotGrows

AllDispatched ==
  "update" \notin Ops => \A id \in TaskId, s \in Int : Dispatched(id, s)

LEMMA SlotsAreCounted == Spec => []AllDispatched
<1>1. Init => AllDispatched
  <2> SUFFICES ASSUME Init, NEW id \in TaskId, NEW s \in Int
               PROVE  Dispatched(id, s)
    BY DEF AllDispatched
  <2>1. RunsOfSlot(id, s) = {}
    BY DEF Init, RunsOfSlot, Scheduled
  <2>2. Cardinality(RunsOfSlot(id, s)) = 0
    BY <2>1, FS_EmptySet
  <2>3. crashes = 0 /\ faults = 0 /\ Spent(id, s) \in {0, 1}
    BY DEF Init, Spent
  <2> QED
    BY <2>2, <2>3 DEF Dispatched
<1>2. TypeOK /\ Custody /\ Records /\ Slots /\ AllDispatched /\ [Next]_vars
      => AllDispatched'
  BY DispatchedStep DEF AllDispatched, Records, Slots
<1> QED
  BY <1>1, <1>2, TypeCorrect, RunsAreInCustody, RecordsHold, SlotsHold, PTL
     DEF Spec

(* A slot is dispatched once; every further run of it is paid for by a     *)
(* crash or a failed transaction.                                          *)
THEOREM SlotsRunOnce == Spec => []OneRunPerSlot
<1>1. TypeOK /\ AllDispatched => OneRunPerSlot
  <2> SUFFICES ASSUME TypeOK, AllDispatched, "update" \notin Ops,
                      NEW r \in RunId, runs[r] # NoRow,
                      runs[r].triggeredBy = "schedule"
               PROVE  Cardinality({q \in RunId :
                                     /\ runs[q] # NoRow
                                     /\ runs[q].triggeredBy = "schedule"
                                     /\ runs[q].task = runs[r].task
                                     /\ runs[q].slot = runs[r].slot})
                        <= 1 + crashes + faults
    BY DEF OneRunPerSlot
  <2> DEFINE n == Cardinality(RunsOfSlot(runs[r].task, runs[r].slot))
             spent == Spent(runs[r].task, runs[r].slot)
  <2>1. runs[r].task \in TaskId /\ runs[r].slot \in Int
    BY DEF TypeOK, TablesOK, Run
  <2>2. n <= crashes + faults + spent
    BY <2>1 DEF AllDispatched, Dispatched
  <2>3. n \in Nat /\ spent \in {0, 1} /\ crashes \in Nat /\ faults \in Nat
    BY RunsOfSlotFinite, SchedulerAssumption DEF Spent, TypeOK, LimitsOK
  <2>4. {q \in RunId : /\ runs[q] # NoRow
                       /\ runs[q].triggeredBy = "schedule"
                       /\ runs[q].task = runs[r].task
                       /\ runs[q].slot = runs[r].slot}
          = RunsOfSlot(runs[r].task, runs[r].slot)
    BY DEF RunsOfSlot, Scheduled
  <2> HIDE DEF spent
  <2>5. n <= 1 + crashes + faults
    <3> HIDE DEF n
    <3> QED
      BY <2>2, <2>3
  <2> QED
    BY <2>4, <2>5
<1> QED
  BY <1>1, TypeCorrect, SlotsAreCounted, PTL
=============================================================================
