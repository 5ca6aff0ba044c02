---------------------------- MODULE EngineProofs ----------------------------
(***************************************************************************)
(* Theorems about Engine, for every set of tasks, handlers and requests,   *)
(* every bound and every number of crashes and failed transactions.        *)
(***************************************************************************)
EXTENDS EngineProperties, FiniteSetTheorems, TLAPS

-----------------------------------------------------------------------------
(* The tables.  Each statement of package store keeps the kind of rows its *)
(* table holds.                                                            *)

TaskTable == [TaskId -> ValidTask \cup {NoRow}]
RunTable  == [RunId -> Run \cup {NoRow}]

(* A statement that updates a row of tasks by its id keeps every row       *)
(* stored under its own id.                                                *)
Keyed(ts) == \A id \in TaskId : ts[id] # NoRow => ts[id].id = id

LEMMA NoRowIsNoTask == NoRow \notin ValidTask
BY NoRowAssumption DEF ValidTask

LEMMA NoRowIsNoRun == NoRow \notin Run
BY NoRowAssumption

LEMMA AmendTask ==
  ASSUME NEW ts \in TaskTable, Keyed(ts), NEW id \in TaskId, NEW row,
         ts[id] # NoRow => row \in ValidTask /\ row.id = id
  PROVE  Amend(ts, id, row) \in TaskTable /\ Keyed(Amend(ts, id, row))
<1>1. CASE ts[id] = NoRow
  BY <1>1 DEF Amend
<1>2. CASE ts[id] # NoRow
  <2>1. Amend(ts, id, row) = [ts EXCEPT ![id] = row]
    BY <1>2 DEF Amend
  <2> QED
    BY <1>2, <2>1 DEF TaskTable, Keyed
<1> QED
  BY <1>1, <1>2

(* The single columns may be set on any valid row.                         *)
LEMMA SetColumns ==
  ASSUME NEW t \in ValidTask, NEW next \in Int, NEW last \in Nat, NEW b \in BOOLEAN
  PROVE  /\ [t EXCEPT !.lastRunAt = last] \in ValidTask
         /\ [t EXCEPT !.lastRunAt = last].id = t.id
         /\ [t EXCEPT !.nextRunAt = next, !.lastRunAt = last] \in ValidTask
         /\ [t EXCEPT !.nextRunAt = next, !.lastRunAt = last].id = t.id
         /\ [t EXCEPT !.enabled = b] \in ValidTask
         /\ [t EXCEPT !.enabled = b].id = t.id
         /\ [t EXCEPT !.paused = b] \in ValidTask
         /\ [t EXCEPT !.paused = b].id = t.id
BY DEF ValidTask, Task, Validate

LEMMA SetColumnTypes ==
  ASSUME NEW ts \in TaskTable, Keyed(ts), NEW id \in TaskId,
         NEW next \in Int, NEW last \in Nat, NEW b \in BOOLEAN
  PROVE  /\ SetLastRun(ts, id, last) \in TaskTable
         /\ Keyed(SetLastRun(ts, id, last))
         /\ SetNextRun(ts, id, next, last) \in TaskTable
         /\ Keyed(SetNextRun(ts, id, next, last))
         /\ SetEnabled(ts, id, b) \in TaskTable
         /\ Keyed(SetEnabled(ts, id, b))
         /\ SetPaused(ts, id, b) \in TaskTable
         /\ Keyed(SetPaused(ts, id, b))
<1>1. ts[id] # NoRow => ts[id] \in ValidTask /\ ts[id].id = id
  BY DEF TaskTable, Keyed
<1>2. ts[id] # NoRow =>
        LET row == [ts[id] EXCEPT !.lastRunAt = last]
        IN  row \in ValidTask /\ row.id = id
  BY <1>1, SetColumns
<1>3. ts[id] # NoRow =>
        LET row == [ts[id] EXCEPT !.nextRunAt = next, !.lastRunAt = last]
        IN  row \in ValidTask /\ row.id = id
  BY <1>1, SetColumns
<1>4. ts[id] # NoRow =>
        LET row == [ts[id] EXCEPT !.enabled = b]
        IN  row \in ValidTask /\ row.id = id
  BY <1>1, SetColumns
<1>5. ts[id] # NoRow =>
        LET row == [ts[id] EXCEPT !.paused = b]
        IN  row \in ValidTask /\ row.id = id
  BY <1>1, SetColumns
<1> QED
  BY <1>2, <1>3, <1>4, <1>5, AmendTask
     DEF SetLastRun, SetNextRun, SetEnabled, SetPaused

LEMMA UpdateRunStatusType ==
  ASSUME NEW rs \in RunTable, NEW r, NEW status \in Live \cup Terminal
  PROVE  UpdateRunStatus(rs, r, status) \in RunTable
<1>1. CASE rs[r] = NoRow \/ r \notin RunId
  BY <1>1 DEF UpdateRunStatus, Amend, RunTable
<1>2. CASE rs[r] # NoRow /\ r \in RunId
  <2>1. rs[r] \in Run
    BY <1>2 DEF RunTable
  <2>2. [rs[r] EXCEPT !.status = status] \in Run
    BY <2>1 DEF Run
  <2> QED
    BY <1>2, <2>2 DEF UpdateRunStatus, Amend, RunTable
<1> QED
  BY <1>1, <1>2

LEMMA RecordRunOutcomeType ==
  ASSUME NEW sd \in [Day -> [succeeded : Nat, failed : Nat, running : Nat]],
         NEW day \in Day, NEW status \in {"succeeded", "failed"}
  PROVE  RecordRunOutcome(sd, day, status)
           \in [Day -> [succeeded : Nat, failed : Nat, running : Nat]]
<1>1. sd[day] \in [succeeded : Nat, failed : Nat, running : Nat]
  OBVIOUS
<1>2. CASE status = "succeeded"
  BY <1>1, <1>2 DEF RecordRunOutcome, StatColumn
<1>3. CASE status = "failed"
  BY <1>1, <1>3 DEF RecordRunOutcome, StatColumn
<1> QED
  BY <1>2, <1>3

(* The rows the engine inserts.                                            *)
LEMMA NewRunTypes ==
  /\ \A t \in ValidTask, trigger \in Triggers, at \in Time, slot \in Int :
       FirstAttempt(t, trigger, at, slot) \in Run
  /\ \A id \in TaskId, attempt \in Nat, at \in Time :
       RetryRun(id, attempt, at) \in Run
<1>1. \A t \in ValidTask : t.id \in TaskId
  BY DEF ValidTask, Task
<1>2. \A at \in Time : at \in Time /\ at \in Int
  BY BoundsAssumption DEF Time
<1> QED
  BY <1>1, <1>2 DEF FirstAttempt, RetryRun, Run, Triggers, Live

LEMMA ClockIsANumber == Time \subseteq Nat /\ \A t \in Time : DayOf(t) \in Day
BY BoundsAssumption DEF Time, Day

LEMMA NextAfterType ==
  ASSUME NEW t \in ValidTask, NEW at \in Time
  PROVE  NextAfter(t, at) \in Int
<1>1. CASE t.specType = "cron"
  <2>1. t.cronExpr \in CronExpr
    BY <1>1 DEF ValidTask, Task, Validate
  <2> QED
    BY <1>1, <2>1, CronAssumption DEF NextAfter, ComputeNextCron
<1> QED
  BY <1>1 DEF NextAfter

-----------------------------------------------------------------------------
(* The transactions shared by several actions.                             *)

LEMMA InsertRunType ==
  ASSUME TablesOK, IdsOK, NEW p \in Procs, NEW t, NEW row \in Run,
         InsertRun(p, t, row)
  PROVE  TablesOK' /\ IdsOK'
<1>1. issued' \in RunId /\ issued' \in 0..MaxRuns
  BY BoundsAssumption DEF InsertRun, IdsOK, RunId
<1>2. runs' = [runs EXCEPT ![issued'] = row]
  BY DEF InsertRun, CreateRun
<1>3. runs' \in RunTable
  BY <1>1, <1>2 DEF TablesOK, RunTable
<1> QED
  BY <1>1, <1>3 DEF InsertRun, TablesOK, IdsOK, RunTable

LEMMA ExecuteRunType ==
  ASSUME TablesOK, NEW j \in Job, ExecuteRun(j)
  PROVE  TablesOK'
<1>1. j.task \in ValidTask /\ j.task.id \in TaskId /\ j.at \in Time
  BY DEF Job, ValidTask, Task
<1>2. j.at \in Nat /\ DayOf(j.at) \in Day
  BY <1>1, ClockIsANumber
<1>3. Outcome(j.task) \in {"succeeded", "failed"}
  BY DEF Outcome
<1>4. runs' \in RunTable
  BY <1>3, UpdateRunStatusType DEF ExecuteRun, TablesOK, RunTable, Terminal
<1>5. daily' \in [Day -> [succeeded : Nat, failed : Nat, running : Nat]]
  BY <1>2, <1>3, RecordRunOutcomeType DEF ExecuteRun, TablesOK
<1>6. tasks' \in TaskTable /\ Keyed(tasks')
  <2>1. tasks' = SetLastRun(tasks, j.task.id, j.at)
    BY DEF ExecuteRun
  <2>2. tasks \in TaskTable /\ Keyed(tasks)
    BY DEF TablesOK, TaskTable, Keyed
  <2> QED
    BY <2>1, <2>2, <1>1, <1>2, SetColumnTypes, 0 \in Int, TRUE \in BOOLEAN
<1> QED
  BY <1>4, <1>5, <1>6 DEF TablesOK, RunTable, TaskTable, Keyed

(* Recover hands out fresh ids: they are run ids and none has a row yet.   *)
LEMMA RetryIdsAreFresh ==
  ASSUME TablesOK, IdsOK, issued + Cardinality(Retriable) <= MaxRuns,
         NEW f \in RetryIds(Retriable)
  PROVE  /\ Cardinality(Retriable) \in Nat
         /\ \A o \in Retriable : /\ f[o] \in RunId /\ f[o] > issued
                                 /\ f[o] <= issued + Cardinality(Retriable)
         /\ \A o, q \in Retriable : f[o] = f[q] => o = q
<1>1. Cardinality(Retriable) \in Nat
  <2>1. IsFiniteSet(RunId)
    BY FS_Interval, BoundsAssumption DEF RunId
  <2>2. Retriable \subseteq RunId
    BY DEF Retriable, OrphanedRuns, TablesOK
  <2> QED
    BY <2>1, <2>2, FS_Subset, FS_CardinalityType
<1>2. f \in [Retriable -> (issued + 1)..(issued + Cardinality(Retriable))]
  BY DEF RetryIds, Injection
<1>3. \A o \in Retriable : f[o] \in (issued + 1)..(issued + Cardinality(Retriable))
  BY <1>2
<1>4. \A o, q \in Retriable : f[o] = f[q] => o = q
  BY <1>2 DEF RetryIds, Injection, IsInjective
<1> QED
  BY <1>1, <1>3, <1>4, BoundsAssumption DEF IdsOK, RunId

(* What a clock shows while the process is up is a time that has come.     *)
LEMMA ReadingsAreTimes ==
  ASSUME PhaseOK, now \in Time, phase # "down", NEW at \in Readings
  PROVE  at \in Time /\ at \in Nat /\ at > 0 /\ at <= now
<1>1. now \in Nat /\ now <= MaxTime /\ MaxTime \in Nat
  BY BoundsAssumption DEF Time
<1>2. since \in Nat /\ since # 0
  BY <1>1 DEF PhaseOK
<1>3. at \in Nat /\ since <= at /\ at <= now
  BY <1>1, <1>2 DEF Readings
<1> QED
  BY <1>1, <1>2, <1>3 DEF Time

LEMMA RecoverOrphansType ==
  ASSUME TablesOK, IdsOK, PhaseOK, now \in Time, RecoverOrphans
  PROVE  TablesOK' /\ IdsOK' /\ pend' \in SUBSET Job
<1>1. PICK f \in RetryIds(Retriable), at \in [Retriable -> Readings] :
        LET NewRow(o) == RetryRun(runs[o].task, runs[o].attempt, at[o]) IN
        /\ runs' = [r \in RunId |->
                      IF r \in OrphanedRuns(runs)
                      THEN [runs[r] EXCEPT !.status = "orphaned"]
                      ELSE IF \E o \in Retriable : f[o] = r
                      THEN NewRow(CHOOSE o \in Retriable : f[o] = r)
                      ELSE runs[r]]
        /\ pend' = {[task |-> tasks[runs[o].task], run |-> f[o],
                     attempt |-> runs[o].attempt + 1, at |-> at[o]] : o \in Retriable}
  BY DEF RecoverOrphans
<1>2. /\ Cardinality(Retriable) \in Nat
      /\ \A o \in Retriable : f[o] \in RunId
  BY RetryIdsAreFresh DEF RecoverOrphans
<1>3. /\ \A r \in OrphanedRuns(runs) : r \in RunId /\ runs[r] \in Run
      /\ \A o \in Retriable : at[o] \in Time
  <2>1. \A o \in Retriable : at[o] \in Readings
    OBVIOUS
  <2> QED
    BY <2>1, ReadingsAreTimes DEF RecoverOrphans, OrphanedRuns, TablesOK
<1>4. \A o \in Retriable : /\ runs[o].task \in TaskId /\ runs[o].attempt \in Nat
                           /\ tasks[runs[o].task] \in ValidTask
  BY <1>3 DEF Retriable, Run, TablesOK
<1>5. runs' \in RunTable
  <2>1. ASSUME NEW r \in RunId
        PROVE  runs'[r] \in Run \cup {NoRow}
    <3>1. CASE r \in OrphanedRuns(runs)
      <4>1. [runs[r] EXCEPT !.status = "orphaned"] \in Run
        BY <1>3, <3>1 DEF Run, Terminal
      <4> QED
        BY <1>1, <3>1, <4>1
    <3>2. CASE r \notin OrphanedRuns(runs) /\ \E o \in Retriable : f[o] = r
      <4>1. PICK q \in Retriable : q = CHOOSE o \in Retriable : f[o] = r
        BY <3>2
      <4>2. runs'[r] = RetryRun(runs[q].task, runs[q].attempt, at[q])
        BY <1>1, <3>2, <4>1
      <4> QED
        BY <1>3, <1>4, <4>1, <4>2, NewRunTypes
    <3>3. CASE r \notin OrphanedRuns(runs) /\ ~\E o \in Retriable : f[o] = r
      <4>1. runs'[r] = runs[r]
        BY <1>1, <3>3
      <4> QED
        BY <4>1 DEF TablesOK
    <3> QED
      BY <3>1, <3>2, <3>3
  <2>2. runs' = [r \in RunId |-> runs'[r]]
    BY <1>1
  <2> QED
    BY <2>1, <2>2 DEF RunTable
<1>6. pend' \in SUBSET Job
  BY <1>1, <1>2, <1>3, <1>4, BoundsAssumption DEF Job, RunId
<1>7. issued' \in 0..MaxRuns
  BY <1>2, BoundsAssumption DEF RecoverOrphans, IdsOK
<1> QED
  BY <1>5, <1>6, <1>7 DEF RecoverOrphans, TablesOK, IdsOK, RunTable

-----------------------------------------------------------------------------
(* The requests that write tasks.                                          *)

LEMMA FlagType ==
  ASSUME NEW given, NEW default \in BOOLEAN
  PROVE  Flag(given, default) \in BOOLEAN
BY DEF Flag

LEMMA InputTypes ==
  ASSUME NEW in \in TaskInput
  PROVE  /\ in.maxRetries \in Int /\ in.nextRunAt \in Int /\ in.delay \in Int
         /\ in.cronExpr \in CronExpr \cup {NoExpr}
BY DEF TaskInput

LEMMA CreateType ==
  ASSUME TablesOK, NEW id \in TaskId, NEW in \in TaskInput, NEW at \in Time,
         ScheduleNew(Draft(id, in), at)
  PROVE  tasks' \in TaskTable /\ Keyed(tasks') /\ tasks'[id] \in ValidTask
<1> DEFINE t == Draft(id, in)
           u == [t EXCEPT !.nextRunAt = FirstRun(t, at)]
<1>1. Validate(t) /\ tasks' = CreateTask(tasks, u)
  BY DEF ScheduleNew
<1>2. t \in ValidTask /\ t.id = id
  <2>1. /\ t.maxRetries = in.maxRetries /\ t.kind = in.kind
        /\ t.specType = in.specType /\ t.id = id
    BY DEF Draft
  <2>2. in.maxRetries \in Int
    BY InputTypes
  <2>3. in.maxRetries \in Nat /\ in.kind \in Kinds /\ in.specType \in SpecTypes
    BY <1>1, <2>1, <2>2 DEF Validate
  <2>4. Flag(in.enabled, TRUE) \in BOOLEAN /\ Flag(in.paused, FALSE) \in BOOLEAN
    BY FlagType
  <2>5. (IF in.specType = "once" THEN in.nextRunAt ELSE 0) \in Int
    BY InputTypes
  <2>6. t \in Task
    BY <2>3, <2>4, <2>5, InputTypes DEF Draft, Task
  <2> QED
    BY <1>1, <2>1, <2>6 DEF ValidTask
<1>3. FirstRun(t, at) \in Int
  <2>1. at \in Int
    BY ClockIsANumber
  <2>2. t.nextRunAt \in Int /\ t.delay \in Int /\ t.specType \in SpecTypes
    BY <1>2 DEF ValidTask, Task
  <2>3. t.specType = "cron" => t.cronExpr \in CronExpr
    BY <1>2 DEF ValidTask, Task, Validate
  <2> HIDE DEF t
  <2>4. t.specType = "cron" => ComputeNextCron(t, at) \in Int
    BY <2>3, CronAssumption DEF ComputeNextCron
  <2> QED
    BY <2>1, <2>2, <2>4 DEF FirstRun, SpecTypes
<1> HIDE DEF t
<1>4. u \in ValidTask /\ u.id = id
  BY <1>2, <1>3 DEF ValidTask, Task, Validate
<1> HIDE DEF u
<1>5. tasks' = [tasks EXCEPT ![id] = u]
  BY <1>1, <1>4 DEF CreateTask
<1> QED
  BY <1>4, <1>5 DEF TablesOK, TaskTable, Keyed

LEMMA MergeType ==
  ASSUME NEW cur \in ValidTask, NEW in \in TaskInput, Validate(Merge(cur, in))
  PROVE  Merge(cur, in) \in ValidTask /\ Merge(cur, in).id = cur.id
<1> DEFINE u == Merge(cur, in)
           specType   == Given(in.specType, "", cur.specType)
           kind       == Given(in.kind, "", cur.kind)
           maxRetries == Given(in.maxRetries, 0, cur.maxRetries)
           nextRunAt  == Rescheduled(cur, in)
           enabled    == Flag(in.enabled, cur.enabled)
           paused     == Flag(in.paused, cur.paused)
<1>1. cur \in Task
  BY DEF ValidTask
<1>2. u = [id |-> cur.id, kind |-> kind, specType |-> specType,
           cronExpr |-> in.cronExpr, delay |-> in.delay, enabled |-> enabled,
           paused |-> paused, maxRetries |-> maxRetries,
           nextRunAt |-> nextRunAt, lastRunAt |-> cur.lastRunAt]
  BY DEF Merge
<1>3. enabled \in BOOLEAN /\ paused \in BOOLEAN
  <2>1. cur.enabled \in BOOLEAN /\ cur.paused \in BOOLEAN
    BY <1>1 DEF Task
  <2> QED
    BY <2>1, FlagType
<1>4. nextRunAt \in Int /\ maxRetries \in Int
  <2>1. cur.nextRunAt \in Int /\ cur.maxRetries \in Int
    BY <1>1 DEF Task
  <2> QED
    BY <2>1, InputTypes DEF Rescheduled, Given
<1>5. cur.id \in TaskId /\ cur.lastRunAt \in Nat
  BY <1>1 DEF Task
<1> HIDE DEF kind, specType, maxRetries, enabled, paused, nextRunAt
<1>6. kind \in Kinds /\ specType \in SpecTypes /\ maxRetries >= 0
  BY <1>2 DEF Validate
<1>7. u \in Task
  BY <1>2, <1>3, <1>4, <1>5, <1>6, InputTypes DEF Task
<1>8. u.id = cur.id
  BY <1>2
<1> QED
  BY <1>7, <1>8 DEF ValidTask

-----------------------------------------------------------------------------
(* Type correctness, one lemma per part of TypeOK.                         *)

LEMMA InitType == Init => TypeOK
<1> SUFFICES ASSUME Init PROVE TypeOK
  OBVIOUS
<1>1. TablesOK
  BY DEF Init, TablesOK, NoStats
<1>2. IdsOK
  BY BoundsAssumption DEF Init, IdsOK
<1>3. PhaseOK /\ GoroutinesOK
  <2>1. Ticker \in Procs /\ Handlers \subseteq Procs
    BY DEF Procs
  <2> QED
    BY <2>1 DEF Init, PhaseOK, GoroutinesOK
<1>4. TickerOK
  <2>1. pc[Ticker] = "idle"
    BY DEF Init, Procs
  <2> QED
    BY <2>1 DEF Init, TickerOK
<1>5. LimitsOK
  BY BoundsAssumption, SchedulerAssumption, EngineAssumption
     DEF Init, LimitsOK, Time
<1> QED
  BY <1>1, <1>2, <1>3, <1>4, <1>5 DEF TypeOK

(* A goroutine about to execute or advance carries a job.                  *)
LEMMA JobTypes ==
  ASSUME GoroutinesOK, NEW p \in Procs,
         pc[p] \in {"insert", "retry", "execute", "advance"}
  PROVE  /\ job[p] \in Job
         /\ job[p].task \in ValidTask /\ job[p].task.id \in TaskId
         /\ job[p].attempt \in Nat /\ job[p].at \in Time
<1>1. job[p] \in Job
  BY DEF GoroutinesOK
<1> QED
  BY <1>1 DEF Job, ValidTask, Task

LEMMA TablesStep ==
  ASSUME TypeOK, [Next]_vars
  PROVE  TablesOK' /\ IdsOK'
<1> USE DEF TypeOK
<1>1. now \in Time /\ Time \subseteq Nat
  BY ClockIsANumber DEF LimitsOK
<1>2. tasks \in TaskTable /\ Keyed(tasks) /\ runs \in RunTable
  BY DEF TablesOK, TaskTable, RunTable, Keyed
<1>3. Ticker \in Procs /\ Handlers \subseteq Procs
  BY DEF Procs
<1>4. CASE handleCreateTask
  <2>1. PICK id \in TaskId \ born, in \in CreateInputs, at \in Readings :
          ScheduleNew(Draft(id, in), at) /\ born' = born \cup {id}
    BY <1>4 DEF handleCreateTask
  <2>2. in \in TaskInput /\ at \in Time
    BY <1>1, <1>4, EngineAssumption, ReadingsAreTimes DEF handleCreateTask, Admit
  <2>3. tasks' \in TaskTable /\ Keyed(tasks')
    BY <2>1, <2>2, CreateType
  <2> QED
    BY <1>4, <2>1, <2>3 DEF handleCreateTask, TablesOK, IdsOK, TaskTable, Keyed
<1>5. CASE handleUpdateTask
  <2>1. PICK id \in TaskId, in \in UpdateInputs :
          /\ tasks[id] # NoRow
          /\ Validate(Merge(tasks[id], in))
          /\ tasks' = UpdateTask(tasks, Merge(tasks[id], in))
    BY <1>5 DEF handleUpdateTask
  <2>2. in \in TaskInput
    BY EngineAssumption
  <2>3. tasks[id] \in ValidTask /\ tasks[id].id = id
    BY <2>1 DEF TablesOK
  <2>4. Merge(tasks[id], in) \in ValidTask /\ Merge(tasks[id], in).id = id
    BY <2>1, <2>2, <2>3, MergeType
  <2>5. tasks' = Amend(tasks, id, Merge(tasks[id], in))
    BY <2>1, <2>4 DEF UpdateTask
  <2>6. tasks' \in TaskTable /\ Keyed(tasks')
    BY <1>2, <2>4, <2>5, AmendTask
  <2> QED
    BY <1>5, <2>6 DEF handleUpdateTask, TablesOK, IdsOK, TaskTable, Keyed, ids
<1>6. CASE handleDeleteTask
  BY <1>6 DEF handleDeleteTask, DeleteTask, DeleteRunsOf, TablesOK, IdsOK, ids
<1>7. CASE setTaskEnabled \/ setTaskPaused
  <2>1. tasks' \in TaskTable /\ Keyed(tasks')
    BY <1>2, <1>7, SetColumnTypes, 0 \in Int, 0 \in Nat
       DEF setTaskEnabled, setTaskPaused
  <2> QED
    BY <1>7, <2>1
       DEF setTaskEnabled, setTaskPaused, TablesOK, IdsOK, TaskTable, Keyed, ids
<1>8. CASE handleDeleteRun
  BY <1>8 DEF handleDeleteRun, DeleteRun, TablesOK, IdsOK, ids
<1>9. CASE DispatchInsert
  <2>1. PICK t \in Earliest(due) :
          InsertRun(Ticker, t, FirstAttempt(t, "schedule", tickAt, t.nextRunAt))
    BY <1>9 DEF DispatchInsert
  <2>2. t \in ValidTask /\ t.nextRunAt \in Int
    BY DEF Earliest, TickerOK, ValidTask, Task
  <2>3. tickAt \in Time
    BY <1>1, <1>9, BoundsAssumption DEF DispatchInsert, TickerOK, Time
  <2> QED
    BY <1>3, <2>1, <2>2, <2>3, NewRunTypes, InsertRunType DEF Triggers
<1>10. CASE DispatchExecute
  BY <1>3, <1>10, JobTypes, ExecuteRunType DEF DispatchExecute, ExecuteRun, IdsOK, ids
<1>11. CASE DispatchAdvance
  <2>1. PICK at \in ranAt..now :
          tasks' = SetNextRun(tasks, job[Ticker].task.id,
                              NextAfter(job[Ticker].task, at), tickAt)
    BY <1>11 DEF DispatchAdvance
  <2>2. at \in Time
    BY <1>1, <1>11, BoundsAssumption DEF DispatchAdvance, TickerOK, Time
  <2>3. job[Ticker].task \in ValidTask /\ job[Ticker].task.id \in TaskId
    BY <1>3, <1>11, JobTypes DEF DispatchAdvance
  <2>4. NextAfter(job[Ticker].task, at) \in Int
    BY <2>2, <2>3, NextAfterType
  <2>5. tickAt \in Nat
    BY <1>1 DEF TickerOK
  <2>6. tasks' \in TaskTable /\ Keyed(tasks')
    BY <1>2, <2>1, <2>3, <2>4, <2>5, SetColumnTypes, TRUE \in BOOLEAN
  <2> QED
    BY <1>11, <2>6 DEF DispatchAdvance, TablesOK, IdsOK, TaskTable, Keyed, ids
<1>12. ASSUME NEW h \in Handlers, TriggerInsert(h)
       PROVE  TablesOK' /\ IdsOK'
  <2>1. PICK at \in job[h].at..now :
          InsertRun(h, job[h].task, FirstAttempt(job[h].task, "manual", at, 0))
    BY <1>12 DEF TriggerInsert
  <2>2. job[h].task \in ValidTask /\ job[h].at \in Time
    BY <1>3, <1>12, JobTypes DEF TriggerInsert
  <2>3. at \in Time
    BY <1>1, <2>2, BoundsAssumption DEF Time
  <2>4. FirstAttempt(job[h].task, "manual", at, 0) \in Run
    BY <2>2, <2>3, NewRunTypes, 0 \in Int DEF Triggers
  <2> QED
    BY <1>3, <2>1, <2>4, InsertRunType
<1>13. ASSUME NEW h \in Handlers, RetryInsert(h)
       PROVE  TablesOK' /\ IdsOK'
  <2>1. /\ job[h].task.id \in TaskId /\ job[h].attempt \in Nat
    BY <1>3, <1>13, JobTypes DEF RetryInsert
  <2>2. RetryRun(job[h].task.id, job[h].attempt, now) \in Run
    BY <1>1, <2>1, NewRunTypes
  <2> QED
    BY <1>3, <1>13, <2>2, InsertRunType DEF RetryInsert
<1>14. ASSUME NEW h \in Handlers, RequestExecute(h)
       PROVE  TablesOK' /\ IdsOK'
  <2>1. job[h] \in Job
    BY <1>3, <1>14, JobTypes DEF RequestExecute
  <2> QED
    BY <1>14, <2>1, ExecuteRunType DEF RequestExecute, ExecuteRun, IdsOK, ids
<1>15. CASE RecoverOrphans
  BY <1>1, <1>15, RecoverOrphansType
<1>16. CASE RecoverExecute
  <2>1. PICK j \in NextRetry : ExecuteRun(j)
    BY <1>16 DEF RecoverExecute
  <2>2. j \in Job
    BY DEF NextRetry, PhaseOK
  <2> QED
    BY <2>1, <2>2, ExecuteRunType DEF ExecuteRun, IdsOK, ids
<1>17. CASE UNCHANGED <<disk, ids>>
  BY <1>17 DEF disk, ids, TablesOK, IdsOK
<1>18. \/ UNCHANGED vars \/ TickBegin \/ TickScan \/ TickFails
       \/ Restart \/ Start \/ RecoverFails \/ Crash \/ ClockTick
       \/ \E h \in Handlers : handleTriggerTask(h) \/ handleRetryRun(h) \/ RequestFails(h)
       => UNCHANGED <<disk, ids>>
  BY DEF vars, disk, ids, TickBegin, TickScan, TickFails, Restart, Start,
         RecoverFails, Crash, ClockTick, handleTriggerTask, TriggerLoad,
         handleRetryRun, RetryLoad, RequestFails
<1> QED
  BY <1>4, <1>5, <1>6, <1>7, <1>8, <1>9, <1>10, <1>11, <1>12, <1>13, <1>14,
     <1>15, <1>16, <1>17, <1>18
     DEF Next, Request, Tick, Serve, Boot, Environment

(* A goroutine moves to a place of its own, with a job when the place      *)
(* calls for one.                                                          *)
LEMMA GotoType ==
  ASSUME GoroutinesOK, NEW p \in Procs, NEW j \in Job \cup {NoJob},
         NEW label \in {"idle", "scan", "dispatch", "insert", "retry",
                        "execute", "advance"},
         p = Ticker => label \notin {"insert", "retry"},
         p \in Handlers => label \notin {"scan", "dispatch", "advance"},
         j # NoJob <=> label \in {"insert", "retry", "execute", "advance"},
         Goto(p, label, j)
  PROVE  GoroutinesOK'
<1>1. Ticker \in Procs /\ Handlers \subseteq Procs
  BY DEF Procs
<1>2. pc' = [pc EXCEPT ![p] = label] /\ job' = [job EXCEPT ![p] = j]
  BY DEF Goto
<1> QED
  BY <1>1, <1>2 DEF GoroutinesOK

LEMMA PhaseStep ==
  ASSUME TypeOK, [Next]_vars
  PROVE  PhaseOK'
<1> USE DEF TypeOK
<1>1. now \in Time /\ now \in Nat /\ now # 0 /\ since \in 0..now
  BY BoundsAssumption DEF LimitsOK, PhaseOK, Time
<1>2. CASE RecoverOrphans
  BY <1>1, <1>2, RecoverOrphansType DEF RecoverOrphans, PhaseOK
<1>3. CASE RecoverExecute \/ RecoverFails
  BY <1>1, <1>3 DEF RecoverExecute, RecoverFails, PhaseOK
<1>4. CASE Restart \/ Start \/ Crash
  BY <1>1, <1>4 DEF Restart, Start, Crash, PhaseOK, disk
<1>5. CASE UNCHANGED <<phase, pend, since>> /\ now' \in {now, now + 1}
  BY <1>1, <1>5 DEF PhaseOK
<1>6. UNCHANGED vars \/ Request \/ Tick \/ TickFails \/ ClockTick
      \/ (\E h \in Handlers : Serve(h) \/ RequestFails(h))
      => UNCHANGED <<phase, pend, since>> /\ now' \in {now, now + 1}
  BY DEF vars, engine, Request, handleCreateTask, handleUpdateTask,
         handleDeleteTask, setTaskEnabled, setTaskPaused, handleDeleteRun,
         handleTriggerTask, TriggerLoad, handleRetryRun, RetryLoad, Tick,
         TickBegin, TickScan, DispatchInsert, DispatchExecute, DispatchAdvance,
         TickFails, ClockTick, Serve, TriggerInsert, RetryInsert,
         RequestExecute, RequestFails
<1> QED
  BY <1>2, <1>3, <1>4, <1>5, <1>6 DEF Next, Boot, Environment

LEMMA GoroutinesStep ==
  ASSUME TypeOK, [Next]_vars
  PROVE  GoroutinesOK'
<1> USE DEF TypeOK
<1>1. now \in Time
  BY DEF LimitsOK
<1>2. Ticker \in Procs /\ Handlers \subseteq Procs /\ Ticker \notin Handlers
  BY SchedulerAssumption DEF Procs
<1>3. ASSUME NEW p \in Procs, NEW t \in ValidTask, NEW row \in Run,
             InsertRun(p, t, row)
      PROVE  GoroutinesOK'
  <2>1. issued' \in 0..MaxRuns
    BY <1>3, BoundsAssumption DEF InsertRun, IdsOK
  <2>2. [task |-> t, run |-> issued', attempt |-> row.attempt,
         at |-> row.scheduledAt] \in Job
    BY <2>1 DEF Run, Job
  <2> QED
    BY <1>3, <2>2, GotoType, NoJobAssumption DEF InsertRun
<1>4. ASSUME NEW d, Continue(d)
      PROVE  GoroutinesOK'
  BY <1>2, <1>4, GotoType DEF Continue
<1>5. ASSUME NEW p \in Procs, Goto(p, "idle", NoJob)
      PROVE  GoroutinesOK'
  BY <1>5, GotoType
<1>6. CASE TickBegin
  BY <1>2, <1>6, GotoType DEF TickBegin
<1>7. CASE TickScan \/ DispatchAdvance \/ TickFails
  BY <1>4, <1>7 DEF TickScan, DispatchAdvance, TickFails
<1>8. CASE DispatchInsert
  <2>1. PICK t \in Earliest(due) :
          InsertRun(Ticker, t, FirstAttempt(t, "schedule", tickAt, t.nextRunAt))
    BY <1>8 DEF DispatchInsert
  <2>2. t \in ValidTask /\ t.nextRunAt \in Int
    BY DEF Earliest, TickerOK, ValidTask, Task
  <2>3. tickAt \in Time
    BY <1>1, <1>8, ClockIsANumber, BoundsAssumption
       DEF DispatchInsert, TickerOK, Time
  <2>4. FirstAttempt(t, "schedule", tickAt, t.nextRunAt) \in Run
    BY <2>2, <2>3, NewRunTypes DEF Triggers
  <2> QED
    BY <1>2, <1>3, <2>1, <2>2, <2>4
<1>9. CASE DispatchExecute
  <2>1. job[Ticker] \in Job
    BY <1>2, <1>9, JobTypes DEF DispatchExecute
  <2> QED
    BY <1>2, <1>9, <2>1, GotoType, NoJobAssumption DEF DispatchExecute
<1>10. ASSUME NEW h \in Handlers, handleTriggerTask(h) \/ handleRetryRun(h)
       PROVE  GoroutinesOK'
  <2>1. CASE handleTriggerTask(h)
    <3>1. PICK id \in TaskId : TriggerLoad(h, id)
      BY <2>1 DEF handleTriggerTask
    <3> DEFINE j == [task |-> tasks[id], run |-> 0, attempt |-> 0, at |-> now]
    <3>2. tasks[id] \in ValidTask
      BY <3>1 DEF TriggerLoad, TablesOK
    <3>3. j \in Job
      BY <1>1, <3>2, BoundsAssumption DEF Job
    <3>4. Goto(h, "insert", j)
      BY <3>1 DEF TriggerLoad
    <3> QED
      BY <1>2, <3>3, <3>4, GotoType, NoJobAssumption
  <2>2. CASE handleRetryRun(h)
    <3>1. PICK r \in RunId : RetryLoad(h, r)
      BY <2>2 DEF handleRetryRun
    <3> DEFINE j == [task |-> tasks[runs[r].task], run |-> r,
                     attempt |-> runs[r].attempt, at |-> runs[r].scheduledAt]
    <3>2. runs[r] \in Run
      BY <3>1 DEF RetryLoad, TablesOK
    <3>3. tasks[runs[r].task] \in ValidTask
      BY <3>1, <3>2 DEF RetryLoad, TablesOK, Run
    <3>4. j \in Job
      BY <3>2, <3>3, BoundsAssumption DEF Job, Run, RunId
    <3>5. Goto(h, "retry", j)
      BY <3>1 DEF RetryLoad
    <3> QED
      BY <1>2, <3>4, <3>5, GotoType, NoJobAssumption
  <2> QED
    BY <1>10, <2>1, <2>2
<1>11. ASSUME NEW h \in Handlers, TriggerInsert(h)
       PROVE  GoroutinesOK'
  <2>1. PICK at \in job[h].at..now :
          InsertRun(h, job[h].task, FirstAttempt(job[h].task, "manual", at, 0))
    BY <1>11 DEF TriggerInsert
  <2>2. job[h].task \in ValidTask /\ job[h].at \in Time
    BY <1>2, <1>11, JobTypes DEF TriggerInsert
  <2>3. at \in Time
    BY <1>1, <2>2, BoundsAssumption DEF Time
  <2>4. FirstAttempt(job[h].task, "manual", at, 0) \in Run
    BY <2>2, <2>3, NewRunTypes, 0 \in Int DEF Triggers
  <2> QED
    BY <1>2, <1>3, <2>1, <2>2, <2>4
<1>12. ASSUME NEW h \in Handlers, RetryInsert(h)
       PROVE  GoroutinesOK'
  <2>1. job[h].task \in ValidTask /\ job[h].task.id \in TaskId /\ job[h].attempt \in Nat
    BY <1>2, <1>12, JobTypes DEF RetryInsert
  <2>2. RetryRun(job[h].task.id, job[h].attempt, now) \in Run
    BY <1>1, <2>1, NewRunTypes
  <2> QED
    BY <1>2, <1>3, <1>12, <2>1, <2>2 DEF RetryInsert
<1>13. ASSUME NEW h \in Handlers, RequestExecute(h) \/ RequestFails(h)
       PROVE  GoroutinesOK'
  BY <1>2, <1>5, <1>13 DEF RequestExecute, RequestFails
<1>14. CASE Crash
  BY <1>2, <1>14 DEF Crash, GoroutinesOK
<1>15. CASE UNCHANGED <<pc, job>>
  BY <1>15 DEF GoroutinesOK
<1>16. UNCHANGED vars \/ Boot \/ RecoverFails \/ ClockTick
       \/ handleCreateTask \/ handleUpdateTask \/ handleDeleteTask
       \/ setTaskEnabled \/ setTaskPaused \/ handleDeleteRun
       => UNCHANGED <<pc, job>>
  BY DEF vars, engine, Boot, Restart, RecoverOrphans, RecoverExecute, Start,
         RecoverFails, ClockTick, handleCreateTask, handleUpdateTask,
         handleDeleteTask, setTaskEnabled, setTaskPaused, handleDeleteRun
<1> QED
  BY <1>6, <1>7, <1>8, <1>9, <1>10, <1>11, <1>12, <1>13, <1>14, <1>15, <1>16
     DEF Next, Request, Tick, Serve, Environment

LEMMA TickerStep ==
  ASSUME TypeOK, [Next]_vars
  PROVE  TickerOK'
<1> USE DEF TypeOK
<1>1. now \in Nat /\ now' \in Nat /\ now <= now' /\ now > 0
  <2>1. now \in Nat /\ now > 0
    BY BoundsAssumption DEF LimitsOK, Time
  <2>2. now' = now \/ now' = now + 1
    BY DEF Next, vars, engine, Request, handleCreateTask, handleUpdateTask,
           handleDeleteTask, setTaskEnabled, setTaskPaused, handleDeleteRun,
           handleTriggerTask, TriggerLoad, handleRetryRun, RetryLoad, Tick,
           TickBegin, TickScan, DispatchInsert, DispatchExecute, DispatchAdvance,
           Serve, TriggerInsert, RetryInsert, RequestExecute, Boot, Restart,
           RecoverOrphans, RecoverExecute, Start, Environment, Crash, TickFails,
           RequestFails, RecoverFails, ClockTick
  <2> QED
    BY <2>1, <2>2
<1>2. Ticker \in Procs /\ Handlers \subseteq Procs /\ Ticker \notin Handlers
  BY SchedulerAssumption DEF Procs
<1>3. ASSUME NEW d \in SUBSET ValidTask, pc[Ticker] # "idle", Continue(d)
      PROVE  TickerOK'
  BY <1>1, <1>2, <1>3 DEF Continue, Goto, TickerOK, GoroutinesOK
<1>4. CASE TickBegin
  BY <1>1, <1>2, <1>4 DEF TickBegin, Goto, TickerOK, GoroutinesOK
<1>5. CASE TickScan
  <2>1. DueTasks(tasks, tickAt) \in SUBSET ValidTask
    BY DEF DueTasks, TablesOK
  <2> QED
    BY <1>3, <1>5, <2>1 DEF TickScan
<1>6. CASE DispatchInsert
  BY <1>1, <1>2, <1>6
     DEF DispatchInsert, InsertRun, Goto, TickerOK, GoroutinesOK
<1>7. CASE DispatchExecute
  BY <1>1, <1>2, <1>7 DEF DispatchExecute, Goto, TickerOK, GoroutinesOK
<1>8. CASE DispatchAdvance
  BY <1>3, <1>8 DEF DispatchAdvance, TickerOK
<1>9. CASE TickFails
  BY <1>3, <1>9 DEF TickFails, TickerOK
<1>10. CASE Crash
  BY <1>1, <1>2, <1>10 DEF Crash, TickerOK
<1>11. CASE UNCHANGED ticker /\ pc'[Ticker] = pc[Ticker]
  BY <1>1, <1>11 DEF ticker, TickerOK
<1>12. UNCHANGED vars \/ Request \/ (\E h \in Handlers : Serve(h)) \/ Boot
       \/ (\E h \in Handlers : RequestFails(h)) \/ RecoverFails \/ ClockTick
       => UNCHANGED ticker /\ pc'[Ticker] = pc[Ticker]
  BY <1>2
     DEF vars, engine, ticker, GoroutinesOK, Goto, InsertRun, Request,
         handleCreateTask, handleUpdateTask, handleDeleteTask, setTaskEnabled,
         setTaskPaused, handleDeleteRun, handleTriggerTask, TriggerLoad,
         handleRetryRun, RetryLoad, Serve, TriggerInsert, RetryInsert,
         RequestExecute, Boot, Restart, RecoverOrphans, RecoverExecute, Start,
         RequestFails, RecoverFails, ClockTick
<1> QED
  BY <1>4, <1>5, <1>6, <1>7, <1>8, <1>9, <1>10, <1>11, <1>12
     DEF Next, Tick, Environment

LEMMA LimitsStep ==
  ASSUME TypeOK, [Next]_vars
  PROVE  LimitsOK'
<1> USE DEF TypeOK
<1>1. /\ now \in 1..MaxTime /\ MaxTime \in Nat
      /\ crashes \in 0..MaxCrashes /\ MaxCrashes \in Nat
      /\ faults \in 0..MaxFaults /\ MaxFaults \in Nat
      /\ requests \in 0..MaxRequests /\ MaxRequests \in Nat
  BY BoundsAssumption, SchedulerAssumption, EngineAssumption DEF LimitsOK, Time
<1>2. now' = now \/ (now < MaxTime /\ now' = now + 1)
  BY DEF Next, vars, engine, Request, handleCreateTask, handleUpdateTask,
         handleDeleteTask, setTaskEnabled, setTaskPaused, handleDeleteRun,
         handleTriggerTask, TriggerLoad, handleRetryRun, RetryLoad, Tick,
         TickBegin, TickScan, DispatchInsert, DispatchExecute, DispatchAdvance,
         Serve, TriggerInsert, RetryInsert, RequestExecute, Boot, Restart,
         RecoverOrphans, RecoverExecute, Start, Environment, Crash, TickFails,
         RequestFails, RecoverFails, ClockTick
<1>3. requests' = requests \/ (requests < MaxRequests /\ requests' = requests + 1)
  BY DEF Next, vars, Admit, Request, handleCreateTask, handleUpdateTask,
         handleDeleteTask, setTaskEnabled, setTaskPaused, handleDeleteRun,
         handleTriggerTask, handleRetryRun, Tick, Serve, Boot, Environment
<1>4. /\ crashes' = crashes \/ (crashes < MaxCrashes /\ crashes' = crashes + 1)
      /\ faults' = faults \/ (faults < MaxFaults /\ faults' = faults + 1)
  BY DEF Next, vars, limits, Request, handleCreateTask, handleUpdateTask,
         handleDeleteTask, setTaskEnabled, setTaskPaused, handleDeleteRun,
         handleTriggerTask, TriggerLoad, handleRetryRun, RetryLoad, Tick,
         TickBegin, TickScan, DispatchInsert, DispatchExecute, DispatchAdvance,
         Serve, TriggerInsert, RetryInsert, RequestExecute, Boot, Restart,
         RecoverOrphans, RecoverExecute, Start, Environment, Crash, TickFails,
         RequestFails, RecoverFails, ClockTick
<1> QED
  BY <1>1, <1>2, <1>3, <1>4 DEF LimitsOK, Time

(* Every variable keeps its kind of value in every behaviour; in           *)
(* particular only valid rows reach the table tasks, whatever clients send.*)
THEOREM TypeCorrect == Spec => []TypeOK
<1>1. Init => TypeOK
  BY InitType
<1>2. TypeOK /\ [Next]_vars => TypeOK'
  BY TablesStep, PhaseStep, GoroutinesStep, TickerStep, LimitsStep DEF TypeOK
<1> QED
  BY <1>1, <1>2, PTL DEF Spec

-----------------------------------------------------------------------------
(* Who holds a run: the inductive invariant TypeOK /\ Custody of Engine,   *)
(* and what follows from it, that an outcome once recorded is never        *)
(* rewritten and that no run is left behind while the process serves.      *)

LEMMA ProcsFacts ==
  Ticker \in Procs /\ Handlers \subseteq Procs /\ Ticker \notin Handlers
BY SchedulerAssumption DEF Procs

-----------------------------------------------------------------------------
LEMMA StagesStep ==
  ASSUME TypeOK, Custody, [Next]_vars
  PROVE  Stages'
<1> USE ProcsFacts DEF Custody
<1>1. issued \in Nat /\ crashes \in Nat /\ faults \in Nat
  BY BoundsAssumption, SchedulerAssumption DEF TypeOK, IdsOK, LimitsOK
<1>2. CASE Request
  <2>1. phase = "serving"
    BY <1>2 DEF Request, Admit, handleCreateTask, handleUpdateTask,
       handleDeleteTask, setTaskEnabled, setTaskPaused, handleDeleteRun,
       handleTriggerTask, handleRetryRun
  <2>2. phase' = phase /\ pend' = pend
    BY <1>2 DEF Request, engine, handleCreateTask, handleUpdateTask,
       handleDeleteTask, setTaskEnabled, setTaskPaused, handleDeleteRun,
       handleTriggerTask, TriggerLoad, handleRetryRun, RetryLoad
  <2> QED
    BY <2>1, <2>2 DEF Stages
<1>3. CASE Tick \/ TickFails \/ \E h \in Handlers : Serve(h) \/ RequestFails(h)
  <2>1. phase = "serving"
    BY <1>3 DEF Stages, Tick, TickBegin, TickScan, DispatchInsert,
       DispatchExecute, DispatchAdvance, TickFails, Serve, TriggerInsert,
       RetryInsert, RequestExecute, RequestFails
  <2>2. phase' = phase /\ pend' = pend
    BY <1>3 DEF Tick, TickBegin, TickScan, DispatchInsert,
       DispatchExecute, DispatchAdvance, TickFails, Serve, TriggerInsert,
       RetryInsert, RequestExecute, RequestFails
  <2> QED
    BY <2>1, <2>2 DEF Stages
<1>4. CASE Restart
  BY <1>4 DEF Restart, Stages, ids, limits
<1>5. CASE RecoverOrphans
  BY <1>5 DEF RecoverOrphans, Stages
<1>6. CASE RecoverExecute
  BY <1>6 DEF RecoverExecute, Stages
<1>7. CASE Start
  BY <1>7 DEF Start, Stages
<1>8. CASE RecoverFails
  BY <1>1, <1>8 DEF RecoverFails, Stages
<1>9. CASE Crash
  BY <1>1, <1>9 DEF Crash, Stages
<1>10. CASE ClockTick
  BY <1>10 DEF ClockTick, Stages, ids, limits
<1>11. CASE UNCHANGED vars
  BY <1>11 DEF vars, Stages
<1> QED
  BY <1>2, <1>3, <1>4, <1>5, <1>6, <1>7, <1>8, <1>9, <1>10, <1>11
     DEF Next, Boot, Environment

-----------------------------------------------------------------------------
(* What a step may do to the runs in hand and to the rows, whoever does it.*)

Final == \A r \in Rows(Terminal) : runs'[r] = runs[r] \/ runs'[r] = NoRow

(* A run recorded as live afterwards is in hand, or it was already not.    *)
NoneDropped ==
  \A s \in Live : \A r \in Rows({s})' :
    r \in Owed' \/ (r \in Rows({s}) /\ r \notin Owed)

(* Rows stay or are deleted, hands let go of runs.                         *)
LEMMA LettingGo ==
  ASSUME Custody, issued' = issued,
         \A r \in RunId : runs'[r] = runs[r] \/ runs'[r] = NoRow,
         \A p \in Procs : pc'[p] = "execute" =>
                            pc[p] = "execute" /\ job'[p] = job[p],
         pend' \subseteq pend
  PROVE  Hands' /\ Final /\ Owed' \subseteq Owed
<1>1. Executing' \subseteq Executing /\ Owed' \subseteq Owed
  BY DEF Executing, Owed
<1>2. Rows(Terminal)' \subseteq Rows(Terminal)
  BY DEF Rows
<1>3. Final
  BY DEF Final, Rows
<1>4. \A p, q \in Executing' : job'[p].run = job'[q].run => p = q
  BY DEF Custody, Hands, Executing
<1> QED
  BY <1>1, <1>2, <1>3, <1>4 DEF Custody, Hands

(* A goroutine creates a run and takes it in hand.                         *)
LEMMA TakingHold ==
  ASSUME TypeOK, Custody, NEW p \in Procs, pc[p] # "execute",
         NEW t, NEW row \in Run, row.status \in Live, InsertRun(p, t, row),
         pend' = pend
  PROVE  /\ Hands' /\ Final /\ NoneDropped
         /\ issued' = issued + 1 /\ issued' \in RunId /\ runs[issued'] = NoRow
         /\ runs' = [runs EXCEPT ![issued'] = row]
         /\ Owed' = Owed \cup {issued'}
<1>1. /\ issued' = issued + 1 /\ issued' \in RunId /\ issued \in Nat
      /\ runs' = [runs EXCEPT ![issued'] = row] /\ runs \in [RunId -> Run \cup {NoRow}]
  BY BoundsAssumption DEF InsertRun, CreateRun, TypeOK, IdsOK, TablesOK, RunId
<1>2. runs[issued'] = NoRow
  BY <1>1 DEF Custody, Hands
<1>3. /\ pc' = [pc EXCEPT ![p] = "execute"]
      /\ job' = [job EXCEPT ![p] = job'[p]] /\ job'[p].run = issued'
      /\ \A q \in Procs : q # p => pc'[q] = pc[q] /\ job'[q] = job[q]
      /\ pc'[p] = "execute"
  BY DEF InsertRun, Goto, TypeOK, GoroutinesOK
<1>4. Final
  BY <1>1, <1>2 DEF Final, Rows
<1>5. Rows(Terminal)' = Rows(Terminal)
  BY <1>1, <1>2 DEF Rows, Live, Terminal
<1>6. Executing' = Executing \cup {p} /\ p \notin Executing
  BY <1>3 DEF Executing
<1>7. Owed' = Owed \cup {issued'}
  BY <1>3, <1>6 DEF Owed, Executing
<1>8. issued' \notin Owed /\ issued' \notin Rows(Terminal)
  BY <1>1, <1>2 DEF Custody, Hands, Rows
<1>9. \A a, b \in Executing' : job'[a].run = job'[b].run => a = b
  <2>1. \A a \in Executing : job'[a].run = job[a].run /\ job[a].run \in Owed
    BY <1>3, <1>6 DEF Executing, Owed
  <2> QED
    BY <1>3, <1>6, <1>8, <2>1 DEF Custody, Hands
<1>10. \A r \in Owed' : r \in 1..issued' /\ r \notin Rows(Terminal)'
  BY <1>1, <1>5, <1>7, <1>8 DEF Custody, Hands
<1>11. \A r \in RunId : r > issued' => runs'[r] = NoRow
  BY <1>1 DEF Custody, Hands, RunId
<1>12. NoneDropped
  <2>1. \A r \in RunId : r # issued' => runs'[r] = runs[r]
    BY <1>1
  <2> QED
    BY <1>7, <2>1 DEF NoneDropped, Rows
<1> QED
  BY <1>1, <1>2, <1>4, <1>7, <1>9, <1>10, <1>11, <1>12 DEF Custody, Hands

(* Executing a run that is in hand touches its row only.                   *)
LEMMA ExecuteTouchesOne ==
  ASSUME TypeOK, NEW j, j.run \in Owed, Custody, ExecuteRun(j)
  PROVE  /\ Final /\ issued' = issued
         /\ Rows(Terminal)' \subseteq Rows(Terminal) \cup {j.run}
         /\ \A r \in RunId : runs[r] = NoRow => runs'[r] = NoRow
         /\ \A r \in RunId : r # j.run => runs'[r] = runs[r]
         /\ \A s \in Live : Rows({s})' \subseteq Rows({s}) \ {j.run}
<1>1. runs \in [RunId -> Run \cup {NoRow}]
  BY DEF TypeOK, TablesOK
<1>2. \/ runs' = runs
      \/ runs[j.run] # NoRow
         /\ runs' = [runs EXCEPT ![j.run] = [runs[j.run] EXCEPT !.status = Outcome(j.task)]]
  BY DEF ExecuteRun, UpdateRunStatus, Amend
<1>3. \A r \in RunId : r # j.run => runs'[r] = runs[r]
  BY <1>1, <1>2
<1>4. \A r \in RunId : runs[r] = NoRow => runs'[r] = NoRow
  BY <1>1, <1>2
<1>5. j.run \notin Rows(Terminal)
  BY DEF Custody, Hands
<1>6. Final
  BY <1>3, <1>5 DEF Final, Rows
<1>7. Rows(Terminal)' \subseteq Rows(Terminal) \cup {j.run}
  BY <1>3 DEF Rows
<1>8. j.run \in RunId /\ runs'[j.run] # NoRow => runs'[j.run].status \notin Live
  <2>1. ASSUME j.run \in RunId, runs[j.run] # NoRow
        PROVE  runs'[j.run].status = Outcome(j.task)
    <3>1. runs[j.run] \in Run
      BY <1>1, <2>1
    <3>2. runs' = [runs EXCEPT ![j.run] = [runs[j.run] EXCEPT !.status = Outcome(j.task)]]
      BY <2>1 DEF ExecuteRun, UpdateRunStatus, Amend
    <3> QED
      BY <1>1, <2>1, <3>1, <3>2 DEF Run
  <2> QED
    BY <1>4, <2>1 DEF Outcome, Live
<1>9. \A s \in Live : Rows({s})' \subseteq Rows({s}) \ {j.run}
  BY <1>3, <1>8 DEF Rows
<1> QED
  BY <1>3, <1>4, <1>6, <1>7, <1>9 DEF ExecuteRun, ids

(* A goroutine executes the run it holds and lets go of it.                *)
LEMMA ExecutedByGoroutine ==
  ASSUME TypeOK, Custody, NEW p \in Procs, pc[p] = "execute",
         ExecuteRun(job[p]), NEW label, label # "execute", NEW j,
         Goto(p, label, j), pend' = pend
  PROVE  /\ Hands' /\ Final /\ NoneDropped
         /\ job[p].run \in Owed /\ Owed' = Owed \ {job[p].run}
<1>1. job[p].run \in Owed /\ p \in Executing
  BY DEF Owed, Executing
<1>2. /\ Final /\ issued' = issued
      /\ Rows(Terminal)' \subseteq Rows(Terminal) \cup {job[p].run}
      /\ \A r \in RunId : runs[r] = NoRow => runs'[r] = NoRow
      /\ \A s \in Live : Rows({s})' \subseteq Rows({s}) \ {job[p].run}
  BY <1>1, ExecuteTouchesOne
<1>3. /\ pc'[p] = label
      /\ \A q \in Procs : q # p => pc'[q] = pc[q] /\ job'[q] = job[q]
  BY DEF Goto, TypeOK, GoroutinesOK
<1>4. Executing' = Executing \ {p} /\ \A q \in Executing' : job'[q] = job[q]
  BY <1>3 DEF Executing
<1>5. pend = {}
  BY <1>1 DEF Custody, Stages
<1>6. Owed' \subseteq Owed \ {job[p].run}
  BY <1>1, <1>4, <1>5 DEF Owed, Custody, Hands
<1>7. \A a, b \in Executing' : job'[a].run = job'[b].run => a = b
  BY <1>4 DEF Custody, Hands
<1>8. Owed \ {job[p].run} \subseteq Owed'
  BY <1>4, <1>5 DEF Owed
<1>9. NoneDropped
  BY <1>2, <1>8 DEF NoneDropped
<1> QED
  BY <1>1, <1>2, <1>5, <1>6, <1>7, <1>8, <1>9 DEF Custody, Hands

(* main executes a retry of recovery and lets go of it.                    *)
LEMMA ExecutedByRecovery ==
  ASSUME TypeOK, Custody, RecoverExecute
  PROVE  /\ Hands' /\ Final /\ NoneDropped
         /\ \E j \in pend : /\ ExecuteRun(j) /\ j.run \in Owed
                            /\ Owed' = Owed \ {j.run}
<1>1. PICK j \in NextRetry : ExecuteRun(j) /\ pend' = pend \ {j}
  BY DEF RecoverExecute
<1>2. j \in pend /\ j.run \in Owed
  BY DEF NextRetry, Owed
<1>3. /\ Final /\ issued' = issued
      /\ Rows(Terminal)' \subseteq Rows(Terminal) \cup {j.run}
      /\ \A r \in RunId : runs[r] = NoRow => runs'[r] = NoRow
      /\ \A s \in Live : Rows({s})' \subseteq Rows({s}) \ {j.run}
  BY <1>1, <1>2, ExecuteTouchesOne
<1>4. Executing = {} /\ Executing' = {}
  <2>1. phase # "serving"
    BY <1>2 DEF Custody, Stages
  <2> QED
    BY <2>1 DEF RecoverExecute, Custody, Stages, Executing
<1>5. Owed' \subseteq Owed \ {j.run}
  BY <1>1, <1>2, <1>4 DEF Owed, Custody, Hands
<1>6. Owed \ {j.run} \subseteq Owed'
  BY <1>1, <1>4 DEF Owed
<1>7. NoneDropped
  BY <1>3, <1>6 DEF NoneDropped
<1> QED
  BY <1>1, <1>2, <1>3, <1>4, <1>5, <1>6, <1>7 DEF Custody, Hands

(* Recovery takes hold of the retries it has just created.                 *)
LEMMA RecoveryTakesHold ==
  ASSUME TypeOK, Custody, RecoverOrphans
  PROVE  /\ Hands' /\ Final
         /\ Rows({"running"})' = {}
         /\ \A r \in Rows({"pending"})' : r \in Owed' \/ r \in Rows({"pending"})
         /\ Owed = {}
         /\ \E f \in Injection(Retriable, (issued + 1)..issued') :
              Owed' = {f[o] : o \in Retriable}
         /\ \A r \in RunId :
              \/ /\ r \in Rows({"running"}) /\ r \notin Owed'
                 /\ runs'[r] = [runs[r] EXCEPT !.status = "orphaned"]
              \/ /\ r \notin Rows({"running"}) /\ r \in Owed'
                 /\ runs'[r] \in Run /\ runs'[r].status = "pending"
              \/ /\ r \notin Rows({"running"}) /\ r \notin Owed'
                 /\ runs'[r] = runs[r]
<1>1. PICK f \in RetryIds(Retriable), at \in [Retriable -> Readings] :
        LET NewRow(o) == RetryRun(runs[o].task, runs[o].attempt, at[o]) IN
        /\ runs' = [r \in RunId |->
                      IF r \in OrphanedRuns(runs)
                      THEN [runs[r] EXCEPT !.status = "orphaned"]
                      ELSE IF \E o \in Retriable : f[o] = r
                      THEN NewRow(CHOOSE o \in Retriable : f[o] = r)
                      ELSE runs[r]]
        /\ pend' = {[task |-> tasks[runs[o].task], run |-> f[o],
                     attempt |-> runs[o].attempt + 1, at |-> at[o]] : o \in Retriable}
  BY DEF RecoverOrphans
<1>2. /\ issued \in Nat /\ issued <= MaxRuns /\ MaxRuns \in Nat
      /\ issued' = issued + Cardinality(Retriable)
      /\ runs \in [RunId -> Run \cup {NoRow}]
  BY BoundsAssumption DEF RecoverOrphans, TypeOK, IdsOK, TablesOK
<1>3. /\ Cardinality(Retriable) \in Nat
      /\ \A o \in Retriable : /\ f[o] \in RunId /\ f[o] > issued
                              /\ f[o] <= issued + Cardinality(Retriable)
      /\ \A o, q \in Retriable : f[o] = f[q] => o = q
  BY RetryIdsAreFresh DEF RecoverOrphans, TypeOK
<1>4. \A r \in RunId :
        \/ /\ runs[r] # NoRow /\ runs[r].status = "running"
           /\ runs'[r] = [runs[r] EXCEPT !.status = "orphaned"]
        \/ /\ \E o \in Retriable : f[o] = r
           /\ runs'[r] \in Run /\ runs'[r].status = "pending"
        \/ /\ ~(runs[r] # NoRow /\ runs[r].status = "running")
           /\ ~\E o \in Retriable : f[o] = r
           /\ runs'[r] = runs[r]
  <2> SUFFICES ASSUME NEW r \in RunId, r \notin OrphanedRuns(runs),
                      \E o \in Retriable : f[o] = r
               PROVE  runs'[r] \in Run /\ runs'[r].status = "pending"
    BY <1>1, <1>2 DEF OrphanedRuns
  <2>1. PICK q \in Retriable : q = CHOOSE o \in Retriable : f[o] = r
    OBVIOUS
  <2>2. runs'[r] = RetryRun(runs[q].task, runs[q].attempt, at[q])
    BY <1>1, <2>1
  <2>3. runs[q] \in Run /\ at[q] \in Readings
    BY <1>2, <2>1 DEF Retriable, OrphanedRuns
  <2>4. runs[q].task \in TaskId /\ runs[q].attempt \in Nat /\ at[q] \in Time
    BY <2>3, ReadingsAreTimes DEF Run, TypeOK, LimitsOK, RecoverOrphans
  <2> QED
    BY <2>2, <2>4, NewRunTypes DEF RetryRun
<1>5. \A o \in Retriable : f[o] \in RunId /\ runs[f[o]] = NoRow
  BY <1>3 DEF Custody, Hands
<1>6. Final
  BY <1>4, <1>5 DEF Final, Rows, Terminal
<1>7. Executing = {} /\ Executing' = {} /\ pend = {}
  BY DEF RecoverOrphans, Custody, Stages, Executing
<1>8. Owed' = {f[o] : o \in Retriable}
  <2>1. Owed' = {k.run : k \in pend'}
    BY <1>7 DEF Owed
  <2>2. \A r \in Owed' : \E o \in Retriable : r = f[o]
    BY <1>1, <2>1
  <2>3. \A o \in Retriable : f[o] \in Owed'
    <3> TAKE o \in Retriable
    <3> DEFINE k == [task |-> tasks[runs[o].task], run |-> f[o],
                     attempt |-> runs[o].attempt + 1, at |-> at[o]]
    <3>1. k \in pend' /\ k.run = f[o]
      BY <1>1
    <3> QED
      BY <2>1, <3>1
  <2> QED
    BY <2>2, <2>3
<1>9. \A j, k \in pend' : j.run = k.run => j = k
  BY <1>1, <1>3
<1>10. \A r \in Owed' : r \in 1..issued' /\ r \notin Rows(Terminal)'
  <2> SUFFICES ASSUME NEW o \in Retriable
               PROVE  f[o] \in 1..issued' /\ f[o] \notin Rows(Terminal)'
    BY <1>8
  <2>1. f[o] \in 1..issued'
    BY <1>2, <1>3 DEF RunId
  <2>2. runs'[f[o]].status = "pending"
    BY <1>4, <1>5
  <2> QED
    BY <2>1, <2>2 DEF Rows, Terminal
<1>11. \A r \in RunId : r > issued' => runs'[r] = NoRow
  <2> SUFFICES ASSUME NEW r \in RunId, r > issued'
               PROVE  runs'[r] = NoRow
    OBVIOUS
  <2>1. r > issued
    BY <1>2, <1>3 DEF RunId
  <2>2. runs[r] = NoRow
    BY <2>1 DEF Custody, Hands
  <2>3. ~\E o \in Retriable : f[o] = r
    BY <1>2, <1>3 DEF RunId
  <2> QED
    BY <1>4, <2>2, <2>3
<1>12. Rows({"running"})' = {}
  <2> SUFFICES ASSUME NEW r \in RunId, runs'[r] # NoRow, runs'[r].status = "running"
               PROVE  FALSE
    BY DEF Rows
  <2>1. CASE runs[r] # NoRow /\ runs[r].status = "running"
    <3>1. runs[r] \in Run /\ runs'[r] = [runs[r] EXCEPT !.status = "orphaned"]
      BY <1>2, <1>4, <1>5, <2>1
    <3> QED
      BY <3>1 DEF Run
  <2>2. CASE ~(runs[r] # NoRow /\ runs[r].status = "running")
    BY <1>4, <2>2
  <2> QED
    BY <2>1, <2>2
<1>13. ASSUME NEW r \in Rows({"pending"})'
       PROVE  r \in Owed' \/ r \in Rows({"pending"})
  <2>1. r \in RunId /\ runs'[r] # NoRow /\ runs'[r].status = "pending"
    BY DEF Rows
  <2>2. CASE runs[r] # NoRow /\ runs[r].status = "running"
    <3>1. runs[r] \in Run /\ runs'[r] = [runs[r] EXCEPT !.status = "orphaned"]
      BY <1>2, <1>4, <1>5, <2>1, <2>2
    <3> QED
      BY <2>1, <3>1 DEF Run
  <2>3. CASE \E o \in Retriable : f[o] = r
    BY <1>8, <2>3
  <2>4. CASE runs'[r] = runs[r]
    BY <2>1, <2>4 DEF Rows
  <2> QED
    BY <1>4, <2>1, <2>2, <2>3, <2>4
<1>14. Owed = {}
  BY <1>7 DEF Owed
<1>15. \E g \in Injection(Retriable, (issued + 1)..issued') :
         Owed' = {g[o] : o \in Retriable}
  BY <1>2, <1>8 DEF RetryIds
<1>16. \A r \in RunId :
         \/ /\ r \in Rows({"running"}) /\ r \notin Owed'
            /\ runs'[r] = [runs[r] EXCEPT !.status = "orphaned"]
         \/ /\ r \notin Rows({"running"}) /\ r \in Owed'
            /\ runs'[r] \in Run /\ runs'[r].status = "pending"
         \/ /\ r \notin Rows({"running"}) /\ r \notin Owed'
            /\ runs'[r] = runs[r]
  BY <1>4, <1>5, <1>8 DEF Rows
<1> QED
  BY <1>6, <1>7, <1>9, <1>10, <1>11, <1>12, <1>13, <1>14, <1>15, <1>16 DEF Hands

(* A goroutine that goes anywhere but to an execution takes nothing.       *)
LEMMA StepsAside ==
  ASSUME TypeOK, NEW p \in Procs, NEW label, label # "execute", NEW j,
         Goto(p, label, j)
  PROVE  /\ \A q \in Procs : pc'[q] = "execute" =>
                               pc[q] = "execute" /\ job'[q] = job[q]
         /\ pc[p] # "execute" => Executing' = Executing
         /\ pc[p] # "execute" /\ pend' = pend => Owed' = Owed
<1>1. /\ pc'[p] = label
      /\ \A q \in Procs : q # p => pc'[q] = pc[q] /\ job'[q] = job[q]
  BY DEF Goto, TypeOK, GoroutinesOK
<1>2. pc[p] # "execute" => Executing' = Executing
  BY <1>1 DEF Executing
<1>3. pc[p] # "execute" => \A q \in Executing : job'[q] = job[q]
  BY <1>1 DEF Executing
<1> QED
  BY <1>1, <1>2, <1>3 DEF Owed

-----------------------------------------------------------------------------
(* One step of the engine: hands, final outcomes, and, but for a crash, a  *)
(* failure and the start of recovery, no run dropped.                      *)

Mishap == Crash \/ TickFails \/ RecoverFails \/ \E h \in Handlers : RequestFails(h)

LEMMA RequestStep ==
  ASSUME TypeOK, Custody, Request
  PROVE  /\ Hands' /\ Final /\ NoneDropped
         /\ Owed' = Owed /\ issued' = issued
         /\ \A r \in RunId : runs'[r] = runs[r] \/ runs'[r] = NoRow
<1> USE ProcsFacts
<1>1. /\ issued' = issued /\ pend' = pend
      /\ \A r \in RunId : runs'[r] = runs[r] \/ runs'[r] = NoRow
  BY DEF Request, engine, ids, disk, handleCreateTask, handleUpdateTask,
     handleDeleteTask, DeleteRunsOf, setTaskEnabled, setTaskPaused,
     handleDeleteRun, DeleteRun, handleTriggerTask, TriggerLoad,
     handleRetryRun, RetryLoad, TypeOK, TablesOK
<1> DEFINE Steady == /\ \A q \in Procs : pc'[q] = "execute" =>
                                             pc[q] = "execute" /\ job'[q] = job[q]
                     /\ Owed' = Owed
<1>2. Steady
  <2>1. CASE UNCHANGED engine
    BY <2>1 DEF engine, Owed, Executing
  <2>2. ASSUME NEW h \in Handlers, handleTriggerTask(h)
        PROVE  Steady
    BY <2>2, StepsAside DEF handleTriggerTask, TriggerLoad
  <2>3. ASSUME NEW h \in Handlers, handleRetryRun(h)
        PROVE  Steady
    BY <2>3, StepsAside DEF handleRetryRun, RetryLoad
  <2> QED
    BY <2>1, <2>2, <2>3 DEF Request, handleCreateTask, handleUpdateTask,
       handleDeleteTask, setTaskEnabled, setTaskPaused, handleDeleteRun
<1>3. NoneDropped
  BY <1>1, <1>2 DEF NoneDropped, Rows
<1> QED
  BY <1>1, <1>2, <1>3, LettingGo

(* The runs that ticks and requests create are rows of their table, live.  *)
LEMMA DispatchInserts ==
  ASSUME TypeOK, DispatchInsert
  PROVE  \E t : \E row \in Run : row.status \in Live /\ InsertRun(Ticker, t, row)
<1>1. PICK t \in Earliest(due) :
        InsertRun(Ticker, t, FirstAttempt(t, "schedule", tickAt, t.nextRunAt))
  BY DEF DispatchInsert
<1>2. t \in ValidTask /\ t.nextRunAt \in Int
  BY DEF Earliest, TypeOK, TickerOK, ValidTask, Task
<1>3. tickAt \in Time
  BY ClockIsANumber, BoundsAssumption
     DEF DispatchInsert, TypeOK, TickerOK, LimitsOK, Time
<1>4. FirstAttempt(t, "schedule", tickAt, t.nextRunAt) \in Run
  BY <1>2, <1>3, NewRunTypes DEF Triggers
<1>5. FirstAttempt(t, "schedule", tickAt, t.nextRunAt).status \in Live
  BY DEF FirstAttempt, Live
<1> QED
  BY <1>1, <1>4, <1>5

LEMMA RequestInserts ==
  ASSUME TypeOK, NEW h \in Handlers, TriggerInsert(h) \/ RetryInsert(h)
  PROVE  \E t : \E row \in Run : row.status \in Live /\ InsertRun(h, t, row)
<1> USE ProcsFacts
<1>1. now \in Time /\ Time \subseteq Nat
  BY ClockIsANumber DEF TypeOK, LimitsOK
<1>2. CASE TriggerInsert(h)
  <2>1. PICK at \in job[h].at..now :
          InsertRun(h, job[h].task, FirstAttempt(job[h].task, "manual", at, 0))
    BY <1>2 DEF TriggerInsert
  <2>2. job[h].task \in ValidTask /\ job[h].at \in Time
    BY <1>2, JobTypes DEF TriggerInsert, TypeOK
  <2>3. at \in Time
    BY <1>1, <2>2, BoundsAssumption DEF Time
  <2>4. FirstAttempt(job[h].task, "manual", at, 0) \in Run
    BY <2>2, <2>3, NewRunTypes, 0 \in Int DEF Triggers
  <2>5. FirstAttempt(job[h].task, "manual", at, 0).status \in Live
    BY DEF FirstAttempt, Live
  <2> QED
    BY <2>1, <2>4, <2>5
<1>3. CASE RetryInsert(h)
  <2>1. job[h].task.id \in TaskId /\ job[h].attempt \in Nat
    BY <1>3, JobTypes DEF RetryInsert, TypeOK
  <2>2. RetryRun(job[h].task.id, job[h].attempt, now) \in Run
    BY <1>1, <2>1, NewRunTypes
  <2>3. RetryRun(job[h].task.id, job[h].attempt, now).status \in Live
    BY DEF RetryRun, Live
  <2>4. InsertRun(h, job[h].task, RetryRun(job[h].task.id, job[h].attempt, now))
    BY <1>3 DEF RetryInsert
  <2> QED
    BY <2>2, <2>3, <2>4
<1> QED
  BY <1>2, <1>3

LEMMA TickStep ==
  ASSUME TypeOK, Custody, Tick
  PROVE  Hands' /\ Final /\ NoneDropped
<1> USE ProcsFacts
<1>1. ASSUME NEW label, label # "execute", NEW j, Goto(Ticker, label, j),
             pc[Ticker] # "execute", UNCHANGED <<runs, issued, pend>>
      PROVE  Hands' /\ Final /\ NoneDropped
  <2>1. /\ \A q \in Procs : pc'[q] = "execute" =>
                              pc[q] = "execute" /\ job'[q] = job[q]
        /\ Owed' = Owed
    BY <1>1, StepsAside
  <2>2. NoneDropped
    BY <1>1, <2>1 DEF NoneDropped, Rows
  <2> QED
    BY <1>1, <2>1, <2>2, LettingGo
<1>2. CASE TickBegin
  BY <1>1, <1>2 DEF TickBegin, disk, ids
<1>3. CASE TickScan \/ DispatchAdvance
  BY <1>1, <1>3 DEF TickScan, DispatchAdvance, Continue, disk, ids
<1>4. CASE DispatchInsert
  BY <1>4, DispatchInserts, TakingHold DEF DispatchInsert
<1>5. CASE DispatchExecute
  BY <1>5, ExecutedByGoroutine DEF DispatchExecute
<1> QED
  BY <1>2, <1>3, <1>4, <1>5 DEF Tick

LEMMA ServeStep ==
  ASSUME TypeOK, Custody, NEW h \in Handlers, Serve(h)
  PROVE  Hands' /\ Final /\ NoneDropped
<1> USE ProcsFacts
<1>1. CASE TriggerInsert(h) \/ RetryInsert(h)
  BY <1>1, RequestInserts, TakingHold DEF TriggerInsert, RetryInsert
<1>2. CASE RequestExecute(h)
  BY <1>2, ExecutedByGoroutine DEF RequestExecute
<1> QED
  BY <1>1, <1>2 DEF Serve

LEMMA MishapStep ==
  ASSUME TypeOK, Custody, Mishap
  PROVE  Hands' /\ Final /\ UNCHANGED <<runs, issued>> /\ Owed' \subseteq Owed
<1> USE ProcsFacts
<1>1. UNCHANGED <<runs, issued>> /\ pend' \subseteq pend
  BY DEF Mishap, Crash, TickFails, RecoverFails, RequestFails, disk, ids
<1>2. \A q \in Procs : pc'[q] = "execute" =>
                         pc[q] = "execute" /\ job'[q] = job[q]
  BY StepsAside DEF Mishap, Crash, TickFails, Continue, RecoverFails, RequestFails
<1> QED
  BY <1>1, <1>2, LettingGo

LEMMA CustodyStep ==
  ASSUME TypeOK, Custody, [Next]_vars
  PROVE  Custody' /\ Final /\ (NoneDropped \/ RecoverOrphans \/ Mishap)
<1>1. ASSUME UNCHANGED <<runs, issued, pc, job, pend>>
      PROVE  Hands' /\ Final /\ NoneDropped
  <2>1. Owed' = Owed /\ Executing' = Executing
    BY <1>1 DEF Owed, Executing
  <2>2. NoneDropped
    BY <1>1, <2>1 DEF NoneDropped, Rows
  <2> QED
    BY <1>1, <2>2, LettingGo
<1>2. UNCHANGED vars \/ Restart \/ Start \/ ClockTick
      => UNCHANGED <<runs, issued, pc, job, pend>>
  BY DEF vars, Restart, Start, ClockTick, disk, ids
<1> QED
  BY <1>1, <1>2, StagesStep, RequestStep, TickStep, ServeStep, MishapStep,
     RecoveryTakesHold, ExecutedByRecovery
     DEF Custody, Next, Boot, Environment, Mishap

LEMMA CustodyInit == Init => Custody
<1> SUFFICES ASSUME Init PROVE Custody
  OBVIOUS
<1>1. Executing = {} /\ Owed = {} /\ pend = {}
  BY ProcsFacts DEF Init, Executing, Owed
<1> QED
  BY <1>1 DEF Init, Custody, Hands, Stages

(* Every run is in at most one pair of hands and nobody holds a run that   *)
(* ended: the inductive invariant of the engine.                           *)
THEOREM RunsAreInCustody == Spec => []Custody
<1>1. TypeOK /\ Custody /\ [Next]_vars => Custody'
  BY CustodyStep
<1> QED
  BY <1>1, CustodyInit, TypeCorrect, PTL DEF Spec

(* An outcome once recorded stands until its row is deleted, for any       *)
(* number of goroutines, crashes, failures and requests.                   *)
THEOREM OutcomesAreFinal == Spec => TerminalIsFinal
<1>1. TypeOK /\ Custody /\ [Next]_vars =>
        [\A r \in Rows(Terminal) : runs'[r] = runs[r] \/ runs'[r] = NoRow]_vars
  BY CustodyStep DEF Final
<1> QED
  BY <1>1, TypeCorrect, RunsAreInCustody, PTL DEF Spec, TerminalIsFinal

LEMMA OwnerStep ==
  ASSUME TypeOK, Custody, LiveRunHasOwner, [Next]_vars
  PROVE  LiveRunHasOwner'
<1> SUFFICES ASSUME faults' = 0, phase' \in {"retrying", "serving"}
             PROVE  /\ Rows({"running"})' \subseteq Owed'
                    /\ crashes' = 0 => Rows({"pending"})' \subseteq Owed'
  BY DEF LiveRunHasOwner
<1>1. faults \in Nat /\ crashes \in Nat
  BY SchedulerAssumption DEF TypeOK, LimitsOK
<1>2. CASE RecoverOrphans
  <2>1. faults = 0 /\ crashes' = crashes /\ phase = "recovering"
    BY <1>2 DEF RecoverOrphans, limits
  <2>2. crashes = 0 => Rows({"pending"}) = {}
    <3>1. crashes = 0 => issued = 0
      BY <2>1 DEF Custody, Stages
    <3>2. issued = 0 => \A r \in RunId : runs[r] = NoRow
      BY BoundsAssumption DEF Custody, Hands, RunId
    <3> QED
      BY <3>1, <3>2 DEF Rows
  <2> QED
    BY <1>2, <2>1, <2>2, RecoveryTakesHold
<1>3. CASE Mishap
  BY <1>1, <1>3 DEF Mishap, Crash, TickFails, RecoverFails, RequestFails
<1>4. CASE ~RecoverOrphans /\ ~Mishap
  <2>1. NoneDropped
    BY <1>4, CustodyStep
  <2>2. faults' = faults /\ crashes' = crashes
    BY <1>4 DEF Mishap, Next, vars, limits, Request, handleCreateTask,
       handleUpdateTask, handleDeleteTask, setTaskEnabled, setTaskPaused,
       handleDeleteRun, handleTriggerTask, TriggerLoad, handleRetryRun,
       RetryLoad, Tick, TickBegin, TickScan, DispatchInsert, DispatchExecute,
       DispatchAdvance, Serve, TriggerInsert, RetryInsert, RequestExecute,
       Boot, Restart, RecoverExecute, Start, Environment, ClockTick
  <2>3. phase \in {"retrying", "serving"}
    BY <1>4 DEF Mishap, Next, vars, engine, Request, Admit, handleCreateTask,
       handleUpdateTask, handleDeleteTask, setTaskEnabled, setTaskPaused,
       handleDeleteRun, handleTriggerTask, TriggerLoad, handleRetryRun,
       RetryLoad, Tick, TickBegin, TickScan, DispatchInsert, DispatchExecute,
       DispatchAdvance, Serve, TriggerInsert, RetryInsert, RequestExecute,
       Boot, Restart, RecoverExecute, Start, Environment, ClockTick
  <2>4. Rows({"running"}) \subseteq Owed
        /\ (crashes = 0 => Rows({"pending"}) \subseteq Owed)
    BY <2>2, <2>3 DEF LiveRunHasOwner
  <2> QED
    BY <2>1, <2>2, <2>4 DEF NoneDropped, Live
<1> QED
  BY <1>2, <1>3, <1>4

(* While the process serves no running run is left behind, however many    *)
(* times it crashed, as long as no transaction failed.                     *)
THEOREM RunningRunsAreOwned == Spec => []LiveRunHasOwner
<1>1. Init => LiveRunHasOwner
  BY DEF Init, LiveRunHasOwner
<1>2. TypeOK /\ Custody /\ LiveRunHasOwner /\ [Next]_vars => LiveRunHasOwner'
  BY OwnerStep
<1> QED
  BY <1>1, <1>2, TypeCorrect, RunsAreInCustody, PTL DEF Spec

-----------------------------------------------------------------------------
(* The engine keeps the ledger, whatever the number of tasks, goroutines,  *)
(* requests, crashes and failures: each of its steps is a step of          *)
(* RunLedger, seen through Life, Owed and Tally.                           *)

(* Where a run stands in the ledger, by its row.                           *)
LEMMA LifeOfARun ==
  ASSUME TypeOK
  PROVE  /\ issued \in Nat
         /\ \A r \in RunId :
              /\ Life[r] = IF r > issued THEN "none"
                           ELSE IF runs[r] = NoRow THEN "gone" ELSE runs[r].status
              /\ runs[r] # NoRow => /\ runs[r] \in Run
                                    /\ runs[r].status \in Live \cup Terminal
BY BoundsAssumption DEF Life, TypeOK, IdsOK, TablesOK, Run

(* InsertRun is Create.                                                    *)
LEMMA InsertIsCreate ==
  ASSUME TypeOK, Custody, NEW p \in Procs, pc[p] # "execute", NEW t,
         NEW row \in Run, row.status \in Live, InsertRun(p, t, row),
         pend' = pend
  PROVE  Ledger!LedgerNext
<1> DEFINE new == issued'
<1>1. /\ new = issued + 1 /\ new \in RunId /\ Owed' = Owed \cup {new}
      /\ runs' = [runs EXCEPT ![new] = row] /\ runs \in [RunId -> Run \cup {NoRow}]
      /\ issued \in Nat /\ RunId \subseteq Nat
  BY TakingHold, BoundsAssumption DEF TypeOK, TablesOK, IdsOK, RunId
<1>2. Life[new] = "none"
  BY <1>1, LifeOfARun
<1>3. Life' = [Life EXCEPT ![new] = row.status]
  <2>1. runs'[new] = row /\ row # NoRow
    BY <1>1, NoRowIsNoRun
  <2>2. ASSUME NEW r \in RunId
        PROVE  Life'[r] = IF r = new THEN row.status ELSE Life[r]
    <3>1. CASE r = new
      BY <1>1, <2>1, <3>1 DEF Life
    <3>2. CASE r # new
      BY <1>1, <3>2 DEF Life
    <3> QED
      BY <3>1, <3>2
  <2> QED
    BY <1>1, <2>2 DEF Life
<1>4. UNCHANGED Tally
  BY DEF InsertRun, Tally
<1>5. Ledger!Create(new, row.status)
  BY <1>1, <1>2, <1>3, <1>4 DEF Ledger!Create
<1> QED
  BY <1>1, <1>5 DEF Ledger!LedgerNext, Ledger!Unended, Live

(* The transaction of executeRun is Report.                                *)
LEMMA ExecuteIsReport ==
  ASSUME TypeOK, Custody, NEW j \in Job, ExecuteRun(j), j.run \in Owed,
         Owed' = Owed \ {j.run}
  PROVE  Ledger!LedgerNext
<1> DEFINE r == j.run
           outcome == Outcome(j.task)
           d == DayOf(j.at)
<1>1. /\ r \in 1..issued /\ r \notin Rows(Terminal) /\ r \in RunId
      /\ issued \in Nat
  BY BoundsAssumption DEF Custody, Hands, TypeOK, IdsOK, RunId
<1>2. outcome \in {"succeeded", "failed"} /\ d \in Day
  BY ClockIsANumber DEF Outcome, Job
<1>3. /\ issued' = issued
      /\ \A s \in RunId : s # r => runs'[s] = runs[s]
      /\ runs[r] = NoRow => runs'[r] = NoRow
  BY <1>1, ExecuteTouchesOne
<1>4. \/ Life[r] \in Live /\ Life' = [Life EXCEPT ![r] = outcome]
      \/ Life[r] = "gone" /\ UNCHANGED Life
  <2>1. \A s \in RunId : s # r => Life'[s] = Life[s]
    BY <1>3 DEF Life
  <2>2. CASE runs[r] = NoRow
    <3>1. Life[r] = "gone" /\ Life'[r] = "gone"
      BY <1>1, <1>3, <2>2 DEF Life
    <3> QED
      BY <2>1, <3>1 DEF Life
  <2>3. CASE runs[r] # NoRow
    <3>1. runs[r] \in Run /\ runs[r].status \in Live
      BY <1>1, <2>3, LifeOfARun DEF Rows
    <3>2. runs' = [runs EXCEPT ![r] = [runs[r] EXCEPT !.status = outcome]]
      BY <2>3 DEF ExecuteRun, UpdateRunStatus, Amend
    <3>3. runs'[r] = [runs[r] EXCEPT !.status = outcome]
      BY <1>1, <3>2 DEF TypeOK, TablesOK
    <3>4. runs'[r] \in Run /\ runs'[r].status = outcome
      BY <1>2, <3>1, <3>3 DEF Run, Terminal
    <3>5. Life'[r] = outcome /\ Life[r] \in Live
      BY <1>1, <1>3, <2>3, <3>1, <3>4, NoRowIsNoRun DEF Life
    <3> QED
      BY <2>1, <3>5 DEF Life
  <2> QED
    BY <2>2, <2>3
<1>5. Tally' = [Tally EXCEPT ![d] = @ + 1]
  <2>1. daily \in [Day -> [succeeded : Nat, failed : Nat, running : Nat]]
    BY DEF TypeOK, TablesOK
  <2>2. daily' = [daily EXCEPT ![d] =
                    [daily[d] EXCEPT ![outcome] = daily[d][outcome] + 1]]
    BY <1>2 DEF ExecuteRun, RecordRunOutcome, StatColumn
  <2>3. daily'[d] = [daily[d] EXCEPT ![outcome] = daily[d][outcome] + 1]
        /\ \A e \in Day : e # d => daily'[e] = daily[e]
    BY <1>2, <2>1, <2>2
  <2>4. /\ daily[d] \in [succeeded : Nat, failed : Nat, running : Nat]
        /\ daily[d].succeeded \in Nat /\ daily[d].failed \in Nat
    BY <1>2, <2>1
  <2>5. daily'[d].succeeded + daily'[d].failed
          = daily[d].succeeded + daily[d].failed + 1
    <3>1. CASE outcome = "succeeded"
      <4>1. daily'[d].succeeded = daily[d].succeeded + 1 /\ daily'[d].failed = daily[d].failed
        BY <2>3, <2>4, <3>1
      <4> QED
        BY <2>4, <4>1
    <3>2. CASE outcome = "failed"
      <4>1. daily'[d].succeeded = daily[d].succeeded /\ daily'[d].failed = daily[d].failed + 1
        BY <2>3, <2>4, <3>2
      <4> QED
        BY <2>4, <4>1
    <3> QED
      BY <1>2, <3>1, <3>2
  <2>6. \A e \in Day : Tally'[e] = IF e = d THEN Tally[d] + 1 ELSE Tally[e]
    BY <2>3, <2>5 DEF Tally
  <2> QED
    BY <1>2, <2>6 DEF Tally
<1>6. Ledger!Report(r, outcome, d)
  BY <1>4, <1>5 DEF Ledger!Report, Ledger!Unended, Live
<1> QED
  BY <1>1, <1>2, <1>6 DEF Ledger!LedgerNext, Ledger!Executed

(* A step that at most deletes rows is Delete.                             *)
LEMMA DeletingIsDelete ==
  ASSUME TypeOK, issued' = issued, Owed' = Owed, daily' = daily,
         \A r \in RunId : runs'[r] = runs[r] \/ runs'[r] = NoRow,
         Custody
  PROVE  Ledger!LedgerNext
<1> DEFINE R == {r \in RunId : runs[r] # NoRow /\ runs'[r] = NoRow}
<1>1. \A r \in R : Life[r] \in Live \cup Terminal
  BY LifeOfARun, BoundsAssumption DEF Custody, Hands, RunId
<1>2. ASSUME NEW r \in RunId
      PROVE  Life'[r] = IF r \in R THEN "gone" ELSE Life[r]
  <2>1. CASE r > issued
    BY <2>1 DEF Life, Custody, Hands
  <2>2. CASE ~(r > issued)
    BY <2>2 DEF Life
  <2> QED
    BY <2>1, <2>2
<1>3. Life' = [r \in RunId |-> IF r \in R THEN "gone" ELSE Life[r]]
  BY <1>2 DEF Life
<1>4. Ledger!Delete(R)
  BY <1>1, <1>3
     DEF Ledger!Delete, Ledger!Standing, Ledger!Unended, Ledger!Executed, Live,
         Terminal, Tally
<1>5. R \in SUBSET RunId
  OBVIOUS
<1> HIDE DEF R
<1> QED
  BY <1>4, <1>5 DEF Ledger!LedgerNext

(* A crash or a failure is Lose.                                           *)
LEMMA MishapIsLose ==
  ASSUME TypeOK, Custody, Mishap
  PROVE  Ledger!LedgerNext
<1>1. UNCHANGED <<runs, issued>> /\ Owed' \subseteq Owed
  BY MishapStep
<1>2. daily' = daily
  BY DEF Mishap, Crash, TickFails, RecoverFails, RequestFails, disk
<1>3. Owed \subseteq RunId
  BY BoundsAssumption DEF Custody, Hands, RunId, TypeOK, IdsOK
<1>4. Ledger!Lose(Owed \ Owed')
  BY <1>1, <1>2 DEF Ledger!Lose, Life, Tally
<1>5. Owed \ Owed' \in SUBSET RunId
  BY <1>3
<1> QED
  BY <1>4, <1>5 DEF Ledger!LedgerNext

(* The retries of recovery take exactly the ids that follow issued, and    *)
(* each replaces a run of its own that was running.                        *)
LEMMA RetriesTakeNewIds ==
  ASSUME TypeOK, Custody, RecoverOrphans
  PROVE  /\ issued' \in 0..MaxRuns /\ issued <= issued'
         /\ Owed' = (issued + 1)..issued'
         /\ \E replaced \in [Owed' -> Rows({"running"})] :
              \A a, b \in Owed' : replaced[a] = replaced[b] => a = b
<1> DEFINE NewIds == (issued + 1)..issued'
<1>1. PICK f \in Injection(Retriable, NewIds) : Owed' = {f[o] : o \in Retriable}
  BY RecoveryTakesHold
<1>2. /\ issued \in Nat /\ MaxRuns \in Nat
      /\ issued' = issued + Cardinality(Retriable) /\ issued' <= MaxRuns
      /\ runs \in [RunId -> Run \cup {NoRow}]
  BY BoundsAssumption DEF TypeOK, IdsOK, TablesOK, RecoverOrphans
<1>3. Retriable \subseteq Rows({"running"}) /\ Rows({"running"}) \subseteq RunId
  BY <1>2 DEF Retriable, OrphanedRuns, Rows
<1>4. IsFiniteSet(Retriable) /\ Cardinality(Retriable) \in Nat
  <2>1. IsFiniteSet(RunId)
    BY FS_Interval, BoundsAssumption DEF RunId
  <2> QED
    BY <1>3, <2>1, FS_Subset, FS_CardinalityType
<1>5. IsFiniteSet(NewIds) /\ Cardinality(NewIds) = Cardinality(Retriable)
  <2>1. issued + 1 \in Int /\ issued' \in Int
    BY <1>2, <1>4
  <2>2. IsFiniteSet(NewIds)
        /\ Cardinality(NewIds) = IF issued + 1 > issued' THEN 0
                                 ELSE issued' - (issued + 1) + 1
    BY <2>1, FS_Interval
  <2> QED
    BY <1>2, <1>4, <2>2
<1>6. f \in Surjection(Retriable, NewIds)
  BY <1>1, <1>5, FS_Injection
<1>7. Owed' = NewIds
  BY <1>1, <1>6 DEF Surjection
<1> DEFINE replaced == [r \in Owed' |-> CHOOSE o \in Retriable : f[o] = r]
<1>8. \A r \in Owed' : replaced[r] \in Retriable /\ f[replaced[r]] = r
  BY <1>1
<1>9. /\ replaced \in [Owed' -> Rows({"running"})]
      /\ \A a, b \in Owed' : replaced[a] = replaced[b] => a = b
  BY <1>3, <1>8
<1> HIDE DEF replaced
<1> QED
  BY <1>2, <1>4, <1>7, <1>9

(* The transaction of Recover is WriteOff.                                 *)
LEMMA RecoveryIsWriteOff ==
  ASSUME TypeOK, Custody, RecoverOrphans
  PROVE  Ledger!LedgerNext
<1> DEFINE Lost == {r \in RunId : Life[r] = "running"}
<1>1. /\ issued \in Nat /\ RunId \subseteq Nat
      /\ runs \in [RunId -> Run \cup {NoRow}]
  BY BoundsAssumption DEF TypeOK, IdsOK, TablesOK, RunId
<1>2. /\ issued' \in 0..MaxRuns /\ issued <= issued'
      /\ Owed' = (issued + 1)..issued'
      /\ \E replaced \in [Owed' -> Rows({"running"})] :
           \A a, b \in Owed' : replaced[a] = replaced[b] => a = b
  BY RetriesTakeNewIds
<1>3. Lost = Rows({"running"})
  BY <1>1, LifeOfARun DEF Rows, Custody, Hands
<1>4. \A r \in Owed' : r \in RunId /\ Life[r] = "none"
  BY <1>1, <1>2, BoundsAssumption DEF Life, RunId
<1>5. Life' = [r \in RunId |-> IF r \in Lost THEN "orphaned"
                               ELSE IF r \in Owed' THEN "pending" ELSE Life[r]]
  <2> SUFFICES ASSUME NEW r \in RunId
               PROVE  Life'[r] = IF r \in Lost THEN "orphaned"
                                 ELSE IF r \in Owed' THEN "pending" ELSE Life[r]
    BY DEF Life
  <2>1. /\ r \in Nat /\ issued' \in Nat
        /\ Life'[r] = IF r > issued' THEN "none"
                      ELSE IF runs'[r] = NoRow THEN "gone" ELSE runs'[r].status
    BY <1>1, <1>2 DEF Life
  <2>2. \/ /\ r \in Rows({"running"}) /\ r \notin Owed'
           /\ runs'[r] = [runs[r] EXCEPT !.status = "orphaned"]
        \/ /\ r \notin Rows({"running"}) /\ r \in Owed'
           /\ runs'[r] \in Run /\ runs'[r].status = "pending"
        \/ /\ r \notin Rows({"running"}) /\ r \notin Owed'
           /\ runs'[r] = runs[r]
    BY RecoveryTakesHold
  <2>3. CASE r \in Rows({"running"})
    <3>1. runs[r] \in Run /\ ~(r > issued)
      BY <1>1, <2>3 DEF Rows, Custody, Hands
    <3>2. runs'[r] \in Run /\ runs'[r].status = "orphaned"
      BY <2>2, <2>3, <3>1 DEF Run, Terminal
    <3> QED
      BY <1>1, <1>2, <1>3, <2>1, <2>3, <3>1, <3>2, NoRowIsNoRun
  <2>4. CASE r \in Owed'
    <3>1. r \notin Lost /\ runs'[r] \in Run /\ runs'[r].status = "pending"
      BY <1>3, <2>2, <2>4
    <3> QED
      BY <1>2, <2>1, <2>4, <3>1, NoRowIsNoRun
  <2>5. CASE r \notin Rows({"running"}) /\ r \notin Owed'
    <3>1. runs'[r] = runs[r] /\ (r > issued <=> r > issued')
      BY <1>1, <1>2, <2>1, <2>2, <2>5
    <3> QED
      BY <1>3, <2>1, <2>5, <3>1 DEF Life
  <2> QED
    BY <2>3, <2>4, <2>5
<1>6. Owed = {} /\ UNCHANGED Tally
  BY RecoveryTakesHold DEF RecoverOrphans, Tally
<1>7. Ledger!WriteOff(Owed')
  BY <1>2, <1>3, <1>4, <1>5, <1>6 DEF Ledger!WriteOff
<1>8. Owed' \in SUBSET RunId
  BY <1>4
<1> QED
  BY <1>7, <1>8 DEF Ledger!LedgerNext

-----------------------------------------------------------------------------
LEMMA TickKeepsLedger ==
  ASSUME TypeOK, Custody, Tick
  PROVE  Ledger!LedgerNext
<1> USE ProcsFacts
<1>1. ASSUME NEW label, label # "execute", NEW j, Goto(Ticker, label, j),
             pc[Ticker] # "execute", UNCHANGED <<runs, daily, issued, pend>>
      PROVE  Ledger!LedgerNext
  BY <1>1, StepsAside, DeletingIsDelete
<1>2. CASE TickBegin
  BY <1>1, <1>2 DEF TickBegin, disk, ids
<1>3. CASE TickScan \/ DispatchAdvance
  BY <1>1, <1>3 DEF TickScan, DispatchAdvance, Continue, disk, ids
<1>4. CASE DispatchInsert
  BY <1>4, DispatchInserts, InsertIsCreate DEF DispatchInsert
<1>5. CASE DispatchExecute
  BY <1>5, JobTypes, ExecutedByGoroutine, ExecuteIsReport DEF DispatchExecute, TypeOK
<1> QED
  BY <1>2, <1>3, <1>4, <1>5 DEF Tick

LEMMA ServeKeepsLedger ==
  ASSUME TypeOK, Custody, NEW h \in Handlers, Serve(h)
  PROVE  Ledger!LedgerNext
<1> USE ProcsFacts
<1>1. CASE TriggerInsert(h) \/ RetryInsert(h)
  BY <1>1, RequestInserts, InsertIsCreate DEF TriggerInsert, RetryInsert
<1>2. CASE RequestExecute(h)
  BY <1>2, JobTypes, ExecutedByGoroutine, ExecuteIsReport DEF RequestExecute, TypeOK
<1> QED
  BY <1>1, <1>2 DEF Serve

LEMMA LedgerStep ==
  ASSUME TypeOK, Custody, [Next]_vars
  PROVE  Ledger!LedgerNext
<1>1. ASSUME UNCHANGED <<runs, daily, issued, pc, job, pend>>
      PROVE  Ledger!LedgerNext
  BY <1>1, DeletingIsDelete DEF Owed, Executing
<1>2. UNCHANGED vars \/ Restart \/ Start \/ ClockTick
      => UNCHANGED <<runs, daily, issued, pc, job, pend>>
  BY DEF vars, Restart, Start, ClockTick, disk, ids
<1>3. CASE Request
  <2>1. daily' = daily
    BY <1>3 DEF Request, disk, handleCreateTask, handleUpdateTask,
       handleDeleteTask, setTaskEnabled, setTaskPaused, handleDeleteRun,
       handleTriggerTask, TriggerLoad, handleRetryRun, RetryLoad
  <2> QED
    BY <1>3, <2>1, RequestStep, DeletingIsDelete
<1>4. CASE RecoverExecute
  <2>1. PICK j \in pend : ExecuteRun(j) /\ j.run \in Owed /\ Owed' = Owed \ {j.run}
    BY <1>4, ExecutedByRecovery
  <2>2. j \in Job
    BY <2>1 DEF TypeOK, PhaseOK
  <2> QED
    BY <2>1, <2>2, ExecuteIsReport
<1> QED
  BY <1>1, <1>2, <1>3, <1>4, TickKeepsLedger, ServeKeepsLedger, MishapIsLose,
     RecoveryIsWriteOff
     DEF Next, Boot, Environment, Mishap

LEMMA LedgerStart == Init => Ledger!LedgerInit
<1> SUFFICES ASSUME Init PROVE Ledger!LedgerInit
  OBVIOUS
<1>1. Owed = {}
  BY ProcsFacts DEF Init, Executing, Owed
<1>2. Life = [r \in RunId |-> "none"]
  BY BoundsAssumption DEF Init, Life, RunId
<1>3. Tally = [d \in Day |-> 0]
  BY DEF Init, Tally, NoStats
<1> QED
  BY <1>1, <1>2, <1>3 DEF Ledger!LedgerInit

(* The engine keeps the ledger (ImplementsLedger): a run is created once,  *)
(* executed by whoever holds it, reported and counted at most once and in  *)
(* one transaction; only crashes and failures lose executions, and         *)
(* recovery writes off what is left.                                       *)
THEOREM EngineKeepsTheLedger == Spec => ImplementsLedger
<1>1. TypeOK /\ Custody /\ [Next]_vars => [Ledger!LedgerNext]_(Ledger!lvars)
  BY LedgerStep
<1> QED
  BY <1>1, LedgerStart, TypeCorrect, RunsAreInCustody, PTL
     DEF Spec, ImplementsLedger, Ledger!LedgerSpec
=============================================================================
