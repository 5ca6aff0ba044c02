----------------------------- MODULE Scheduler -----------------------------
(***************************************************************************)
(* The scheduler engine: the ticker goroutine that scans for due tasks and *)
(* dispatches them, the request goroutines that trigger and retry runs,    *)
(* the recovery that main runs at start-up, crashes and store failures.    *)
(*                                                                         *)
(* A step is one transaction together with the local computation up to the *)
(* next BeginTx: the store has one connection (SetMaxOpenConns(1)), so a   *)
(* transaction excludes every other, and goroutines interleave exactly     *)
(* between transactions.                                                   *)
(***************************************************************************)
EXTENDS Store, Functions

CONSTANTS
  Handlers,    \* request goroutines that may be inside the scheduler
  MaxCrashes,  \* bound: times the process dies (or is stopped mid-flight)
  MaxFaults    \* bound: transactions that fail and are rolled back

Ticker == "ticker"
Procs  == {Ticker} \cup Handlers

ASSUME SchedulerAssumption ==
  /\ Ticker \notin Handlers
  /\ MaxCrashes \in Nat /\ MaxFaults \in Nat

VARIABLES
  tasks,    \* table tasks
  runs,     \* table runs
  daily,    \* table stats_daily
  born,     \* task ids given out so far (random ids do not repeat)
  issued,   \* run ids given out so far are 1..issued
  now,      \* the wall clock
  phase,    \* of the process: down, recovering, retrying, serving
  since,    \* when it began to recover or to serve, 0 while it is down
  pc,       \* where each goroutine stands, named after its next transaction
  job,      \* the task row and run a goroutine read and works on
  due,      \* ticker: rows returned by DueTasks and not dispatched yet
  tickAt,   \* ticker: nowMs of the current Tick
  ranAt,    \* ticker: when the run of the current dispatch was recorded
  pend,     \* main: retries Recover has yet to execute (toExec)
  crashes,  \* crashes so far
  faults    \* failed transactions so far

disk   == <<tasks, runs, daily>>
ids    == <<born, issued>>
ticker == <<due, tickAt, ranAt>>
limits == <<crashes, faults>>

(* What a clock read since then has shown.                                 *)
Readings == since..now

(* What a goroutine carries from one transaction into the next: the task   *)
(* row as it was read, the run, its attempt and its scheduled_at.          *)
Job   == [task : ValidTask, run : 0..MaxRuns, attempt : Nat, at : Time]
NoJob == NoRow

ASSUME NoJobAssumption == NoJob \notin Job

Goto(p, label, j) ==
  /\ pc'  = [pc EXCEPT ![p] = label]
  /\ job' = [job EXCEPT ![p] = j]

-----------------------------------------------------------------------------
(* runOnce and executeRun, shared by every way to run a task.              *)

(* runOnce and RetryRun commit the run before it is executed.              *)
InsertRun(p, t, row) ==
  /\ issued < MaxRuns
  /\ issued' = issued + 1
  /\ runs' = CreateRun(runs, issued', row)
  /\ Goto(p, "execute", [task |-> t, run |-> issued', attempt |-> row.attempt,
                         at |-> row.scheduledAt])
  /\ UNCHANGED <<tasks, daily, born>>

FirstAttempt(t, trigger, at, slot) ==
  [task |-> t.id, attempt |-> 1, status |-> "running", scheduledAt |-> at,
   triggeredBy |-> trigger, slot |-> slot]

BugExecuteRun(j) ==  \* counted on the day it finished
  /\ runs'  = UpdateRunStatus(runs, j.run, Outcome(j.task))
  /\ daily' = RecordRunOutcome(daily, DayOf(now), Outcome(j.task))
  /\ tasks' = SetLastRun(tasks, j.task.id, j.at)
  /\ UNCHANGED ids

(* The transaction of executeRun: outcome, daily statistics and last run.  *)
ExecuteRun(j) ==
  /\ runs'  = UpdateRunStatus(runs, j.run, Outcome(j.task))
  /\ daily' = RecordRunOutcome(daily, DayOf(j.at), Outcome(j.task))
  /\ tasks' = SetLastRun(tasks, j.task.id, j.at)
  /\ UNCHANGED ids

-----------------------------------------------------------------------------
(* The ticker: Tick and dispatch.                                          *)

(* The loop of Tick goes on with the tasks d, or Tick returns.             *)
Continue(d) ==
  /\ due' = d
  /\ Goto(Ticker, IF d = {} THEN "idle" ELSE "dispatch", NoJob)
  /\ tickAt' = IF d = {} THEN 0 ELSE tickAt
  /\ ranAt' = 0

(* Tick reads the clock before it opens its transaction.                   *)
TickBegin ==
  /\ phase = "serving"
  /\ pc[Ticker] = "idle"
  /\ Goto(Ticker, "scan", NoJob)
  /\ tickAt' = now
  /\ UNCHANGED <<disk, ids, now, phase, since, due, ranAt, pend, limits>>

TickScan ==
  /\ pc[Ticker] = "scan"
  /\ Continue(DueTasks(tasks, tickAt))
  /\ UNCHANGED <<disk, ids, now, phase, since, pend, limits>>

(* DueTasks orders by next_run_at; ties come in any order.                 *)
Earliest(d) == {t \in d : \A u \in d : t.nextRunAt <= u.nextRunAt}

DispatchInsert ==
  /\ pc[Ticker] = "dispatch"
  /\ \E t \in Earliest(due) :
       /\ InsertRun(Ticker, t, FirstAttempt(t, "schedule", tickAt, t.nextRunAt))
       /\ due' = due \ {t}
  /\ UNCHANGED <<now, phase, since, tickAt, ranAt, pend, limits>>

BugNextAfterKept(t, at) ==
  IF t.specType = "cron" THEN ComputeNextCron(t, at) ELSE t.nextRunAt

NextAfter(t, at) == IF t.specType = "cron" THEN ComputeNextCron(t, at) ELSE 0

DispatchExecute ==
  /\ pc[Ticker] = "execute"
  /\ ExecuteRun(job[Ticker])
  /\ ranAt' = now
  /\ Goto(Ticker, "advance", job[Ticker])
  /\ UNCHANGED <<now, phase, since, due, tickAt, pend, limits>>

(* The clock was read for the cron expression at some moment since the     *)
(* run was recorded, before this transaction began.                        *)
DispatchAdvance ==
  /\ pc[Ticker] = "advance"
  /\ \E at \in ranAt..now :
       tasks' = SetNextRun(tasks, job[Ticker].task.id,
                           NextAfter(job[Ticker].task, at), tickAt)
  /\ Continue(due)
  /\ UNCHANGED <<runs, daily, ids, now, phase, since, pend, limits>>

BugTickFails ==  \* a task whose dispatch failed is moved on all the same
  /\ faults < MaxFaults
  /\ pc[Ticker] # "idle"
  /\ \/ /\ pc[Ticker] = "dispatch"
        /\ \E t \in Earliest(due) :
             /\ tasks' = SetNextRun(tasks, t.id, NextAfter(t, now), tickAt)
             /\ Continue(due \ {t})
     \/ /\ pc[Ticker] # "dispatch"
        /\ Continue(due)
        /\ UNCHANGED tasks
  /\ faults' = faults + 1
  /\ UNCHANGED <<runs, daily, ids, now, phase, since, pend, crashes>>

(* A failed transaction ends the dispatch of its task (or, in scan, Tick); *)
(* the loop logs and continues.                                            *)
TickFails ==
  /\ faults < MaxFaults
  /\ pc[Ticker] # "idle"
  /\ \/ /\ pc[Ticker] = "dispatch"
        /\ \E t \in Earliest(due) : Continue(due \ {t})
     \/ /\ pc[Ticker] # "dispatch"
        /\ Continue(due)
  /\ faults' = faults + 1
  /\ UNCHANGED <<disk, ids, now, phase, since, pend, crashes>>

-----------------------------------------------------------------------------
(* Request goroutines: TriggerNow and RetryRunByID.                        *)

TriggerLoad(h, id) ==
  /\ phase = "serving" /\ pc[h] = "idle"
  /\ tasks[id] # NoRow
  /\ Goto(h, "insert", [task |-> tasks[id], run |-> 0, attempt |-> 0, at |-> now])
  /\ UNCHANGED <<disk, ids, now, phase, since, ticker, pend, limits>>

(* TriggerNow read the clock at some moment since it read the task.        *)
TriggerInsert(h) ==
  /\ pc[h] = "insert"
  /\ \E at \in job[h].at..now :
       InsertRun(h, job[h].task, FirstAttempt(job[h].task, "manual", at, 0))
  /\ UNCHANGED <<now, phase, since, ticker, pend, limits>>

(* The checks of RetryRunByID, in a transaction that is rolled back.       *)
RetryLoad(h, r) ==
  /\ phase = "serving" /\ pc[h] = "idle"
  /\ runs[r] # NoRow
  /\ tasks[runs[r].task] # NoRow
  /\ CanRetry(tasks[runs[r].task], runs[r].attempt)
  /\ Goto(h, "retry", [task |-> tasks[runs[r].task], run |-> r,
                       attempt |-> runs[r].attempt, at |-> runs[r].scheduledAt])
  /\ UNCHANGED <<disk, ids, now, phase, since, ticker, pend, limits>>

BugRetryInsert(h) ==  \* the run is reset and executed again in place
  /\ pc[h] = "retry"
  /\ runs' = UpdateRunStatus(runs, job[h].run, "pending")
  /\ Goto(h, "execute", job[h])
  /\ UNCHANGED <<tasks, daily, ids, now, phase, since, ticker, pend, limits>>

RetryInsert(h) ==
  /\ pc[h] = "retry"
  /\ InsertRun(h, job[h].task, RetryRun(job[h].task.id, job[h].attempt, now))
  /\ UNCHANGED <<now, phase, since, ticker, pend, limits>>

BugRequestExecute(h) ==  \* a failed execution is tried again at once
  /\ pc[h] = "execute"
  /\ ExecuteRun(job[h])
  /\ IF Outcome(job[h].task) = "failed" THEN UNCHANGED <<pc, job>>
     ELSE Goto(h, "idle", NoJob)
  /\ UNCHANGED <<now, phase, since, ticker, pend, limits>>

RequestExecute(h) ==
  /\ pc[h] = "execute"
  /\ ExecuteRun(job[h])
  /\ Goto(h, "idle", NoJob)
  /\ UNCHANGED <<now, phase, since, ticker, pend, limits>>

(* The transaction fails and the request is answered with an error.        *)
RequestFails(h) ==
  /\ faults < MaxFaults
  /\ pc[h] # "idle"
  /\ Goto(h, "idle", NoJob)
  /\ faults' = faults + 1
  /\ UNCHANGED <<disk, ids, now, phase, since, ticker, pend, crashes>>

-----------------------------------------------------------------------------
(* Start-up: main opens the store, recovers, then starts ticker and server.*)

Restart ==
  /\ phase = "down"
  /\ phase' = "recovering" /\ since' = now
  /\ UNCHANGED <<disk, ids, now, pc, job, ticker, pend, limits>>

(* Orphans whose task exists and has retry budget.                         *)
Retriable == {r \in OrphanedRuns(runs) :
                /\ tasks[runs[r].task] # NoRow
                /\ CanRetry(tasks[runs[r].task], runs[r].attempt)}

(* Fresh ids for the retries, given out in scheduled_at order.             *)
RetryIds(R) ==
  {f \in Injection(R, (issued + 1)..(issued + Cardinality(R))) :
     \A a, b \in R : runs[a].scheduledAt < runs[b].scheduledAt => f[a] < f[b]}

(* The transaction of Recover: every running run is orphaned and, budget   *)
(* permitting, retried as a new pending run.  The loop reads the clock for *)
(* each orphan.                                                            *)
RecoverOrphans ==
  /\ phase = "recovering"
  /\ issued + Cardinality(Retriable) <= MaxRuns
  /\ \E f \in RetryIds(Retriable), at \in [Retriable -> Readings] :
       LET NewRow(o) == RetryRun(runs[o].task, runs[o].attempt, at[o]) IN
       /\ \A a, b \in Retriable : f[a] < f[b] => at[a] <= at[b]
       /\ runs' = [r \in RunId |->
                     IF r \in OrphanedRuns(runs)
                     THEN [runs[r] EXCEPT !.status = "orphaned"]
                     ELSE IF \E o \in Retriable : f[o] = r
                     THEN NewRow(CHOOSE o \in Retriable : f[o] = r)
                     ELSE runs[r]]
       /\ pend' = {[task |-> tasks[runs[o].task], run |-> f[o],
                    attempt |-> runs[o].attempt + 1, at |-> at[o]] : o \in Retriable}
  /\ issued' = issued + Cardinality(Retriable)
  /\ phase' = "retrying"
  /\ UNCHANGED <<tasks, daily, born, now, since, pc, job, ticker, limits>>

NextRetry == {j \in pend : \A k \in pend : j.run <= k.run}

BugRecoverExecute ==  \* the retry stays on the list
  /\ phase = "retrying"
  /\ \E j \in NextRetry : ExecuteRun(j)
  /\ UNCHANGED <<now, phase, since, pc, job, ticker, pend, limits>>

RecoverExecute ==
  /\ phase = "retrying"
  /\ \E j \in NextRetry : ExecuteRun(j) /\ pend' = pend \ {j}
  /\ UNCHANGED <<now, phase, since, pc, job, ticker, limits>>

Start ==
  /\ phase = "retrying" /\ pend = {}
  /\ phase' = "serving" /\ since' = now
  /\ UNCHANGED <<disk, ids, now, pc, job, ticker, pend, limits>>

(* A failure in Recover's transaction is fatal; one in executing a retry   *)
(* is ignored.                                                             *)
RecoverFails ==
  /\ faults < MaxFaults
  /\ \/ phase = "recovering" /\ phase' = "down" /\ since' = 0 /\ UNCHANGED pend
     \/ /\ phase = "retrying" /\ UNCHANGED <<phase, since>>
        /\ \E j \in NextRetry : pend' = pend \ {j}
  /\ faults' = faults + 1
  /\ UNCHANGED <<disk, ids, now, pc, job, ticker, crashes>>

(* The process dies, or main returns while goroutines are at work: Stop    *)
(* does not wait for a Tick.  An open transaction is lost, the tables stay.*)
Crash ==
  /\ crashes < MaxCrashes
  /\ phase # "down"
  /\ phase' = "down" /\ since' = 0
  /\ pc'  = [p \in Procs |-> "idle"]
  /\ job' = [p \in Procs |-> NoJob]
  /\ due' = {} /\ tickAt' = 0 /\ ranAt' = 0 /\ pend' = {}
  /\ crashes' = crashes + 1
  /\ UNCHANGED <<disk, ids, now, faults>>

ClockTick ==
  /\ now < MaxTime
  /\ now' = now + 1
  /\ UNCHANGED <<disk, ids, phase, since, pc, job, ticker, pend, limits>>
=============================================================================
