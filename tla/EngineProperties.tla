-------------------------- MODULE EngineProperties --------------------------
(***************************************************************************)
(* What the engine guarantees, and (last section) what documents and       *)
(* comments of the repository say of it and the code does not keep.        *)
(***************************************************************************)
EXTENDS Engine

Rows(S) == {r \in RunId : runs[r] # NoRow /\ runs[r].status \in S}

NothingDeleted == \A r \in 1..issued : runs[r] # NoRow

(* The runs a goroutine, or main while it recovers, is about to execute.   *)
Executing == {p \in Procs : pc[p] = "execute"}
Owed      == {job[p].run : p \in Executing} \cup {j.run : j \in pend}

-----------------------------------------------------------------------------
TablesOK ==
  /\ tasks \in [TaskId -> ValidTask \cup {NoRow}]
  /\ \A id \in TaskId : tasks[id] # NoRow => tasks[id].id = id
  /\ runs \in [RunId -> Run \cup {NoRow}]
  /\ daily \in [Day -> [succeeded : Nat, failed : Nat, running : Nat]]

IdsOK == born \in SUBSET TaskId /\ issued \in 0..MaxRuns

PhaseOK ==
  /\ phase \in {"down", "recovering", "retrying", "serving"}
  /\ since \in 0..now
  /\ phase # "down" => since # 0
  /\ pend \in SUBSET Job

GoroutinesOK ==
  /\ pc \in [Procs -> {"idle", "scan", "dispatch", "insert", "retry",
                       "execute", "advance"}]
  /\ pc[Ticker] \notin {"insert", "retry"}
  /\ \A h \in Handlers : pc[h] \notin {"scan", "dispatch", "advance"}
  /\ job \in [Procs -> Job \cup {NoJob}]
  /\ \A p \in Procs : job[p] # NoJob <=>
                        pc[p] \in {"insert", "retry", "execute", "advance"}

TickerOK ==
  /\ due \in SUBSET ValidTask
  /\ tickAt \in 0..now
  /\ pc[Ticker] # "idle" => tickAt # 0
  /\ ranAt \in 0..now
  /\ pc[Ticker] = "advance" => ranAt # 0

LimitsOK ==
  /\ now \in Time
  /\ crashes \in 0..MaxCrashes /\ faults \in 0..MaxFaults
  /\ requests \in 0..MaxRequests

(* Every variable holds values of its kind; in particular the table tasks  *)
(* holds valid rows only, each under its own id, and a goroutine carries   *)
(* the rows it read exactly while it stands between its transactions.      *)
TypeOK == TablesOK /\ IdsOK /\ PhaseOK /\ GoroutinesOK /\ TickerOK /\ LimitsOK

(* A run that ended keeps its row as it is until it is deleted: no second  *)
(* execution, no recovery and no retry ever rewrites an outcome that was   *)
(* reported, however goroutines, crashes and failures interleave.          *)
TerminalIsFinal ==
  [][\A r \in Rows(Terminal) : runs'[r] = runs[r] \/ runs'[r] = NoRow]_vars

Hands ==
  /\ \A p, q \in Executing : job[p].run = job[q].run => p = q
  /\ \A j, k \in pend : j.run = k.run => j = k
  /\ \A r \in Owed : r \in 1..issued /\ r \notin Rows(Terminal)
  /\ \A r \in RunId : r > issued => runs[r] = NoRow

Stages ==
  /\ phase # "serving" => \A p \in Procs : pc[p] = "idle"
  /\ phase # "retrying" => pend = {}
  /\ crashes = 0 /\ faults = 0 /\ phase \in {"down", "recovering"} => issued = 0

(* Every run is in at most one pair of hands, goroutines and the recovery  *)
(* of main together, and nobody holds a run that ended (Hands).  It rests  *)
(* on the life of the process (Stages): requests and ticks exist only      *)
(* while it serves, retries of recovery only before, and the first start   *)
(* finds no runs.                                                          *)
Custody == Hands /\ Stages

(* While the process serves, a run recorded as running (and, when no crash *)
(* abandoned it, one recorded as pending) is in somebody's hands, unless a *)
(* failed transaction dropped it: recovery leaves none behind.             *)
LiveRunHasOwner ==
  faults = 0 /\ phase \in {"retrying", "serving"} =>
    /\ Rows({"running"}) \subseteq Owed
    /\ crashes = 0 => Rows({"pending"}) \subseteq Owed

(* The day counters never fall behind the rows: every outcome on record    *)
(* was counted under the day its run was scheduled, in the same            *)
(* transaction, and while no run was deleted nothing else was counted.     *)
CountersMatchRows ==
  \A d \in Day :
    LET Recorded(status) == Cardinality({r \in Rows({status}) :
                                           DayOf(runs[r].scheduledAt) = d})
    IN  /\ daily[d].succeeded >= Recorded("succeeded")
        /\ daily[d].failed >= Recorded("failed")
        /\ NothingDeleted =>
             /\ daily[d].succeeded = Recorded("succeeded")
             /\ daily[d].failed = Recorded("failed")

(* A task's last_run_at is the scheduled time of a run of that task that   *)
(* was executed, and a task with an executed run has one: the two writers  *)
(* (SetLastRun, SetNextRun) and the concurrent updates that rewrite the    *)
(* whole row never lose or invent it (as long as no run was deleted).      *)
LastRunIsARun ==
  NothingDeleted =>
    \A id \in TaskId : tasks[id] # NoRow =>
      LET Ran == {runs[r].scheduledAt : r \in
                    {s \in Rows({"succeeded", "failed"}) : runs[s].task = id}}
      IN  IF Ran = {} THEN tasks[id].lastRunAt = 0
          ELSE tasks[id].lastRunAt \in Ran

(* A next_run_at is dispatched once; only a crash or a failed transaction  *)
(* between the run and SetNextRun makes the next tick dispatch it again,   *)
(* and each accounts for at most one more run.                             *)
OneRunPerSlot ==
  "update" \notin Ops =>
    \A r \in RunId : runs[r] # NoRow /\ runs[r].triggeredBy = "schedule" =>
      Cardinality({s \in RunId : /\ runs[s] # NoRow
                                 /\ runs[s].triggeredBy = "schedule"
                                 /\ runs[s].task = runs[r].task
                                 /\ runs[s].slot = runs[r].slot})
        <= 1 + crashes + faults

(* No slot is skipped: a next_run_at moves only when a scheduled run of    *)
(* that very slot has succeeded or failed, whatever failed or crashed      *)
(* before (as long as clients neither edit the task nor delete the run).   *)
SlotIsRunBeforeItMoves ==
  [][("update" \notin Ops /\ NothingDeleted) =>
       \A id \in TaskId :
         tasks[id] # NoRow /\ tasks'[id] # NoRow
           /\ tasks'[id].nextRunAt # tasks[id].nextRunAt
         => \E r \in Rows({"succeeded", "failed"}) :
              /\ runs[r].task = id /\ runs[r].triggeredBy = "schedule"
              /\ runs[r].slot = tasks[id].nextRunAt]_vars

(* No chain of retries, by request or by recovery, is longer than the      *)
(* budget: the attempt number stops at max_retries + 1.                    *)
AttemptWithinBudget ==
  "update" \notin Ops =>
    \A r \in RunId : runs[r] # NoRow /\ tasks[runs[r].task] # NoRow =>
      runs[r].attempt <= tasks[runs[r].task].maxRetries + 1

(* A cron task stays armed, through ticks, failures, crashes and deletions *)
(* of others, on the match that is next after a moment that has come: it   *)
(* never leaps over a match still ahead (as long as the expression has a   *)
(* next match).                                                            *)
CronStaysArmed ==
  "update" \notin Ops =>
    \A id \in TaskId : tasks[id] # NoRow /\ tasks[id].specType = "cron" =>
      LET matches == CronNext[tasks[id].cronExpr] IN
      0 \notin {matches[t] : t \in Time} =>
        tasks[id].nextRunAt \in {matches[t] : t \in 1..now}

-----------------------------------------------------------------------------
(* A due task does not stay due: the ticker reaches it, runs it and moves  *)
(* its next_run_at, whatever happens to the tasks before it in the scan.   *)
DueTaskIsServed ==
  \A id \in TaskId :
    (tasks[id] # NoRow /\ IsDue(tasks[id], now))
      ~> (tasks[id] = NoRow \/ ~IsDue(tasks[id], now))

(* A running run ends (or is deleted): executed by its goroutine, or       *)
(* orphaned by the recovery of the next start; only a failed transaction   *)
(* may leave one running until the process is restarted.                   *)
RunningRunEnds ==
  \A r \in RunId :
    (r \in Rows({"running"})) ~> (r \notin Rows({"running"}) \/ faults > 0)

-----------------------------------------------------------------------------
(* The engine keeps the ledger of RunLedger.                               *)
Life ==
  [r \in RunId |-> IF r > issued THEN "none"
                   ELSE IF runs[r] = NoRow THEN "gone" ELSE runs[r].status]

Tally == [d \in Day |-> daily[d].succeeded + daily[d].failed]

Ledger == INSTANCE RunLedger WITH
            life <- Life, owed <- Owed,
            tally <- Tally

(* Every step of the engine is a step of the ledger or none.               *)
ImplementsLedger == Ledger!LedgerSpec

-----------------------------------------------------------------------------
(* Said of the program, and not kept.                                      *)

(* scheduler.go, Recover: "if the task's retry budget allows, a fresh      *)
(* attempt is re-enqueued and executed".  A crash leaves a run running, the *)
(* recovery after it commits the retry, and a second crash abandons that.  *)
PendingRunIsExecuted ==
  \A r \in RunId : (r \in Rows({"pending"})) ~> (r \notin Rows({"pending"}))

(* store.go: writers (the scheduler dispatching while a run is being       *)
(* retried) serialize and exactly one transition wins; BENZHI_README.md:   *)
(* retries stay within the max_retries budget.                             *)
RetriesWithinBudget ==
  "update" \notin Ops =>
    \A id \in TaskId : tasks[id] # NoRow =>
      LET RunsOf(S) == {r \in RunId : /\ runs[r] # NoRow /\ runs[r].task = id
                                      /\ runs[r].triggeredBy \in S}
      IN  Cardinality(RunsOf({"retry"})) <=
            tasks[id].maxRetries * Cardinality(RunsOf({"schedule", "manual"}))

(* scheduler.go: "It is safe for concurrent use": the end of a dispatch    *)
(* replaces the next_run_at it dispatched, not one a client set since.     *)
RescheduleIsKept ==
  [][pc[Ticker] = "advance" /\ pc'[Ticker] # "advance" =>
       \A id \in TaskId :
         tasks[id] # NoRow /\ tasks'[id] # NoRow =>
           \/ tasks'[id].nextRunAt = tasks[id].nextRunAt
           \/ tasks[id].nextRunAt = job[Ticker].task.nextRunAt]_vars

(* BENZHI_README.md: a cron task advances its next_run_at automatically.   *)
CronIsArmed ==
  \A id \in TaskId : tasks[id] # NoRow /\ tasks[id].specType = "cron" =>
    tasks[id].nextRunAt > 0
=============================================================================
