------------------------------- MODULE Model -------------------------------
(***************************************************************************)
(* The domain of the task scheduler: rows of the tables tasks and runs,    *)
(* the request body clients send, and the pure decisions of the packages   *)
(* model and scheduler (validation, due test, retry budget, outcome of an  *)
(* execution).  Times are abstract clock readings; 0 stands for "none".    *)
(***************************************************************************)
EXTENDS Integers, FiniteSets

CONSTANTS
  TaskId,     \* identifiers store.NewID may give to tasks
  MaxRuns,    \* bound: runs created in a behaviour (run ids are 1..MaxRuns)
  MaxTime,    \* bound: last clock reading
  DayLength,  \* clock readings per calendar day
  CronExpr,   \* cron expressions cron.Parse accepts
  CronNext,   \* [CronExpr -> [Time -> next match, or 0 when there is none]]
  NoRow       \* the key has no row in its table

RunId == 1..MaxRuns
Time  == 1..MaxTime

ASSUME BoundsAssumption ==
  /\ MaxRuns \in Nat
  /\ MaxTime \in Nat \ {0}
  /\ DayLength \in Nat \ {0}

(* Schedule.Next: strictly later than its argument, or no match at all.    *)
ASSUME CronAssumption ==
  /\ CronNext \in [CronExpr -> [Time -> Nat]]
  /\ \A e \in CronExpr, t \in Time : CronNext[e][t] = 0 \/ CronNext[e][t] > t

NoExpr == ""  \* an empty or malformed cron_expr, which cron.Parse refuses
ASSUME NoExprAssumption == NoExpr \notin CronExpr

SpecTypes == {"cron", "once", "delayed"}
Kinds     == {"noop", "fail"}   \* echo and http succeed just as noop does
Triggers  == {"schedule", "manual", "retry"}
Live      == {"pending", "running"}
Terminal  == {"succeeded", "failed", "orphaned"}

Task == [id : TaskId, kind : Kinds, specType : SpecTypes,
         cronExpr : CronExpr \cup {NoExpr}, delay : Int, enabled : BOOLEAN,
         paused : BOOLEAN, maxRetries : Nat, nextRunAt : Int, lastRunAt : Nat]

(* slot is a history variable kept with the row: the next_run_at a         *)
(* scheduled run was dispatched for (0 for manual and retry runs).         *)
Run == [task : TaskId, attempt : Nat \ {0}, status : Live \cup Terminal,
        scheduledAt : Time, triggeredBy : Triggers, slot : Int]

ASSUME NoRowAssumption == NoRow \notin Task \cup Run

(* The JSON body of create and update.  "" and "nil" mean not provided.    *)
TaskInput == [kind : Kinds \cup {""}, specType : SpecTypes \cup {""},
              cronExpr : CronExpr \cup {NoExpr}, delay : Int,
              enabled : {"nil", "true", "false"},
              paused : {"nil", "true", "false"},
              maxRetries : Int, nextRunAt : Int]

-----------------------------------------------------------------------------
(* Names that begin with Bug are slips a change to the code could make;    *)
(* each follows the definition's parameters and stands before it.          *)
BugValidate(t) ==  \* forgets max_retries
  /\ t.kind \in Kinds
  /\ t.specType \in SpecTypes
  /\ t.specType = "cron" => t.cronExpr # NoExpr
  /\ t.specType = "delayed" => t.delay > 0

Validate(t) ==
  /\ t.kind \in Kinds
  /\ t.specType \in SpecTypes
  /\ t.specType = "cron" => t.cronExpr # NoExpr
  /\ t.specType = "delayed" => t.delay > 0
  /\ t.maxRetries >= 0

(* What the table tasks holds: rows are written only after validation.     *)
ValidTask == {t \in Task : Validate(t)}

IsDue(t, nowMs) ==
  /\ t.enabled /\ ~t.paused
  /\ t.nextRunAt > 0 /\ t.nextRunAt <= nowMs

(* 0 when Schedule.Next finds no match: the callers test err for that.     *)
ComputeNextCron(t, from) == CronNext[t.cronExpr][from]

BugCanRetry(t, attempt) == attempt <= t.maxRetries + 1

CanRetry(t, attempt) == attempt <= t.maxRetries

(* DefaultExecutor.Execute: only the kind of the task decides.             *)
Outcome(t) == IF t.kind = "fail" THEN "failed" ELSE "succeeded"

DayOf(at) == at \div DayLength
Day == {DayOf(t) : t \in Time}
=============================================================================
