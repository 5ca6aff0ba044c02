------------------------------- MODULE Store -------------------------------
(***************************************************************************)
(* The SQL statements of package store as operators on tables.  A table is *)
(* a function from keys to rows, NoRow where the key has none; every       *)
(* operator returns the table after the statement.  ts is tasks, rs is     *)
(* runs, sd is stats_daily.                                                *)
(***************************************************************************)
EXTENDS Model

(* UPDATE ... WHERE id=? changes nothing when there is no such row.        *)
Amend(tbl, k, row) == IF tbl[k] = NoRow THEN tbl ELSE [tbl EXCEPT ![k] = row]

CreateTask(ts, t) == [ts EXCEPT ![t.id] = t]

UpdateTask(ts, t) == Amend(ts, t.id, t)

DeleteTask(ts, id) == [ts EXCEPT ![id] = NoRow]

(* The first statement of Store.DeleteTask: the manual cascade to runs.    *)
DeleteRunsOf(rs, id) ==
  [r \in DOMAIN rs |->
     IF rs[r] # NoRow /\ rs[r].task = id THEN NoRow ELSE rs[r]]

BugDueTasks(ts, nowMs) ==  \* a slot that was missed is never due again
  {t \in {ts[k] : k \in DOMAIN ts} :
     t # NoRow /\ t.enabled /\ ~t.paused /\ t.nextRunAt = nowMs}

DueTasks(ts, nowMs) ==
  {ts[k] : k \in {i \in DOMAIN ts : /\ ts[i] # NoRow
                                    /\ ts[i].enabled /\ ~ts[i].paused
                                    /\ ts[i].nextRunAt > 0
                                    /\ ts[i].nextRunAt <= nowMs}}

SetEnabled(ts, id, b) == Amend(ts, id, [ts[id] EXCEPT !.enabled = b])

SetPaused(ts, id, b) == Amend(ts, id, [ts[id] EXCEPT !.paused = b])

BugSetNextRun(ts, id, next, last) ==  \* the two columns swapped
  Amend(ts, id, [ts[id] EXCEPT !.nextRunAt = last, !.lastRunAt = next])

SetNextRun(ts, id, next, last) ==
  Amend(ts, id, [ts[id] EXCEPT !.nextRunAt = next, !.lastRunAt = last])

SetLastRun(ts, id, last) == Amend(ts, id, [ts[id] EXCEPT !.lastRunAt = last])

-----------------------------------------------------------------------------
CreateRun(rs, id, run) == [rs EXCEPT ![id] = run]

UpdateRunStatus(rs, id, status) ==
  Amend(rs, id, [rs[id] EXCEPT !.status = status])

(* The row RetryRun inserts for an original of the given task and attempt. *)
RetryRun(task, attempt, at) ==
  [task |-> task, attempt |-> attempt + 1, status |-> "pending",
   scheduledAt |-> at, triggeredBy |-> "retry", slot |-> 0]

DeleteRun(rs, id) == [rs EXCEPT ![id] = NoRow]

BugOrphanedScheduled(rs) ==
  {r \in DOMAIN rs : /\ rs[r] # NoRow /\ rs[r].status = "running"
                     /\ rs[r].triggeredBy = "schedule"}

BugOrphanedUnsuccessful(rs) ==
  {r \in DOMAIN rs : rs[r] # NoRow /\ rs[r].status # "succeeded"}

OrphanedRuns(rs) == {r \in DOMAIN rs : rs[r] # NoRow /\ rs[r].status = "running"}

-----------------------------------------------------------------------------
NoStats == [succeeded |-> 0, failed |-> 0, running |-> 0]

StatColumn(status) ==
  CASE status = "succeeded"            -> "succeeded"
    [] status \in {"failed", "orphaned"} -> "failed"
    [] status = "running"              -> "running"

BugRecordRunOutcome(sd, day, status) ==  \* the first insert seeds 0
  IF status = "pending" \/ sd[day] = NoStats THEN sd
  ELSE [sd EXCEPT ![day][StatColumn(status)] = @ + 1]

RecordRunOutcome(sd, day, status) ==
  IF status = "pending" THEN sd
  ELSE [sd EXCEPT ![day][StatColumn(status)] = @ + 1]
=============================================================================
