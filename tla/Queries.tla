------------------------------ MODULE Queries ------------------------------
(***************************************************************************)
(* What clients read: the lists of tasks and runs, the statistics and the  *)
(* report, as operators on the tables of Engine.  Each handler is one      *)
(* transaction that changes nothing, so it answers from one state.  The    *)
(* parameter tag of the list of tasks is the subject of module Tags.       *)
(***************************************************************************)
EXTENDS Engine, Listing, FiniteSetsExt, SequencesExt

NotGiven == ""  \* a query parameter that is not given

TaskRows == {tasks[id] : id \in {i \in TaskId : tasks[i] # NoRow}}
RunIds   == {r \in RunId : runs[r] # NoRow}

BugStatusClause(status, t) ==  \* a disabled task is still active
  CASE status = "active"   -> ~t.paused
    [] status = "paused"   -> t.paused
    [] status = "disabled" -> ~t.enabled
    [] OTHER -> TRUE

(* The clause ListTasks adds for the parameter status.                     *)
StatusClause(status, t) ==
  CASE status = "active"   -> t.enabled /\ ~t.paused
    [] status = "paused"   -> t.paused
    [] status = "disabled" -> ~t.enabled
    [] OTHER -> TRUE

(* The parameters enabled and paused: {} when they are not given.          *)
ListTasks(status, enabled, paused) ==
  {t \in TaskRows : /\ StatusClause(status, t)
                    /\ enabled # {} => t.enabled \in enabled
                    /\ paused # {} => t.paused \in paused}

(* Task.Status, the status a task answers with.                            *)
Status(t) == IF ~t.enabled THEN "disabled"
             ELSE IF t.paused THEN "paused" ELSE "active"

-----------------------------------------------------------------------------
(* The rows of the filter, newest first; ids are random, and which of two  *)
(* runs of one time comes first is the same in every query.                *)
Newer(r, s) == \/ runs[r].scheduledAt > runs[s].scheduledAt
               \/ runs[r].scheduledAt = runs[s].scheduledAt /\ r > s

RunsNewestFirst(task, status) ==
  Listed({r \in RunIds : /\ task # NotGiven => runs[r].task = task
                         /\ status # NotGiven => runs[r].status = status}, Newer)

Cut(list, limit, offset) ==
  SubSeq(list, offset + 1, Min({offset + limit, Len(list)}))

BugListRuns(task, status, limit, offset) ==  \* the offset bound twice
  LET list == RunsNewestFirst(task, status)
  IN  IF limit <= 0 THEN list
      ELSE IF offset > 0 THEN Cut(list, offset, offset)
      ELSE Cut(list, limit, 0)

(* With an offset the two parameters are bound in the other order: LIMIT   *)
(* gets the offset and OFFSET the limit.                                   *)
ListRuns(task, status, limit, offset) ==
  LET list == RunsNewestFirst(task, status)
  IN  IF limit <= 0 THEN list
      ELSE IF offset > 0 THEN Cut(list, offset, limit)
      ELSE Cut(list, limit, 0)

-----------------------------------------------------------------------------
BugOverallStats ==  \* orphans are no failures
  [tasksTotal    |-> Cardinality(TaskRows),
   tasksActive   |-> Quantify(TaskRows, LAMBDA t : t.enabled /\ ~t.paused),
   tasksPaused   |-> Quantify(TaskRows, LAMBDA t : t.paused),
   tasksDisabled |-> Quantify(TaskRows, LAMBDA t : ~t.enabled),
   runsTotal     |-> Cardinality(RunIds),
   runsSucceeded |-> Quantify(RunIds, LAMBDA r : runs[r].status = "succeeded"),
   runsFailed    |-> Quantify(RunIds, LAMBDA r : runs[r].status = "failed"),
   runsOrphaned  |-> Quantify(RunIds, LAMBDA r : runs[r].status = "orphaned"),
   runsRunning   |-> Quantify(RunIds, LAMBDA r : runs[r].status = "running")]

OverallStats ==
  [tasksTotal    |-> Cardinality(TaskRows),
   tasksActive   |-> Quantify(TaskRows, LAMBDA t : t.enabled /\ ~t.paused),
   tasksPaused   |-> Quantify(TaskRows, LAMBDA t : t.paused),
   tasksDisabled |-> Quantify(TaskRows, LAMBDA t : ~t.enabled),
   runsTotal     |-> Cardinality(RunIds),
   runsSucceeded |-> Quantify(RunIds, LAMBDA r : runs[r].status = "succeeded"),
   runsFailed    |-> Quantify(RunIds, LAMBDA r :
                             runs[r].status \in {"failed", "orphaned"}),
   runsOrphaned  |-> Quantify(RunIds, LAMBDA r : runs[r].status = "orphaned"),
   runsRunning   |-> Quantify(RunIds, LAMBDA r : runs[r].status = "running")]

(* Per-day rows of the days from .. to; a day without a row counts zero.   *)
DailyStats(from, to) == [d \in {e \in Day : from <= e /\ e <= to} |-> daily[d]]

(* The clock is read after the transaction, here in the same step: a later *)
(* reading is that of a later step without one.                            *)
Report ==
  LET listed == ListTasks(NotGiven, {}, {})
  IN  [total   |-> Cardinality(listed),
       enabled |-> Quantify(listed, LAMBDA t : t.enabled),
       paused  |-> Quantify(listed, LAMBDA t : t.paused),
       due     |-> Quantify(listed, LAMBDA t : /\ t.nextRunAt > 0 /\ t.nextRunAt <= now
                                            /\ t.enabled /\ ~t.paused),
       durable |-> OverallStats]

-----------------------------------------------------------------------------
(* The copies of one rule in SQL and in Go agree on every table: a task    *)
(* counts as active, disabled or due in the lists, the statistics, the     *)
(* report, the scan of the ticker and its own answer alike; paused means   *)
(* the flag everywhere but in a task's answer, where disabled comes first. *)
ReadersAgree ==
  LET Having(status) == {t \in TaskRows : Status(t) = status}
      st == OverallStats
  IN  /\ ListTasks("active", {}, {}) = Having("active")
      /\ ListTasks("active", {}, {}) = ListTasks(NotGiven, {TRUE}, {FALSE})
      /\ ListTasks("disabled", {}, {}) = Having("disabled")
      /\ ListTasks("paused", {}, {}) \ Having("paused")
           = ListTasks("disabled", {}, {TRUE})
      /\ st.tasksActive = Cardinality(Having("active"))
      /\ st.tasksActive + st.tasksPaused + st.tasksDisabled
           = st.tasksTotal + Cardinality(ListTasks("paused", {FALSE}, {}))
      /\ DueTasks(tasks, now) = {t \in TaskRows : IsDue(t, now)}
      /\ Report.due = Cardinality(DueTasks(tasks, now))

(* The two statistics a client can read agree: the days add up to the      *)
(* totals, except that an orphan counts as failed only in the totals; a    *)
(* run that was deleted stays counted in its day.                          *)
StatisticsAgree ==
  LET days == DailyStats(Min(Day), Max(Day))
      Total(column(_)) == FoldSet(LAMBDA d, acc : acc + column(days[d]), 0,
                                  DOMAIN days)
      st == OverallStats
      pending == Len(ListRuns(NotGiven, "pending", 0, 0))
      deleted == issued - Cardinality(RunIds)
  IN  /\ st.runsTotal = st.runsSucceeded + st.runsFailed + st.runsRunning + pending
      /\ Total(LAMBDA d : d.succeeded) \in st.runsSucceeded..(st.runsSucceeded + deleted)
      /\ Total(LAMBDA d : d.failed) \in (st.runsFailed - st.runsOrphaned)
                                          ..(st.runsFailed - st.runsOrphaned + deleted)

(* Although limit and offset are exchanged, a client that asks for page    *)
(* after page of constant length, up to the number of runs, has seen every *)
(* run of its filter, each first in its place in the order.                *)
PagesCoverRuns ==
  \A task \in TaskId \cup {NotGiven}, status \in {NotGiven, "succeeded"}, limit \in 1..3 :
    LET list == RunsNewestFirst(task, status)
        pages == [k \in 0..(Len(list) \div limit) |->
                    ListRuns(task, status, limit, limit * k)]
    IN  /\ UNION {Range(pages[k]) : k \in DOMAIN pages} = Range(list)
        /\ \A k \in DOMAIN pages :
             UNION {Range(pages[j]) : j \in 0..k} =
               {list[i] : i \in 1..Min({Len(list), limit * (k + 1)})}
=============================================================================
