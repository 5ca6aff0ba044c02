---------------------------- MODULE QueriesProofs ----------------------------
(***************************************************************************)
(* What clients read, on every reachable state of the engine.              *)
(***************************************************************************)
EXTENDS Queries, HistoryProofs, DataLemmas

-----------------------------------------------------------------------------
(* Identifiers may come from an infinite set; those given out are finitely *)
(* many, so the tables have finitely many rows.                            *)
LEMMA OneTaskAtATime == [Next]_vars => born' = born \/ \E id \in TaskId : born' = born \cup {id}
BY DEF Next, vars, ids, Request, Tick, Serve, Boot, Environment,
   handleCreateTask, handleUpdateTask, handleDeleteTask, setTaskEnabled,
   setTaskPaused, handleDeleteRun, handleTriggerTask, TriggerLoad,
   handleRetryRun, RetryLoad, TickBegin, TickScan, DispatchInsert,
   DispatchExecute, DispatchAdvance, TriggerInsert, RetryInsert, InsertRun,
   RequestExecute, ExecuteRun, Restart, RecoverOrphans, RecoverExecute, Start,
   Crash, TickFails, RequestFails, RecoverFails, ClockTick

FewTasks == IsFiniteSet(born)

LEMMA TasksStayFew == Spec => []FewTasks
<1>1. Init => FewTasks
  BY FS_EmptySet DEF Init, FewTasks
<1>2. FewTasks /\ [Next]_vars => FewTasks'
  <2> SUFFICES ASSUME FewTasks, [Next]_vars PROVE FewTasks'
    OBVIOUS
  <2> QED
    BY OneTaskAtATime, FS_AddElement DEF FewTasks
<1> QED
  BY <1>1, <1>2, PTL DEF Spec

LEMMA RowsAreFew ==
  ASSUME TypeOK, Known, FewTasks
  PROVE  IsFiniteSet(TaskRows) /\ IsFiniteSet(RunIds)
<1> DEFINE Stored == {i \in TaskId : tasks[i] # NoRow}
           f == [i \in Stored |-> tasks[i]]
<1>1. Stored \in SUBSET born
  BY DEF Known
<1>2. IsFiniteSet(Stored)
  BY <1>1, FS_Subset DEF FewTasks
<1>3. f \in Surjection(Stored, TaskRows)
  BY DEF Surjection, TaskRows
<1>4. IsFiniteSet(TaskRows)
  <2> HIDE DEF Stored, f
  <2> QED
    BY <1>2, <1>3, FS_Surjection
<1>5. IsFiniteSet(RunIds)
  <2>1. IsFiniteSet(RunId) /\ RunIds \in SUBSET RunId
    BY FS_Interval, BoundsAssumption DEF RunId, RunIds
  <2> QED
    BY <2>1, FS_Subset
<1> QED
  BY <1>4, <1>5

LEMMA RowsAreTyped ==
  ASSUME TypeOK, NEW t \in TaskRows
  PROVE  /\ t.enabled \in BOOLEAN /\ t.paused \in BOOLEAN
         /\ t.nextRunAt \in Int /\ t # NoRow
BY DEF TypeOK, TablesOK, TaskRows, ValidTask, Task

(* A subset of the rows and its number.                                    *)
LEMMA CountedRows ==
  ASSUME NEW S, IsFiniteSet(S), NEW T \in SUBSET S
  PROVE  IsFiniteSet(T) /\ Cardinality(T) \in Nat /\ Cardinality(T) <= Cardinality(S)
BY FS_Subset, FS_CardinalityType

-----------------------------------------------------------------------------
(* One rule, told by the list of tasks, by the statistics, by the report,  *)
(* by the scan of the ticker and by a task's own answer.                   *)
LEMMA ListsAgree ==
  ASSUME TypeOK
  PROVE  LET Having(status) == {t \in TaskRows : Status(t) = status}
         IN  /\ ListTasks("active", {}, {}) = Having("active")
             /\ ListTasks("active", {}, {}) = ListTasks(NotGiven, {TRUE}, {FALSE})
             /\ ListTasks("disabled", {}, {}) = Having("disabled")
             /\ ListTasks("paused", {}, {}) \ Having("paused")
                  = ListTasks("disabled", {}, {TRUE})
<1>1. \A t \in TaskRows : t.enabled \in BOOLEAN /\ t.paused \in BOOLEAN
  BY RowsAreTyped
<1>2. \A t \in TaskRows : /\ StatusClause("active", t) <=> t.enabled /\ ~t.paused
                          /\ StatusClause("paused", t) <=> t.paused
                          /\ StatusClause("disabled", t) <=> ~t.enabled
                          /\ StatusClause(NotGiven, t)
  BY <1>1 DEF StatusClause, NotGiven
<1>3. \A t \in TaskRows : /\ Status(t) = "active" <=> t.enabled /\ ~t.paused
                          /\ Status(t) = "disabled" <=> ~t.enabled
                          /\ Status(t) = "paused" <=> t.enabled /\ t.paused
  BY <1>1 DEF Status
<1>4. ListTasks("active", {}, {}) = {t \in TaskRows : Status(t) = "active"}
  BY <1>2, <1>3 DEF ListTasks
<1>5. ListTasks("active", {}, {}) = ListTasks(NotGiven, {TRUE}, {FALSE})
  BY <1>1, <1>2 DEF ListTasks
<1>6. ListTasks("disabled", {}, {}) = {t \in TaskRows : Status(t) = "disabled"}
  BY <1>2, <1>3 DEF ListTasks
<1>7. ListTasks("paused", {}, {}) \ {t \in TaskRows : Status(t) = "paused"}
        = ListTasks("disabled", {}, {TRUE})
  BY <1>1, <1>2, <1>3 DEF ListTasks
<1> QED
  BY <1>4, <1>5, <1>6, <1>7

LEMMA DueAgrees ==
  ASSUME TypeOK
  PROVE  /\ DueTasks(tasks, now) = {t \in TaskRows : IsDue(t, now)}
         /\ DueTasks(tasks, now) =
              {t \in TaskRows : /\ t.nextRunAt > 0 /\ t.nextRunAt <= now
                                /\ t.enabled /\ ~t.paused}
<1>1. DOMAIN tasks = TaskId
  BY DEF TypeOK, TablesOK
<1> QED
  BY <1>1 DEF DueTasks, TaskRows, IsDue

LEMMA StatisticsPartition ==
  ASSUME TypeOK, IsFiniteSet(TaskRows)
  PROVE  LET st == OverallStats IN
         /\ st.tasksActive = Cardinality({t \in TaskRows : Status(t) = "active"})
         /\ st.tasksActive + st.tasksPaused + st.tasksDisabled
              = st.tasksTotal + Cardinality(ListTasks("paused", {FALSE}, {}))
<1> DEFINE Active   == {t \in TaskRows : t.enabled /\ ~t.paused}
           Paused   == {t \in TaskRows : t.paused}
           Disabled == {t \in TaskRows : ~t.enabled}
<1>1. \A t \in TaskRows : t.enabled \in BOOLEAN /\ t.paused \in BOOLEAN
  BY RowsAreTyped
<1>2. Active = {t \in TaskRows : Status(t) = "active"}
  BY <1>1 DEF Status
<1>3. Paused \cap Disabled = ListTasks("paused", {FALSE}, {})
  BY <1>1 DEF ListTasks, StatusClause
<1>4. Active \cap (Paused \cup Disabled) = {} /\ Active \cup (Paused \cup Disabled) = TaskRows
  BY <1>1
<1>5. /\ Active \in SUBSET TaskRows /\ Paused \in SUBSET TaskRows
      /\ Disabled \in SUBSET TaskRows /\ Paused \cap Disabled \in SUBSET TaskRows
      /\ Paused \cup Disabled \in SUBSET TaskRows
  OBVIOUS
<1> DEFINE st == OverallStats
<1>6. /\ st.tasksTotal = Cardinality(TaskRows) /\ st.tasksActive = Cardinality(Active)
      /\ st.tasksPaused = Cardinality(Paused) /\ st.tasksDisabled = Cardinality(Disabled)
  BY DEF OverallStats, Quantify
<1> HIDE DEF Active, Paused, Disabled, st
<1>7. /\ IsFiniteSet(Active) /\ Cardinality(Active) \in Nat
      /\ IsFiniteSet(Paused) /\ Cardinality(Paused) \in Nat
      /\ IsFiniteSet(Disabled) /\ Cardinality(Disabled) \in Nat
      /\ Cardinality(Paused \cap Disabled) \in Nat
      /\ IsFiniteSet(Paused \cup Disabled) /\ Cardinality(Paused \cup Disabled) \in Nat
  BY <1>5, CountedRows
<1>8. Cardinality(Paused \cup Disabled) =
        Cardinality(Paused) + Cardinality(Disabled) - Cardinality(Paused \cap Disabled)
  BY <1>7, FS_Union
<1>9. Cardinality(TaskRows) =
        Cardinality(Active) + Cardinality(Paused \cup Disabled) - Cardinality({})
  BY <1>4, <1>7, FS_Union
<1>10. Cardinality({}) = 0
  BY FS_EmptySet
<1>11. st.tasksActive + st.tasksPaused + st.tasksDisabled
         = st.tasksTotal + Cardinality(Paused \cap Disabled)
  BY <1>6, <1>7, <1>8, <1>9, <1>10
<1> QED
  BY <1>2, <1>3, <1>6, <1>11 DEF st

LEMMA ReportAgrees ==
  ASSUME TypeOK
  PROVE  Report.due = Cardinality(DueTasks(tasks, now))
<1> DEFINE Due == {t \in TaskRows : /\ t.nextRunAt > 0 /\ t.nextRunAt <= now
                                    /\ t.enabled /\ ~t.paused}
<1>1. ListTasks(NotGiven, {}, {}) = TaskRows
  BY DEF ListTasks, StatusClause, NotGiven
<1>2. Report.due = Cardinality(Due)
  BY <1>1 DEF Report, Quantify
<1>3. DueTasks(tasks, now) = Due
  BY DueAgrees
<1> QED
  BY <1>2, <1>3

(* Lists, statistics, report, scan and answers count a task alike, on      *)
(* every reachable state and for any number of tasks.                      *)
THEOREM EveryReaderAgrees == Spec => []ReadersAgree
<1>1. TypeOK /\ Known /\ FewTasks => ReadersAgree
  <2> SUFFICES ASSUME TypeOK, Known, FewTasks PROVE ReadersAgree
    OBVIOUS
  <2>1. IsFiniteSet(TaskRows) /\ IsFiniteSet(RunIds)
    BY RowsAreFew
  <2> QED
    BY <2>1, ListsAgree, DueAgrees, StatisticsPartition, ReportAgrees DEF ReadersAgree
<1>2. Records => Known
  BY DEF Records
<1> QED
  BY <1>1, <1>2, TypeCorrect, RecordsHold, TasksStayFew, PTL

-----------------------------------------------------------------------------
(* Whatever the filter, the list of runs is a sequence, of as many rows as *)
(* the filter admits.                                                      *)
Admitted(task, status) ==
  {r \in RunIds : /\ task # NotGiven => runs[r].task = task
                  /\ status # NotGiven => runs[r].status = status}

LEMMA RunsAreListed ==
  ASSUME NEW task, NEW status
  PROVE  LET n    == Cardinality(Admitted(task, status))
             list == RunsNewestFirst(task, status)
         IN  n \in Nat /\ DOMAIN list = 1..n /\ Len(list) = n
<1> DEFINE admitted == Admitted(task, status)
<1>1. IsFiniteSet(admitted) /\ Cardinality(admitted) \in Nat
  <2>1. IsFiniteSet(RunId) /\ admitted \in SUBSET RunId
    BY FS_Interval, BoundsAssumption DEF RunId, RunIds, Admitted
  <2> QED
    BY <2>1, FS_Subset, FS_CardinalityType
<1>2. RunsNewestFirst(task, status) =
        [i \in 1..Cardinality(admitted) |->
           CHOOSE x \in admitted : Cardinality({y \in admitted : Newer(y, x)}) = i - 1]
  BY DEF RunsNewestFirst, Listed, Admitted
<1> DEFINE n == Cardinality(admitted)
           list == RunsNewestFirst(task, status)
<1>3. DOMAIN list = 1..n
  BY <1>2
<1>4. Len(list) = n
  <2> HIDE DEF list, admitted
  <2> QED
    BY <1>1, <1>3
<1> QED
  BY <1>1, <1>3, <1>4

(* The place n of a list, or its end when it is shorter.                   *)
Upto(list, n) == IF n <= Len(list) THEN n ELSE Len(list)

IsList(list) == Len(list) \in Nat /\ DOMAIN list = 1..Len(list)

(* What Cut takes from a list.                                             *)
LEMMA RowsOfCut ==
  ASSUME NEW list, IsList(list), NEW limit \in Nat, NEW offset \in Nat
  PROVE  Range(Cut(list, limit, offset)) =
           Part(list, offset + 1, Upto(list, offset + limit))
<1> DEFINE n == Len(list)
           end == Upto(list, offset + limit)
<1>1. n \in Nat /\ DOMAIN list = 1..n
  BY DEF IsList
<1>2. end = (IF offset + limit <= n THEN offset + limit ELSE n) /\ end \in 0..n
  BY <1>1 DEF Upto
<1>3. Cut(list, limit, offset) = SubSeq(list, offset + 1, end)
  <2>1. Min({offset + limit, n}) = end
    BY <1>1, <1>2, MinOfTwo
  <2> QED
    BY <2>1 DEF Cut
<1> HIDE DEF n, end
<1>4. CASE offset <= n
  <2>1. offset + 1 \in 1..(n + 1)
    BY <1>1, <1>4
  <2>2. Range(SubSeq(list, offset + 1, end)) = Part(list, offset + 1, end)
    BY <1>1, <1>2, <2>1, RangeOfPart
  <2> QED
    BY <1>3, <2>2 DEF end
<1>5. CASE offset > n
  <2>1. (offset + 1)..end = {}
    BY <1>1, <1>2, <1>5
  <2>2. Part(list, offset + 1, end) = {}
    BY <2>1 DEF Part
  <2>3. SubSeq(list, offset + 1, end) = [i \in 1..(1 + end - (offset + 1)) |->
                                           list[i + (offset + 1) - 1]]
    BY <1>1, <1>2
  <2>4. 1..(1 + end - (offset + 1)) = {}
    BY <1>1, <1>2, <1>5
  <2>5. Range(SubSeq(list, offset + 1, end)) = {}
    BY <2>3, <2>4 DEF Range
  <2> QED
    BY <1>3, <2>2, <2>5 DEF end
<1> QED
  BY <1>1, <1>4, <1>5

(* A page of a client that asks in steps of limit: the first limit runs    *)
(* and then, limit and offset exchanged, all after the first limit up to   *)
(* the end of the page.                                                    *)
LEMMA PageOfRuns ==
  ASSUME NEW task, NEW status, NEW limit \in Nat \ {0}, NEW offset \in Nat
  PROVE  LET list == RunsNewestFirst(task, status) IN
         /\ IsList(list)
         /\ Range(ListRuns(task, status, limit, offset)) =
              Part(list, IF offset = 0 THEN 1 ELSE limit + 1, Upto(list, offset + limit))
<1> DEFINE list == RunsNewestFirst(task, status)
<1>1. IsList(list)
  BY RunsAreListed DEF IsList
<1>2. CASE offset = 0
  <2>1. ListRuns(task, status, limit, offset) = Cut(list, limit, 0)
    BY <1>2 DEF ListRuns
  <2> HIDE DEF list
  <2>2. Range(Cut(list, limit, 0)) = Part(list, 0 + 1, Upto(list, 0 + limit))
    BY <1>1, RowsOfCut
  <2> QED
    BY <1>1, <1>2, <2>1, <2>2 DEF list
<1>3. CASE offset # 0
  <2>1. ListRuns(task, status, limit, offset) = Cut(list, offset, limit)
    BY <1>3 DEF ListRuns
  <2> HIDE DEF list
  <2>2. Range(Cut(list, offset, limit)) = Part(list, limit + 1, Upto(list, limit + offset))
    BY <1>1, RowsOfCut
  <2>3. limit + offset = offset + limit
    OBVIOUS
  <2> QED
    BY <1>1, <1>3, <2>1, <2>2, <2>3 DEF list
<1> QED
  BY <1>2, <1>3

(* Hence the pages 0 .. k together hold the first runs of the list.        *)
Seen(task, status, limit, k) ==
  UNION {Range(ListRuns(task, status, limit, limit * j)) : j \in 0..k}

LEMMA PagesHoldTheFirst ==
  ASSUME NEW task, NEW status, NEW limit \in 1..3, NEW k \in Nat
  PROVE  LET list == RunsNewestFirst(task, status)
         IN  Seen(task, status, limit, k) =
               Part(list, 1, Upto(list, limit * (k + 1)))
<1> DEFINE list == RunsNewestFirst(task, status)
           page(j) == Range(ListRuns(task, status, limit, limit * j))
           end == Upto(list, limit * (k + 1))
<1>0. IsList(list)
  BY PageOfRuns
<1>1. ASSUME NEW j \in Nat
      PROVE  /\ limit * j \in Nat /\ limit * (j + 1) = limit * j + limit
             /\ limit * j = 0 <=> j = 0
             /\ j <= k => limit * j <= limit * k
  <2>1. limit = 1 \/ limit = 2 \/ limit = 3
    OBVIOUS
  <2> QED
    BY <2>1
<1>2. ASSUME NEW j \in 0..k
      PROVE  page(j) = Part(list, IF j = 0 THEN 1 ELSE limit + 1,
                            Upto(list, limit * j + limit))
  <2>1. limit * j \in Nat /\ (limit * j = 0 <=> j = 0)
    BY <1>1
  <2> DEFINE off == limit * j
  <2>2. off \in Nat /\ (off = 0 <=> j = 0) /\ limit \in Nat \ {0}
    BY <2>1
  <2> HIDE DEF off
  <2>3. Range(ListRuns(task, status, limit, off)) =
          Part(list, IF off = 0 THEN 1 ELSE limit + 1, Upto(list, off + limit))
    <3>1. off \in Nat
      BY <2>2
    <3>2. limit \in Nat \ {0}
      BY <2>2
    <3> QED
      BY <3>1, <3>2, PageOfRuns, SMTT(30)
  <2>4. page(j) = Range(ListRuns(task, status, limit, off))
    BY DEF off
  <2>5. (IF off = 0 THEN 1 ELSE limit + 1) = IF j = 0 THEN 1 ELSE limit + 1
    BY <2>2
  <2>6. Upto(list, off + limit) = Upto(list, limit * j + limit)
    BY DEF off
  <2> HIDE DEF page, list
  <2> QED
    BY <2>3, <2>4, <2>5, <2>6 DEF list
<1> HIDE DEF list, page
<1>3. ASSUME NEW j \in 0..k
      PROVE  /\ Upto(list, limit * j + limit) \in Int
             /\ Upto(list, limit * j + limit) <= end
  <2>1. limit * j + limit <= limit * (k + 1) /\ limit * j + limit \in Int
             /\ limit * (k + 1) \in Int
    BY <1>1
  <2> QED
    BY <1>0, <2>1 DEF Upto, IsList
<1>4. UNION {page(j) : j \in 0..k} \subseteq Part(list, 1, end)
  <2> SUFFICES ASSUME NEW j \in 0..k PROVE page(j) \subseteq Part(list, 1, end)
    OBVIOUS
  <2> QED
    BY <1>2, <1>3 DEF Part
<1>5. Part(list, 1, end) \subseteq UNION {page(j) : j \in 0..k}
  <2> SUFFICES ASSUME NEW i \in 1..end
               PROVE  \E j \in 0..k : list[i] \in page(j)
    BY DEF Part
  <2>1. end \in Int /\ Len(list) \in Int
    BY <1>0, <1>1 DEF Upto, IsList
  <2>2. end = Upto(list, limit * k + limit) /\ Upto(list, limit) \in Int
    BY <1>0, <1>1 DEF Upto, IsList
  <2>3. CASE i <= limit
    <3>1. i <= Upto(list, limit)
      <4>1. i <= Len(list)
        BY <1>0, <1>1, <2>1 DEF Upto, IsList
      <4> QED
        BY <2>3, <4>1 DEF Upto
    <3>2. page(0) = Part(list, 1, Upto(list, limit))
      <4>1. limit * 0 + limit = limit
        OBVIOUS
      <4> QED
        BY <1>2, <4>1
    <3> QED
      BY <2>2, <3>1, <3>2 DEF Part
  <2>4. CASE i > limit
    <3>1. k # 0
      <4> SUFFICES ASSUME k = 0 PROVE FALSE
        OBVIOUS
      <4>1. limit * (k + 1) = limit
        OBVIOUS
      <4>2. end <= limit
        BY <1>0, <4>1 DEF Upto, IsList
      <4> QED
        BY <2>1, <2>4, <4>2
    <3>2. page(k) = Part(list, limit + 1, end)
      BY <1>2, <2>2, <3>1
    <3> QED
      BY <2>1, <2>4, <3>2 DEF Part
  <2> QED
    BY <2>1, <2>3, <2>4
<1> QED
  BY <1>4, <1>5 DEF page, list, Seen

(* Asking for the pages of constant length, one after the other, a client  *)
(* sees every run, and the runs in their order, for any number of runs and *)
(* on every reachable state.                                               *)
THEOREM PagesTogetherCoverRuns == Spec => []PagesCoverRuns
<1>1. PagesCoverRuns
  <2> SUFFICES ASSUME NEW task \in TaskId \cup {NotGiven},
                      NEW status \in {NotGiven, "succeeded"}, NEW limit \in 1..3
               PROVE  LET list == RunsNewestFirst(task, status)
                          pages == [k \in 0..(Len(list) \div limit) |->
                                      ListRuns(task, status, limit, limit * k)]
                      IN  /\ UNION {Range(pages[k]) : k \in DOMAIN pages} = Range(list)
                          /\ \A k \in DOMAIN pages :
                               UNION {Range(pages[j]) : j \in 0..k} =
                                 {list[i] : i \in 1..Min({Len(list), limit * (k + 1)})}
    BY DEF PagesCoverRuns
  <2> DEFINE list == RunsNewestFirst(task, status)
             last == Len(list) \div limit
             pages == [k \in 0..last |-> ListRuns(task, status, limit, limit * k)]
  <2>1. IsList(list)
    <3>1. limit \in Nat \ {0} /\ 0 \in Nat
      OBVIOUS
    <3> QED
      BY <3>1, PageOfRuns
  <2>2. ASSUME NEW k \in 0..last, last \in Nat
        PROVE  UNION {Range(pages[j]) : j \in 0..k} =
                 Part(list, 1, Upto(list, limit * (k + 1)))
    <3>1. \A j \in 0..k : pages[j] = ListRuns(task, status, limit, limit * j)
      <4> HIDE DEF last
      <4> QED
        BY <2>2
    <3>2. UNION {Range(pages[j]) : j \in 0..k} = Seen(task, status, limit, k)
      <4> HIDE DEF pages
      <4> QED
        BY <3>1 DEF Seen
    <3>3. k \in Nat
      <4> HIDE DEF last
      <4> QED
        BY <2>2
    <3>4. Seen(task, status, limit, k) = Part(list, 1, Upto(list, limit * (k + 1)))
      <4> HIDE DEF pages
      <4> QED
        BY <3>3, PagesHoldTheFirst, Zenon
    <3> QED
      <4> HIDE DEF pages, list
      <4> QED
        BY <3>2, <3>4, Zenon
  <2> HIDE DEF list
  <2>3. last \in Nat /\ limit * (last + 1) \in Int /\ Len(list) <= limit * (last + 1)
    <3>1. limit = 1 \/ limit = 2 \/ limit = 3
      OBVIOUS
    <3> QED
      BY <2>1, <3>1 DEF IsList
  <2> HIDE DEF last
  <2>4. ASSUME NEW k \in 0..last
        PROVE  Min({Len(list), limit * (k + 1)}) = Upto(list, limit * (k + 1))
    <3>1. limit * (k + 1) \in Int /\ Len(list) \in Int
      BY <2>1, <2>3 DEF IsList
    <3> QED
      BY <3>1, MinOfTwo DEF Upto
  <2>5. UNION {Range(pages[k]) : k \in DOMAIN pages} = Range(list)
    <3>1. DOMAIN pages = 0..last /\ last \in 0..last
      BY <2>3
    <3>2. Upto(list, limit * (last + 1)) = Len(list)
      <4> DEFINE m == limit * (last + 1)
      <4>1. m \in Int /\ Len(list) <= m /\ Len(list) \in Int
        BY <2>1, <2>3 DEF IsList
      <4> HIDE DEF m
      <4>2. Upto(list, m) = Len(list)
        BY <4>1 DEF Upto
      <4> QED
        BY <4>2 DEF m
    <3>3. UNION {Range(pages[k]) : k \in 0..last} = Part(list, 1, Len(list))
      BY <2>2, <2>3, <3>1, <3>2
    <3>4. Part(list, 1, Len(list)) = Range(list)
      BY <2>1 DEF Part, Range, IsList
    <3> QED
      BY <3>1, <3>3, <3>4
  <2>6. ASSUME NEW k \in DOMAIN pages
        PROVE  UNION {Range(pages[j]) : j \in 0..k} =
                 {list[i] : i \in 1..Min({Len(list), limit * (k + 1)})}
    BY <2>2, <2>3, <2>4 DEF Part
  <2> QED
    BY <2>5, <2>6, Zenon DEF list, last
<1> QED
  BY <1>1, PTL

-----------------------------------------------------------------------------
(* The sums of the days.  Of the ids given out, those of the runs somebody *)
(* will still execute and those of the rows with another status are not    *)
(* counted under s; every execution takes its run out of them.             *)
Column(s)    == [d \in Day |-> Count(s, d)]
Uncounted(s) == {r \in RunId : /\ r <= issued
                               /\ r \in Owed \/ (runs[r] # NoRow /\ runs[r].status # s)}

Balanced(s) ==
  /\ Cardinality(Rows({s})) <= Sum(Day, Column(s))
  /\ Sum(Day, Column(s)) + Cardinality(Uncounted(s)) <= issued

Balance == \A s \in Ended : Balanced(s)

LEMMA DaysAreFew == IsFiniteSet(Day) /\ Day \in SUBSET Int /\ Day # {}
<1> DEFINE f == [t \in Time |-> DayOf(t)]
<1>1. IsFiniteSet(Time) /\ 1 \in Time
  BY FS_Interval, BoundsAssumption DEF Time
<1>2. f \in Surjection(Time, Day)
  BY DEF Surjection, Day
<1>3. IsFiniteSet(Day)
  BY <1>1, <1>2, FS_Surjection
<1>4. \A t \in Time : DayOf(t) \in Int
  BY BoundsAssumption DEF Time, DayOf
<1> QED
  BY <1>1, <1>3, <1>4 DEF Day

LEMMA ColumnType ==
  ASSUME TypeOK, NEW s
  PROVE  Column(s) \in [Day -> Nat]
BY DEF TypeOK, TablesOK, Column, Count

LEMMA RunsAreFew ==
  ASSUME NEW R \in SUBSET RunId
  PROVE  IsFiniteSet(R) /\ Cardinality(R) \in Nat
<1>1. IsFiniteSet(RunId)
  BY FS_Interval, BoundsAssumption DEF RunId
<1> QED
  BY <1>1, FS_Subset, FS_CardinalityType

(* Either a step executes a run that was in hand and lets go of it, or it  *)
(* counts nothing and takes only new runs in hand.                         *)
LEMMA HoldStep ==
  ASSUME TypeOK, Custody, [Next]_vars
  PROVE  \/ \E j \in Carried : ExecuteRun(j) /\ Owed' = Owed \ {j.run}
         \/ UNCHANGED daily /\ \A r \in Owed' : r \in Owed \/ ~(r <= issued)
<1> USE ProcsFacts
<1> DEFINE Executes == \E j \in Carried : ExecuteRun(j) /\ Owed' = Owed \ {j.run}
           Holds    == \A r \in Owed' : r \in Owed \/ ~(r <= issued)
<1>1. issued \in Nat /\ issued' \in Nat
  BY IssuedGrows
<1>2. ASSUME UNCHANGED <<issued, pc, job, pend>>
      PROVE  Holds
  <2>1. Owed' = Owed
    BY <1>2 DEF Owed, Executing
  <2> QED
    BY <2>1
<1>3. UNCHANGED vars \/ Restart \/ Start \/ ClockTick
      => UNCHANGED <<issued, pc, job, pend>>
  BY DEF vars, Restart, Start, ClockTick, ids
<1>4. Request \/ Mishap => Owed' \subseteq Owed
  BY RequestStep, MishapStep
<1>5. ASSUME TickBegin \/ TickScan \/ DispatchAdvance
      PROVE  Holds
  <2>1. \E label : label # "execute" /\ \E j : Goto(Ticker, label, j)
    BY <1>5 DEF TickBegin, TickScan, DispatchAdvance, Continue
  <2>2. pc[Ticker] # "execute" /\ pend' = pend
    BY <1>5 DEF TickBegin, TickScan, DispatchAdvance
  <2> QED
    BY <2>1, <2>2, StepsAside
<1>6. ASSUME DispatchInsert
      PROVE  Holds
  <2>1. Owed' = Owed \cup {issued'} /\ issued' = issued + 1
    BY <1>6, DispatchInserts, TakingHold DEF DispatchInsert
  <2> QED
    BY <1>1, <2>1
<1>7. ASSUME NEW h \in Handlers, TriggerInsert(h) \/ RetryInsert(h)
      PROVE  Holds
  <2>1. Owed' = Owed \cup {issued'} /\ issued' = issued + 1
    BY <1>7, RequestInserts, TakingHold DEF TriggerInsert, RetryInsert
  <2> QED
    BY <1>1, <2>1
<1>8. ASSUME RecoverOrphans
      PROVE  Holds
  <2>1. Owed' = (issued + 1)..issued'
    BY <1>8, RetriesTakeNewIds
  <2> QED
    BY <1>1, <2>1
<1>9. ASSUME DispatchExecute
      PROVE  Executes
  <2>1. job[Ticker] \in Carried
    BY <1>9 DEF DispatchExecute, Carried, Executing
  <2>2. Owed' = Owed \ {job[Ticker].run}
    BY <1>9, ExecutedByGoroutine DEF DispatchExecute
  <2> QED
    BY <1>9, <2>1, <2>2 DEF DispatchExecute
<1>10. ASSUME NEW h \in Handlers, RequestExecute(h)
       PROVE  Executes
  <2>1. job[h] \in Carried
    BY <1>10 DEF RequestExecute, Carried, Executing
  <2>2. Owed' = Owed \ {job[h].run}
    BY <1>10, ExecutedByGoroutine DEF RequestExecute
  <2> QED
    BY <1>10, <2>1, <2>2 DEF RequestExecute
<1>11. ASSUME RecoverExecute
       PROVE  Executes
  BY <1>11, ExecutedByRecovery DEF Carried
<1>12. Executes \/ Holds
  BY <1>2, <1>3, <1>4, <1>5, <1>6, <1>7, <1>8, <1>9, <1>10, <1>11
     DEF Next, Tick, Serve, Boot, Environment, Mishap
<1>13. ASSUME ~UNCHANGED daily
       PROVE  Executes
  <2>1. Next
    BY <1>13 DEF vars
  <2>2. DispatchExecute \/ RecoverExecute \/ \E h \in Handlers : RequestExecute(h)
    BY <1>13, <2>1 DEF Next, vars, disk, Request, Tick, Serve, Boot, Environment,
     handleCreateTask, handleUpdateTask, handleDeleteTask, setTaskEnabled,
     setTaskPaused, handleDeleteRun, handleTriggerTask, TriggerLoad,
     handleRetryRun, RetryLoad, TickBegin, TickScan, DispatchInsert,
     DispatchAdvance, TriggerInsert, RetryInsert, InsertRun,
     Restart, RecoverOrphans, Start, Crash, TickFails, RequestFails,
     RecoverFails, ClockTick
  <2> QED
    BY <1>9, <1>10, <1>11, <2>2
<1> QED
  BY <1>12, <1>13

(* Counting a run adds one to one column.                                  *)
LEMMA ColumnStep ==
  ASSUME TypeOK, NEW j \in Carried, ExecuteRun(j), NEW s \in Ended
  PROVE  /\ s = Outcome(j.task) => Sum(Day, Column(s)') = Sum(Day, Column(s)) + 1
         /\ s # Outcome(j.task) => Column(s)' = Column(s)
<1>1. DayOf(j.at) \in Day
  BY CarriedTypes, ClockIsANumber
<1>2. \A d \in Day :
        /\ Count(s, d) \in Nat
        /\ s = Outcome(j.task) /\ d = DayOf(j.at) => Count(s, d)' = Count(s, d) + 1
        /\ ~(s = Outcome(j.task) /\ d = DayOf(j.at)) => Count(s, d)' = Count(s, d)
  BY CountStep
<1> DEFINE w == Column(s)
<1>3. w \in [Day -> Nat]
  BY ColumnType
<1>4. CASE s = Outcome(j.task)
  <2>1. Column(s)' = [w EXCEPT ![DayOf(j.at)] = @ + 1]
    BY <1>1, <1>2, <1>4 DEF Column
  <2> HIDE DEF w
  <2>2. Sum(Day, [w EXCEPT ![DayOf(j.at)] = @ + 1]) = Sum(Day, w) + 1
    BY <1>1, <1>3, DaysAreFew, SumGrows
  <2> QED
    BY <1>4, <2>1, <2>2 DEF w
<1>5. CASE s # Outcome(j.task)
  BY <1>2, <1>5 DEF Column
<1> QED
  BY <1>4, <1>5

LEMMA BalanceInit == Init => Balance
<1> SUFFICES ASSUME Init, NEW s \in Ended PROVE Balanced(s)
  BY DEF Balance
<1>1. Rows({s}) = {} /\ Uncounted(s) = {}
  <2>1. Owed = {}
    BY ProcsFacts DEF Init, Executing, Owed
  <2> QED
    BY <2>1 DEF Init, Rows, Uncounted
<1>2. Sum(Day, Column(s)) = 0
  <2>1. TypeOK
    BY InitType
  <2>2. \A d \in Day : Column(s)[d] = 0
    BY DEF Init, Column, Count, NoStats
  <2> QED
    BY <2>1, <2>2, ColumnType, DaysAreFew, SumOfZeros
<1>3. Cardinality({}) = 0 /\ issued = 0
  BY FS_EmptySet DEF Init
<1> QED
  BY <1>1, <1>2, <1>3 DEF Balanced

LEMMA BalancedStep ==
  ASSUME TypeOK, Custody, \A j \in Carried : Traces(j), [Next]_vars,
         NEW s \in Ended, Balanced(s)
  PROVE  Balanced(s)'
<1> DEFINE total == Sum(Day, Column(s))
           total2 == Sum(Day, Column(s)')
<1>1. issued \in Nat /\ issued' \in Nat /\ issued <= issued'
  BY IssuedGrows
<1>2. total \in Nat
  BY ColumnType, DaysAreFew, SumGrows
<1>3. /\ IsFiniteSet(Rows({s})) /\ Cardinality(Rows({s})) \in Nat
      /\ IsFiniteSet(Uncounted(s)) /\ Cardinality(Uncounted(s)) \in Nat
      /\ IsFiniteSet(Rows({s})') /\ Cardinality(Rows({s})') \in Nat
      /\ IsFiniteSet(Uncounted(s)') /\ Cardinality(Uncounted(s)') \in Nat
  <2>1. /\ Rows({s}) \in SUBSET RunId /\ Rows({s})' \in SUBSET RunId
        /\ Uncounted(s) \in SUBSET RunId /\ Uncounted(s)' \in SUBSET RunId
    BY DEF Rows, Uncounted
  <2> QED
    BY <2>1, RunsAreFew
<1>4. Cardinality(Rows({s})) <= total /\ total + Cardinality(Uncounted(s)) <= issued
  BY DEF Balanced
<1>5. ASSUME NEW j \in Carried, ExecuteRun(j), Owed' = Owed \ {j.run}
      PROVE  /\ Cardinality(Rows({s})') <= total2
             /\ total2 + Cardinality(Uncounted(s)') <= issued'
  <2>1. /\ j.run \in RunId /\ j.run <= issued /\ issued' = issued
        /\ \A r \in RunId : r # j.run => runs'[r] = runs[r]
        /\ runs[j.run] # NoRow =>
             /\ runs'[j.run] # NoRow /\ runs'[j.run].status = Outcome(j.task)
        /\ runs[j.run] = NoRow => runs'[j.run] = NoRow
    BY <1>5, ExecutedOutcome
  <2>2. j.run \in Uncounted(s)
    BY <2>1, CarriedTypes DEF Uncounted
  <2>3. /\ s = Outcome(j.task) => total2 = total + 1
        /\ s # Outcome(j.task) => total2 = total
    BY <1>5, ColumnStep
  <2>4. Uncounted(s)' \subseteq Uncounted(s)
    BY <1>5, <2>1, <2>2 DEF Uncounted
  <2> HIDE DEF total, total2
  <2>5. CASE s = Outcome(j.task)
    <3>1. Uncounted(s)' \subseteq Uncounted(s) \ {j.run}
      BY <1>5, <2>1, <2>4, <2>5 DEF Uncounted
    <3>2. Rows({s})' \subseteq Rows({s}) \cup {j.run}
      BY <2>1 DEF Rows
    <3>3. /\ IsFiniteSet(Uncounted(s) \ {j.run})
          /\ Cardinality(Uncounted(s) \ {j.run}) = Cardinality(Uncounted(s)) - 1
      BY <1>3, <2>2, FS_RemoveElement
    <3>4. Cardinality(Uncounted(s)') <= Cardinality(Uncounted(s)) - 1
      BY <3>1, <3>3, FS_Subset
    <3>5. Cardinality(Rows({s})') <= Cardinality(Rows({s})) + 1
      <4>1. /\ IsFiniteSet(Rows({s}) \cup {j.run})
            /\ \/ Cardinality(Rows({s}) \cup {j.run}) = Cardinality(Rows({s})) + 1
               \/ Cardinality(Rows({s}) \cup {j.run}) = Cardinality(Rows({s}))
        BY <1>3, FS_AddElement
      <4>2. Cardinality(Rows({s})') <= Cardinality(Rows({s}) \cup {j.run})
        BY <3>2, <4>1, FS_Subset
      <4> QED
        BY <1>3, <4>1, <4>2
    <3> QED
      BY <1>1, <1>2, <1>3, <1>4, <2>1, <2>3, <2>5, <3>4, <3>5
  <2>6. CASE s # Outcome(j.task)
    <3>1. Rows({s})' \subseteq Rows({s})
      BY <2>1, <2>6 DEF Rows
    <3>2. Cardinality(Rows({s})') <= Cardinality(Rows({s}))
      BY <1>3, <3>1, FS_Subset
    <3>3. Cardinality(Uncounted(s)') <= Cardinality(Uncounted(s))
      BY <1>3, <2>4, FS_Subset
    <3> QED
      BY <1>1, <1>2, <1>3, <1>4, <2>1, <2>3, <2>6, <3>2, <3>3
  <2> QED
    BY <2>5, <2>6 DEF total, total2
<1>6. ASSUME UNCHANGED daily, \A r \in Owed' : r \in Owed \/ ~(r <= issued)
      PROVE  /\ Cardinality(Rows({s})') <= total2
             /\ total2 + Cardinality(Uncounted(s)') <= issued'
  <2>1. total2 = total
    BY <1>6 DEF Column, Count
  <2>2. ~Execution
    <3> SUFFICES ASSUME NEW j \in Carried, ExecuteRun(j) PROVE FALSE
      BY DEF Execution
    <3>1. Outcome(j.task) \in Ended /\ DayOf(j.at) \in Day
      BY CarriedTypes, ClockIsANumber DEF Outcome, Ended
    <3>2. /\ Count(Outcome(j.task), DayOf(j.at)) \in Nat
          /\ Count(Outcome(j.task), DayOf(j.at))' = Count(Outcome(j.task), DayOf(j.at)) + 1
      BY <3>1, CountStep
    <3>3. Count(Outcome(j.task), DayOf(j.at))' = Count(Outcome(j.task), DayOf(j.at))
      BY <1>6 DEF Count
    <3> QED
      BY <3>2, <3>3
  <2>3. Rows({s})' \subseteq Rows({s})
    <3>1. \A r \in RunId : r \in Rows(Ended)' => r \in Rows(Ended) /\ runs'[r] = runs[r]
      BY <2>2, EndedStays
    <3> QED
      BY <3>1 DEF Rows
  <2>4. Uncounted(s)' \subseteq Uncounted(s) \cup (issued + 1)..issued'
    <3> SUFFICES ASSUME NEW r \in Uncounted(s)', r <= issued
                 PROVE  r \in Uncounted(s)
      BY <1>1 DEF Uncounted, RunId
    <3>1. r \in RunId
      BY DEF Uncounted
    <3>2. CASE r \in Owed'
      BY <1>6, <3>1, <3>2 DEF Uncounted
    <3>3. CASE runs'[r] # NoRow /\ runs'[r].status # s
      <4>1. runs[r] # NoRow
        BY <3>1, <3>3, RowStep
      <4>2. runs[r].status # s
        <5> SUFFICES ASSUME runs[r].status = s PROVE FALSE
          OBVIOUS
        <5>1. r \in Rows(Terminal)
          BY <3>1, <4>1 DEF Rows, Terminal, Ended
        <5>2. Final
          BY CustodyStep
        <5> QED
          BY <3>3, <5>1, <5>2 DEF Final
      <4> QED
        BY <3>1, <4>1, <4>2 DEF Uncounted
    <3> QED
      BY <3>2, <3>3 DEF Uncounted
  <2> DEFINE New == (issued + 1)..issued'
  <2>5. IsFiniteSet(New) /\ Cardinality(New) = issued' - issued
    <3>1. issued + 1 \in Int /\ issued' \in Int
      BY <1>1
    <3>2. IsFiniteSet(New)
          /\ Cardinality(New) = IF issued + 1 > issued' THEN 0
                                ELSE issued' - (issued + 1) + 1
      BY <3>1, FS_Interval
    <3> QED
      BY <1>1, <3>2
  <2> HIDE DEF New, total, total2
  <2>6. Cardinality(Uncounted(s)') <= Cardinality(Uncounted(s)) + (issued' - issued)
    <3>1. /\ IsFiniteSet(Uncounted(s) \cup New)
          /\ Cardinality(Uncounted(s) \cup New) =
               Cardinality(Uncounted(s)) + Cardinality(New)
                 - Cardinality(Uncounted(s) \cap New)
      BY <1>3, <2>5, FS_Union
    <3>2. Cardinality(Uncounted(s) \cap New) \in Nat
      <4>1. Uncounted(s) \cap New \in SUBSET RunId
        BY DEF Uncounted
      <4> QED
        BY <4>1, RunsAreFew
    <3>3. Cardinality(Uncounted(s)') <= Cardinality(Uncounted(s) \cup New)
      BY <2>4, <3>1, FS_Subset DEF New
    <3> QED
      BY <1>1, <1>3, <2>5, <3>1, <3>2, <3>3
  <2>7. Cardinality(Rows({s})') <= Cardinality(Rows({s}))
    BY <1>3, <2>3, FS_Subset
  <2> QED
    BY <1>1, <1>2, <1>3, <1>4, <2>1, <2>6, <2>7 DEF total, total2
<1>7. \/ \E j \in Carried : ExecuteRun(j) /\ Owed' = Owed \ {j.run}
      \/ UNCHANGED daily /\ \A r \in Owed' : r \in Owed \/ ~(r <= issued)
  BY HoldStep
<1> QED
  BY <1>5, <1>6, <1>7 DEF Balanced

LEMMA BalanceHolds == Spec => []Balance
<1>1. TypeOK /\ Custody /\ History /\ Balance /\ [Next]_vars => Balance'
  <2> SUFFICES ASSUME TypeOK, Custody, History, Balance, [Next]_vars, NEW s \in Ended
               PROVE  Balanced(s)'
    BY DEF Balance
  <2> QED
    BY BalancedStep DEF Balance, History
<1> QED
  BY <1>1, BalanceInit, TypeCorrect, RunsAreInCustody, HistoryHolds, PTL DEF Spec

(* The days a client reads are all days with a counter.                    *)
LEMMA AllDays ==
  ASSUME TypeOK
  PROVE  DailyStats(Min(Day), Max(Day)) = daily
<1>1. {d \in Day : Min(Day) <= d /\ d <= Max(Day)} = Day
  BY DaysAreFew, Extremes
<1>2. daily = [d \in Day |-> daily[d]]
  BY DEF TypeOK, TablesOK
<1> QED
  BY <1>1, <1>2 DEF DailyStats

(* What FoldSet adds up are the sums of the columns.                       *)
LEMMA FoldsAreSums ==
  ASSUME TypeOK
  PROVE  LET days == DailyStats(Min(Day), Max(Day)) IN
         /\ FoldSet(LAMBDA d, acc : acc + days[d].succeeded, 0, DOMAIN days)
              = Sum(Day, Column("succeeded"))
         /\ FoldSet(LAMBDA d, acc : acc + days[d].failed, 0, DOMAIN days)
              = Sum(Day, Column("failed"))
<1> DEFINE w == Column("succeeded")
           v == Column("failed")
<1>1. ASSUME NEW s \in SUBSET Day, s # {}
      PROVE  Taken(s) \in Day /\ Taken(s) = CHOOSE x \in s : TRUE
  <2>1. Taken(s) \in s
    BY <1>1 DEF Taken
  <2>2. Taken(s) = CHOOSE x \in s : TRUE
    BY DEF Taken
  <2> QED
    BY <2>1, <2>2
<1>3. w \in [Day -> Nat] /\ v \in [Day -> Nat] /\ IsFiniteSet(Day)
  BY ColumnType, DaysAreFew
<1> HIDE DEF w, v
<1> DEFINE days == DailyStats(Min(Day), Max(Day))
           E1(f) == [s \in SUBSET DOMAIN days |->
                       IF s = {} THEN 0
                       ELSE f[s \ {CHOOSE x \in s : TRUE}]
                              + days[CHOOSE x \in s : TRUE].succeeded]
           E2(f) == [s \in SUBSET DOMAIN days |->
                       IF s = {} THEN 0
                       ELSE f[s \ {CHOOSE x \in s : TRUE}]
                              + days[CHOOSE x \in s : TRUE].failed]
           f1 == CHOOSE f : f = E1(f)
           f2 == CHOOSE f : f = E2(f)
<1>2. days = daily /\ DOMAIN days = Day
  BY AllDays DEF TypeOK, TablesOK
<1>4. /\ FoldSet(LAMBDA d, acc : acc + days[d].succeeded, 0, DOMAIN days) = f1[DOMAIN days]
      /\ FoldSet(LAMBDA d, acc : acc + days[d].failed, 0, DOMAIN days) = f2[DOMAIN days]
  BY DEF FoldSet, MapThenFoldSet
<1>5. \A f : E1(f) = Added(f, Day, w) /\ E2(f) = Added(f, Day, v)
  <2>1. \A d \in Day : w[d] = days[d].succeeded /\ v[d] = days[d].failed
    BY <1>2 DEF Column, Count, w, v
  <2> HIDE DEF days
  <2>2. \A s \in SUBSET Day : s # {} =>
          /\ Taken(s) = CHOOSE x \in s : TRUE
          /\ w[Taken(s)] = days[Taken(s)].succeeded
          /\ v[Taken(s)] = days[Taken(s)].failed
    BY <1>1, <2>1
  <2>3. ASSUME NEW f
        PROVE  E1(f) = Added(f, Day, w) /\ E2(f) = Added(f, Day, v)
    <3>1. /\ E1(f) = [s \in SUBSET Day |->
                        IF s = {} THEN 0
                        ELSE f[s \ {Taken(s)}] + days[Taken(s)].succeeded]
          /\ E2(f) = [s \in SUBSET Day |->
                        IF s = {} THEN 0
                        ELSE f[s \ {Taken(s)}] + days[Taken(s)].failed]
      BY <1>2, Zenon DEF Taken
    <3>2. /\ Added(f, Day, w) = [s \in SUBSET Day |->
               IF s = {} THEN 0
               ELSE f[s \ {Taken(s)}] + days[Taken(s)].succeeded]
          /\ Added(f, Day, v) = [s \in SUBSET Day |->
               IF s = {} THEN 0
               ELSE f[s \ {Taken(s)}] + days[Taken(s)].failed]
      BY <2>2 DEF Added
    <3> QED
      BY <3>1, <3>2, Zenon
  <2> QED
    BY <2>3, Zenon
<1> HIDE DEF E1, E2
<1>6. f1 = E1(f1)
  <2>1. \E f : f = E1(f)
    BY <1>3, <1>5, SumsExist
  <2> QED
    BY <2>1
<1>7. f2 = E2(f2)
  <2>1. \E f : f = E2(f)
    BY <1>3, <1>5, SumsExist
  <2> QED
    BY <2>1
<1> HIDE DEF f1, f2
<1>8. f1 = Added(f1, Day, w) /\ f2 = Added(f2, Day, v)
  BY <1>5, <1>6, <1>7
<1>9. f1[DOMAIN days] = Sum(Day, w) /\ f2[DOMAIN days] = Sum(Day, v)
  BY <1>3, <1>8, <1>2, SumIsUnique
<1> QED
  BY <1>4, <1>9 DEF w, v

Having(statuses) == {r \in RunIds : runs[r].status \in statuses}

LEMMA PendingAreListed ==
  Len(ListRuns(NotGiven, "pending", 0, 0)) = Cardinality(Having({"pending"}))
<1>1. Having({"pending"}) = Admitted(NotGiven, "pending")
  BY DEF NotGiven, Having, Admitted
<1>2. Len(RunsNewestFirst(NotGiven, "pending")) = Cardinality(Admitted(NotGiven, "pending"))
  BY RunsAreListed
<1>3. ListRuns(NotGiven, "pending", 0, 0) = RunsNewestFirst(NotGiven, "pending")
  BY DEF ListRuns
<1> QED
  BY <1>1, <1>2, <1>3

LEMMA RunsPartition ==
  ASSUME TypeOK
  PROVE  LET n(statuses) == Cardinality(Having(statuses)) IN
         /\ Cardinality(RunIds) = n({"succeeded"}) + n({"failed", "orphaned"})
                                    + n({"running"}) + n({"pending"})
         /\ n({"failed", "orphaned"}) = n({"failed"}) + n({"orphaned"})
         /\ \A s \in Ended : Rows({s}) = Having({s})
<1>1. \A r \in RunIds : runs[r].status \in Live \cup Terminal
  BY DEF RunIds, TypeOK, TablesOK, Run
<1>2. RunIds \in SUBSET RunId
  BY DEF RunIds
<1>3. ASSUME NEW A \in SUBSET RunId, NEW B \in SUBSET RunId, A \cap B = {}
      PROVE  Cardinality(A \cup B) = Cardinality(A) + Cardinality(B)
  <2>1. /\ IsFiniteSet(A) /\ IsFiniteSet(B) /\ Cardinality(A) \in Nat
        /\ Cardinality(B) \in Nat
    BY RunsAreFew
  <2>2. Cardinality(A \cap B) = 0
    BY <1>3, FS_EmptySet, Zenon
  <2>3. Cardinality(A \cup B) = Cardinality(A) + Cardinality(B) - Cardinality(A \cap B)
    BY <2>1, FS_Union
  <2> QED
    BY <1>3, <2>1, <2>2, <2>3
<1> DEFINE A == Having({"succeeded"})
           B == Having({"failed", "orphaned"})
           C == Having({"running"})
           D == Having({"pending"})
           F == Having({"failed"})
           O == Having({"orphaned"})
<1>4. /\ A \in SUBSET RunId /\ B \in SUBSET RunId /\ C \in SUBSET RunId
      /\ D \in SUBSET RunId /\ F \in SUBSET RunId /\ O \in SUBSET RunId
  BY <1>2 DEF Having
<1>5. /\ RunIds = (A \cup B) \cup (C \cup D)
      /\ A \cap B = {} /\ C \cap D = {} /\ (A \cup B) \cap (C \cup D) = {}
      /\ B = F \cup O /\ F \cap O = {}
  BY <1>1 DEF Having, Live, Terminal
<1>6. \A s \in Ended : Rows({s}) = Having({s})
  BY DEF Rows, Having, RunIds
<1> HIDE DEF A, B, C, D, F, O
<1>7. /\ Cardinality(A) \in Nat /\ Cardinality(B) \in Nat /\ Cardinality(C) \in Nat
      /\ Cardinality(D) \in Nat
  BY <1>4, RunsAreFew
<1>8. /\ Cardinality(A \cup B) = Cardinality(A) + Cardinality(B)
      /\ Cardinality(C \cup D) = Cardinality(C) + Cardinality(D)
      /\ Cardinality(F \cup O) = Cardinality(F) + Cardinality(O)
  BY <1>3, <1>4, <1>5
<1>9. Cardinality(RunIds) = Cardinality(A \cup B) + Cardinality(C \cup D)
  <2>1. A \cup B \in SUBSET RunId /\ C \cup D \in SUBSET RunId
    BY <1>4
  <2>2. (A \cup B) \cap (C \cup D) = {}
    BY <1>5
  <2> QED
    BY <1>3, <1>5, <2>1, <2>2
<1>10. /\ Cardinality(RunIds) = Cardinality(A) + Cardinality(B) + Cardinality(C)
                                   + Cardinality(D)
       /\ Cardinality(B) = Cardinality(F) + Cardinality(O)
  BY <1>5, <1>7, <1>8, <1>9
<1> QED
  BY <1>6, <1>10 DEF A, B, C, D, F, O

LEMMA BalanceAgrees ==
  ASSUME TypeOK, Custody, Balance, NEW s \in Ended
  PROVE  /\ Sum(Day, Column(s)) \in Nat
         /\ Cardinality(Having({s})) <= Sum(Day, Column(s))
         /\ Sum(Day, Column(s)) <=
              Cardinality(Having({s})) + (issued - Cardinality(RunIds))
<1> DEFINE total == Sum(Day, Column(s))
<1>1. total \in Nat
  BY ColumnType, DaysAreFew, SumGrows
<1>2. issued \in Nat
  BY BoundsAssumption DEF TypeOK, IdsOK
<1>3. /\ Cardinality(Rows({s})) <= total
      /\ total + Cardinality(Uncounted(s)) <= issued
  BY DEF Balance, Balanced
<1>4. Rows({s}) = Having({s})
  BY RunsPartition
<1> DEFINE Others == {r \in RunIds : runs[r].status # s}
<1>5. /\ Having({s}) \in SUBSET RunId /\ Others \in SUBSET Uncounted(s)
      /\ Uncounted(s) \in SUBSET RunId /\ Others \in SUBSET RunId
      /\ RunIds = Having({s}) \cup Others /\ Having({s}) \cap Others = {}
  <2>1. \A r \in RunIds : r \in RunId /\ r <= issued
    BY <1>2 DEF RunIds, Custody, Hands, RunId
  <2> QED
    BY <2>1 DEF Having, Uncounted, RunIds
<1> HIDE DEF total, Others
<1>6. /\ IsFiniteSet(Having({s})) /\ Cardinality(Having({s})) \in Nat
      /\ IsFiniteSet(Others) /\ Cardinality(Others) \in Nat
      /\ IsFiniteSet(Uncounted(s)) /\ Cardinality(Uncounted(s)) \in Nat
  BY <1>5, RunsAreFew
<1>7. Cardinality(Others) <= Cardinality(Uncounted(s))
  BY <1>5, <1>6, FS_Subset
<1>8. Cardinality(RunIds) = Cardinality(Having({s})) + Cardinality(Others)
  <2>1. Cardinality(Having({s}) \cup Others) =
          Cardinality(Having({s})) + Cardinality(Others)
            - Cardinality(Having({s}) \cap Others)
    BY <1>6, FS_Union
  <2>2. Cardinality(Having({s}) \cap Others) = 0
    BY <1>5, FS_EmptySet, Zenon
  <2> QED
    BY <1>5, <1>6, <2>1, <2>2
<1> QED
  BY <1>1, <1>2, <1>3, <1>4, <1>6, <1>7, <1>8 DEF total

(* The days of the statistics add up to their totals, whatever goroutines, *)
(* crashes and failures did: every run that succeeded or failed is counted *)
(* once, an orphan never, and a deleted run at most once.                  *)
THEOREM StatisticsAddUp == Spec => []StatisticsAgree
<1>1. TypeOK /\ Custody /\ Balance => StatisticsAgree
  <2> SUFFICES ASSUME TypeOK, Custody, Balance PROVE StatisticsAgree
    OBVIOUS
  <2> DEFINE st == OverallStats
             pending == Len(ListRuns(NotGiven, "pending", 0, 0))
             deleted == issued - Cardinality(RunIds)
             days == DailyStats(Min(Day), Max(Day))
             good == FoldSet(LAMBDA d, acc : acc + days[d].succeeded, 0, DOMAIN days)
             bad  == FoldSet(LAMBDA d, acc : acc + days[d].failed, 0, DOMAIN days)
             n(statuses) == Cardinality(Having(statuses))
  <2>1. /\ st.runsTotal = Cardinality(RunIds) /\ st.runsSucceeded = n({"succeeded"})
        /\ st.runsFailed = n({"failed", "orphaned"})
        /\ st.runsOrphaned = n({"orphaned"}) /\ st.runsRunning = n({"running"})
    <3>1. /\ Having({"succeeded"}) = {r \in RunIds : runs[r].status = "succeeded"}
          /\ Having({"orphaned"}) = {r \in RunIds : runs[r].status = "orphaned"}
          /\ Having({"running"}) = {r \in RunIds : runs[r].status = "running"}
          /\ Having({"failed", "orphaned"}) =
               {r \in RunIds : runs[r].status \in {"failed", "orphaned"}}
      BY DEF Having
    <3>2. /\ st.runsTotal = Cardinality(RunIds)
          /\ st.runsSucceeded = Cardinality({r \in RunIds : runs[r].status = "succeeded"})
          /\ st.runsFailed = Cardinality({r \in RunIds : runs[r].status \in {"failed", "orphaned"}})
          /\ st.runsOrphaned = Cardinality({r \in RunIds : runs[r].status = "orphaned"})
          /\ st.runsRunning = Cardinality({r \in RunIds : runs[r].status = "running"})
      BY DEF OverallStats, Quantify
    <3> QED
      BY <3>1, <3>2
  <2>2. /\ Cardinality(RunIds) = n({"succeeded"}) + n({"failed", "orphaned"})
                                   + n({"running"}) + n({"pending"})
        /\ n({"failed", "orphaned"}) = n({"failed"}) + n({"orphaned"})
    BY RunsPartition
  <2>3. pending = n({"pending"})
    BY PendingAreListed
  <2>4. good = Sum(Day, Column("succeeded")) /\ bad = Sum(Day, Column("failed"))
    BY FoldsAreSums
  <2>5. /\ good \in Nat /\ bad \in Nat
        /\ n({"succeeded"}) <= good /\ good <= n({"succeeded"}) + deleted
        /\ n({"failed"}) <= bad /\ bad <= n({"failed"}) + deleted
    BY <2>4, BalanceAgrees DEF Ended
  <2>6. /\ \A S : n(S) \in Nat
        /\ Cardinality(RunIds) \in Nat /\ issued \in Nat
    <3>1. \A S : Having(S) \in SUBSET RunId
      BY DEF Having, RunIds
    <3>2. RunIds \in SUBSET RunId /\ issued \in Nat
      BY BoundsAssumption DEF RunIds, TypeOK, IdsOK
    <3> QED
      BY <3>1, <3>2, RunsAreFew
  <2> HIDE DEF st, pending, good, bad, n
  <2>7. st.runsTotal = st.runsSucceeded + st.runsFailed + st.runsRunning + pending
    BY <2>1, <2>2, <2>3, <2>6
  <2>8. good \in st.runsSucceeded..(st.runsSucceeded + deleted)
    BY <2>1, <2>5, <2>6
  <2>9. bad \in (st.runsFailed - st.runsOrphaned)
                    ..(st.runsFailed - st.runsOrphaned + deleted)
    BY <2>1, <2>2, <2>5, <2>6
  <2> QED
    BY <2>7, <2>8, <2>9 DEF StatisticsAgree, st, pending, days, good, bad
<1> QED
  BY <1>1, TypeCorrect, RunsAreInCustody, BalanceHolds, PTL
=============================================================================
