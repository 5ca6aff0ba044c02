# Verification of gosched

TLA+ models of the task scheduler in `src/` (a Go service: an HTTP API, a
ticker goroutine that dispatches due tasks, SQLite underneath), the TLC runs
that check them on small instances, and TLAPS proofs of what matters most for
every size of instance.

## 1. The system

| component | state | operations | where |
|---|---|---|---|
| domain model | - | `Validate`, `IsDue`, `ComputeNextCron`, `TagsCSV`, `Status` | `internal/model/model.go` |
| store | tables `tasks`, `runs`, `stats_daily`, one connection | one Go method per SQL statement, `BeginTx` | `internal/store` |
| tags | table `tags` (names), column `tasks.tags` (one comma-joined string) | `TagsCSV`, `cleanTag`, the search by `LIKE`, bulk pause | `model.go`, `scheduler.go`, `task_repo.go`, `tag_repo.go` |
| scheduler | nothing of its own: everything is in the tables and in the local variables of goroutines | `ScheduleNew`, `Tick`/`dispatch`, `runOnce`, `executeRun`, `TriggerNow`, `RetryRunByID`, `Recover` | `internal/scheduler` |
| HTTP API | - | 25 routes: create, update, delete, enable, pause, trigger, retry, bulk pause, lists, statistics, preview, report | `internal/api` |
| process life | running or not | `main`: open, recover, start the ticker, serve, stop | `main.go` |
| cron | a parsed expression | `Parse`, `Schedule.Next` | `internal/cron/parser.go` |
| metrics | seven atomics, two maps outside the mutex | `RecordRun`, `Inc...`, `Snapshot` | `internal/metrics` |
| queries | - | lists with filters and paging, statistics, report and health | `internal/store`, `internal/scheduler/report*.go` |
| clock | - | `Now` | `internal/clock` |

How they interact. Each request is served by a goroutine; the ticker is one
more; `main` runs `Recover` before it starts either. They call the scheduler and
the store directly and share nothing but the tables (and the metrics). The
store opens one connection and every `BeginTx` takes it, so a transaction
excludes every other one, and goroutines interleave exactly between
transactions. No operation of the scheduler is one transaction: a dispatch reads
the due tasks in the first, records a running run in the second, its outcome in
the third and the next due time in the fourth, each computed from the rows the
first one read; trigger and retry are three each. Between any two of them
another goroutine may change or delete the rows, the process may die, or the
next transaction may fail.

What is hard, and what makes each part correct:

- **engine**: a run is executed by one goroutine, once; the outcome, the day
  counter and `last_run_at` change together; an outcome is final; a slot is
  dispatched once; recovery finds every run that was running and nothing else;
  retries stay within the budget; a cron task stays armed; every due task is
  served and every running run ends;
- **connection**: no goroutine waits for a transaction of its own, each
  transaction is ended on every path, nobody waits for ever;
- **cron**: the jumps of `Next` skip no match and the search ends;
- **tags**: a task keeps the words it was given through every rewrite of its
  row, a search by tag finds its carriers and nobody else, the table `tags` lists
  what was given at creation, a client that pages misses nothing that stayed;
- **metrics**: no count is lost or invented between a commit and its counters,
  whatever is interleaved; how far the parts of one snapshot may be apart;
- **queries**: the copies of one rule in SQL and in Go (active, due, failed)
  agree, days add up to the totals, pages cover the list.

`PROJECT.json` lists each hazard at its line with the properties that would
catch it.

## 2. Modules

    Model --> Store --> Scheduler --> Engine --> EngineProperties --\
                                        \------> Queries -----------+--> MCEngine
    EngineProperties (INSTANCE RunLedger)
      \--> EngineProofs --> HistoryProofs --> QueriesProofs (with Queries, DataLemmas)
    Connection --> ConnectionProofs
    Metrics --> MCMetrics, MetricsProofs
    Tags --> MCTags, TagsProofs (with DataLemmas)
    Cron --> MCCron, CronProofs (with DataLemmas)
    Listing --> Queries, Tags, DataLemmas

- `Model`: rows of `tasks` and `runs`, request bodies, and the pure decisions
  (`Validate`, `IsDue`, `CanRetry`, `Outcome`). A time is an abstract clock
  reading and 0 means none, as in the code. Names, payloads, tags, timeouts and
  versions are left out: no decision depends on them. The four kinds of task
  are reduced to one that succeeds and one that fails, which is all the default
  executor makes of them.
- `Store`: every SQL statement that changes the three tables, and the two
  queries the engine decides by, as operators from table to table.
- `Scheduler`: the steps of ticker, request goroutines and recovery. A step is
  one transaction with the local computation up to the next `BeginTx`. `pc` and
  `job` are what a goroutine remembers in between: the label is the name of the
  transaction that comes next, `job` is the row it read. `Crash` is the death
  of the process anywhere (a regular shutdown does not wait for a `Tick` either,
  so it is the same step); `TickFails`, `RequestFails` and `RecoverFails` are a
  transaction that fails, with what the code does then: the loop of `Tick` goes
  on, a request is answered with an error, a failed recovery ends the process
  and a failed retry of recovery is ignored. Where the code reads the clock
  outside a transaction the action chooses any reading the clock may have had:
  one since the transaction before (`ranAt`), or since the process began to
  recover or to serve (`since`). Recovery reads it once for each orphan.
- `Engine`: the handlers that change tasks and runs on top of the scheduler, one
  action each, and the whole next-state relation. A request the code refuses
  changes nothing, so its condition is a guard. Fairness is stated here.
- `RunLedger`: the abstract specification. A run is created once, whoever
  creates it owes its execution, an execution is reported at most once and
  counted exactly when reported, an ended run changes no more; a crash or a
  failure can only lose what is owed; recovery writes off all running runs and
  replaces each by at most one new attempt of its own. It knows nothing of goroutines,
  transactions, tasks or clocks.
- `EngineProperties`: the invariants, action and liveness properties of the
  engine, the refinement mapping to `RunLedger`, and in its last section
  statements of the repository the code does not keep.
- `Connection`: who holds the one connection and who waits for it. Operations
  are abstracted to the number of transactions they need one after the other.
  `database/sql` hands a returned connection to any waiter (`Grant`, external).
  It justifies the atomic steps of `Engine` and its fairness.
- `Cron`: parsing of fields, and `Schedule.Next` with one step per iteration of
  its loop, over a calendar of any shape (`MonthDays`, `HoursPerDay`, ...) and in
  zones with one change of offset. `time.Date` and `AddDate` are modelled by
  their algorithm (external): `Date` looks the offset up as if its argument were
  UTC and corrects once.
- `Queries`: the lists of tasks and runs, the statistics and the report, as
  operators on the tables of `Engine`. A handler that only reads is one
  transaction and answers from one state, so there is no action: what two
  readers tell of one state is compared on every state of the engine's runs.
- `Metrics`: a step is one atomic operation, or one half of a map increment
  (read the entry, store it plus one). Goroutines count what they have just
  committed, recovery counts its retries before it commits them, readers copy
  the maps key by key in any order and then the atomics in the order of
  `Snapshot`. When two goroutines are in one map, the Go runtime may end the
  process (`Fatal`) or notice nothing, and then an increment may be lost.
- `Tags`: strings as sequences of characters; `TagsCSV`, `cleanTag` with its slice
  out of range, the column as it is split and joined again, `LIKE` with its
  patterns and its blindness to case; create, update, flags, delete, bulk pause
  as one step each, and a client that pages through the list while they happen.
- `Listing`: what `ORDER BY` makes of a set of rows, for `Queries` and `Tags`.
- `EngineProofs`, `HistoryProofs`, `QueriesProofs`, `ConnectionProofs`, `MetricsProofs`,
  `TagsProofs`, `CronProofs` and the lemmas they share, `DataLemmas`: section 5.

Definitions whose name begins with `Bug` are slips a change to the code could
make. They are used by no specification; substituted for the definition they
stand before, each makes a property fail, which shows that the property
constrains the code.

## 3. Runs

Runs that pass:

| run | instance | what it shows |
|---|---|---|
| `MCEngineCrash` | 1 task (failing once-task or cron task with a retry), 1 request goroutine, 9 runs, time 1..3, 2 requests, 2 crashes, 1 failed transaction | custody of runs, counters, totals, slots (run before they move, and once), budget, armed cron tasks and the ledger under crashes and a failure at every point; the second crash or the failure may also interrupt the recovery from the first, its retries included (1.16 million states) |
| `MCEngineRaces` | 2 tasks, 2 request goroutines, 6 runs, time 1..2, 4 requests of all eight kinds | the same tables under every interleaving of requests with the ticker: updates that rewrite a row, deletions of a task or run in execution; on every state, the lists, pages, statistics and reports of `Queries` (361,000 states) |
| `MCEngineFair` | 2 tasks, 1 request goroutine, 9 runs, 1 crash, 1 failure | with fairness: due tasks are served, running runs end |
| `MCCron` | 5-day years of 2 months, days of 4 hours, 960 expressions of which 324 are accepted, 9 starting moments, UTC, a fixed offset, and two changes of offset east of UTC | nothing is skipped, the search ends, parsed fields are within bounds |
| `MCConnection` | 2 request goroutines, the ticker, up to 2 due tasks per `Tick`, any number of operations | nobody waits for itself, every operation ends |
| `MCMetrics` | 2 goroutines, 1 reader, 3 outcomes of 2 kinds, 1 other event, any number of restarts | commits and counters balance, maps lose a count only when increments overlap and never gain one, what a snapshot may be off by (2.9 million states) |
| `MCTags` | 2 tasks, 2 edits, 5 lists of tags, 3 names, pages of size 1 | words are kept, searches are exact, tidy tags are listed, paging misses nothing that stayed (331,524 states) |

The bounds. One task is enough for crashes: recovery treats each orphan on its
own, and two runs of one task (dispatched and triggered) are the case in which
recovery has two orphans. `MaxRuns` is never short: the requests, the clock and
the crashes of an instance cannot create more runs (with a larger `MaxRuns` the state
space is the same), so `RunLedger` and liveness see no run refused by the bound. Two tasks
are needed for the loop of `Tick` (the first fails or is deleted, the second is
still served) and for deletions; two request goroutines for a retry racing a
trigger, a retry or the ticker. Time 1..3 with days of two readings puts an
execution and its schedule on either side of midnight. Liveness is checked
without symmetry.
Three outcomes in `MCMetrics` let one be recorded before two overlap, of one
kind or of two; a third goroutine would only overlap more. The lists of `MCTags`
have every case the string functions tell apart: a tag that begins another, one
in upper case, a comma with and without a space, spaces at one end, at both,
and nothing else, a duplicate after trimming. Pages of size 1 with two tasks are
the smallest on which a task can move across a page boundary.
The calendar of `MCCron` is small and has what a real one has: months of
different length, weeks that do not divide a month or a year, offsets that are
no whole number of hours. Deadlock is checked in the engine's runs, where the
system may always take a step; a search that returned and a leaked connection
with everybody waiting are real ends, so `MCCron` and `MCConnection` do not
check it.

Fairness. `Engine` assumes that the ticker keeps ticking (`time.Ticker`), that a
request goroutine between two transactions gets its next one (what
`OperationsEnd` of `Connection` shows), that `main` goes through its start-up, and
that a process that died is started again. Clients, failures and the clock are
not fair. `Connection` assumes that the Go scheduler runs every goroutine that
can run, and strong fairness of `Grant`: `database/sql` picks a waiter at random,
so it passes over none for ever. `Cron` assumes the loop goes on.

What is assumed of SQLite: a committed transaction survives the death of the
process, an open one leaves no trace. (With `synchronous(NORMAL)` in WAL mode
the death of the machine may undo the last commits; that is not modelled.)

## 4. Where the code and what is said of it differ

Runs that TLC refutes, with the quoted text in `PROJECT.json`:

- `ClaimAbandonedRetry`: `Recover` commits its retries as pending and executes
  them afterwards. In the trace a first crash leaves a run running, the recovery
  from it commits the retry, and a second crash comes before the execution: the
  retry stays pending for ever, because every later recovery looks for running
  runs only. (The run a request for a retry commits at `scheduler.go:305-318` can be
  abandoned by a single crash in the same way.)
- `ClaimReschedule`: a `next_run_at` set by an update while the task is being
  dispatched is overwritten by the end of the dispatch.
- `ClaimNextReturns`: in a zone west of UTC that sets its clocks back, `nextHour`
  on the repeated hour returns to the instant it came from and `Next` never
  returns (for an expression that excludes that hour). `Tick`, a create request or
  a preview that asks for it hangs.
- `ClaimPreviewAnswered`: the preview of a cron task panics with its transaction
  open (assignment to a nil map, `handlers.go:514`); the connection is lost and every
  later request and tick waits for ever.
- `ClaimBulkPause`: the bulk pause rolls its transaction back before it commits it
  (`handlers.go:533`): the answer tells how many tasks were paused and none is.
  The statement would also miss tasks whose last tag it is (`task_repo.go:210`
  looks for the tag followed by an `x`).

Further disagreements, each with a cfg of its own to be run by hand
(`tlc -config ClaimBudget.cfg MCEngine`, and so on):

- `ClaimBudget` (`RetriesWithinBudget`): the budget is a bound on the length of a
  chain of retries (`AttemptWithinBudget` holds), not on the number of retries: the
  same failed run can be retried any number of times, concurrently or one after
  the other.
- `ClaimCronArmed` (`CronIsArmed`): a once task that ran and is updated to cron has
  `next_run_at` 0 and never runs.
- `ClaimMapsGuarded` (`MapsAreGuarded`, module `MCMetrics`): `metrics.go:23` says the
  mutex guards the fields that are not atomic, and nothing takes it to write the
  maps: two increments of one map overlap, which ends the process or loses one.
- `ClaimSnapshot` (`SnapshotIsConsistent`, module `MCMetrics`): `metrics.go:74` says
  `Snapshot` "returns a consistent copy of the counters" and `metrics.go:61` calls it "a
  point-in-time copy". It loads one counter after the other: a run recorded
  between the load of the total and that of the outcomes gives an answer with
  one success and no run, which the counters showed at no moment. How far apart
  the parts can be is bounded (`SnapshotBounds` holds).

Met while modelling, and stated here without a run of their own:

- failed runs are not put up again by the program (`BENZHI_README.md:12` says
  they are, with backoff): only a request, or recovery of a run left running,
  makes a new attempt, and `BackoffMillis` is never called;
- a run that succeeded, is pending or is executing can be retried too, though
  `scheduler.go:278` speaks of a failed run;
- a run can be inserted for a task that was deleted meanwhile, and the cascade
  of `DeleteTask` (`task_repo.go:84`) misses it;
- a task paused or disabled after the scan of a `Tick` is still dispatched by it;
- orphaned runs never reach the day counters although `RecordRunOutcome` has a
  case for them, and nothing ever counts the column `running` (`stats.go:9-11`);
- `UpdateRunStatus` is given the error of a failed run and does not write it
  (`run_repo.go:111-115`): the column `error` stays empty;
- in a zone that changes its offset by half an hour, `nextHour` adds an hour to an
  hour that was cut short: from 02:30, what clocks show after going forward from
  02:00, it lands on 03:30 and a match at 03:00 to 03:29 is skipped;
- east of UTC, when clocks go forward at midnight, `nextDay` starts days at 01:00
  and a match at 00:xx of a following day can be skipped; west of UTC such a change
  can make `nextDay` return to where it started;
- a tag with a comma is a tag only until the task is updated in any way: `"b"` and
  `"a,b"` are stored as `b,a,b`, read as three tags and written back as `b,a`. `"a, b"`
  is not found by `b` until such a rewrite;
- `cleanTag` takes a character off both ends as long as either is a space: `" ops"`
  becomes `op` in the table `tags`, and a tag of a single space panics: the client
  gets a 500 and the creation is rolled back;
- tags given by an update do not reach the table `tags`; a search by tag ignores
  case, except for a task whose only tag it is;
- the list of runs exchanges limit and offset (`run_repo.go:86`): the page at offset
  k * limit has up to k * limit runs from position limit on. Reading up to the
  number of runs covers them all (`PagesCoverRuns`), but a client that stops at
  the first short page may never meet one;
- the list with `status=paused` includes disabled tasks that are paused, whose own
  answer says `disabled`; orphans are failures in the totals and not in the days,
  and the health check adds them twice, which no answer shows;
- retries of recovery are counted before they commit; since a recovery that does
  not commit ends the process, nobody sees such a count (`CountersBalance`).

## 5. Proofs

Checked by `tlapm`, for every value of the constants that satisfies the named
assumptions (`BoundsAssumption`, `CronAssumption`, `NoRowAssumption`,
`SchedulerAssumption`, `NoJobAssumption`, `EngineAssumption`,
`ConnectionAssumption`, `MetricsAssumption`, `TagsAssumption`, `CalendarAssumption`,
`ZonesAssumption`, `ExprsAssumption`): any number of tasks, request goroutines,
runs, requests, crashes and failures, any alphabet, tags, pages, calendar and
expressions. `TagsAssumption` says of the alphabet that it has a comma and a
space, that the comma is no letter (only ASCII letters are folded by `LIKE`) and
that `Nil` is no string; the others give constants their types.

- `EngineProofs!TypeCorrect`: `Spec => []TypeOK`. `TypeOK` is inductive by itself.
  The work is in three places: the rows written by handlers are valid because of
  `Validate`, the clock readings carried between transactions stay between 1 and
  `now`, and the ids recovery gives out are fresh (`RetryIdsAreFresh`: an
  injection into `issued+1 .. issued+n`).
- `EngineProofs!RunsAreInCustody`: `Spec => []Custody`. Its conjunct `Hands` (no
  two goroutines hold one run, and nobody holds one that ended) is not inductive:
  a recovery could orphan, or retry, a run that a goroutine still holds. It needs
  `Stages`: goroutines are at work only while the process serves, the list of
  retries is non-empty only while it retries. With `TypeOK` the two are
  inductive. The proof groups the actions by what they do to custody: letting
  go (`LettingGo`), taking hold of a new run (`TakingHold`), executing
  (`ExecuteTouchesOne`), recovery (`RecoveryTakesHold`), and steps that touch
  neither (`StepsAside`).
- `EngineProofs!OutcomesAreFinal`: `Spec => TerminalIsFinal`, from `Custody`:
  `executeRun` rewrites only the row it holds, which has not ended, and recovery
  rewrites only running rows.
- `EngineProofs!RunningRunsAreOwned`: `Spec => []LiveRunHasOwner`, with `TypeOK`
  and `Custody` as the strengthening.
- `EngineProofs!EngineKeepsTheLedger`: `Spec => ImplementsLedger`, the refinement
  itself. Under the mapping (`Life`: where a run stands, by `issued` and its row;
  `Owed`: the runs in somebody's hands; `Tally`: the two counters of a day added)
  every step is one step of the ledger: an insertion is `Create`, the transaction
  of `executeRun` is `Report`, recovery is `WriteOff`, crashes and failures are
  `Lose`, and every other step is `Delete` of a set of runs, mostly the empty one.
  `Custody` is what makes it go through: an execution reports a run that is owed
  once, and recovery finds nobody owing. `RetriesTakeNewIds` shows that the retries
  take exactly the ids `issued+1 .. issued+n`, so no id is used up in between.
- `HistoryProofs!AttemptsAreBounded`: `Spec => []AttemptWithinBudget`, and
  `HistoryProofs!CronTasksStayArmed`: `Spec => []CronStaysArmed`. First two
  classifications that the rest cites instead of the twenty actions: what one
  step may do to a row of `tasks` (`TaskChanges`) and to a row of `runs`
  (`RunChanges`). The properties speak of tables, but the rows written are those a
  goroutine read one or two transactions ago, so the invariant (`Records`) has
  `Known` (every id in a table or in hand was given out, so a new task meets no
  old run), `Agreement` (a row in hand has the spec and budget of the table's; only
  an update could break it, which both properties exclude) and `Granted` (a
  request about to insert a retry still has the budget it checked). A cron task is
  armed on the match after a moment that has come, so no match still ahead is
  leapt over; that none is dispatched twice is `OneRunPerSlot`.
- `HistoryProofs!LastRunsAreRuns`: `Spec => []LastRunIsARun`, and
  `HistoryProofs!CountersAreExact`: `Spec => []CountersMatchRows`. The invariant
  (`History`) adds that every carried run agrees with its row in task and time
  (`Traces`) and that the ticker about to move a slot has an ended run behind it
  (`TickerTraces`): without them `SetNextRun` could write a time no run has. The
  counters are cardinalities of sets of rows; one execution adds one element to
  one of them, deletions only take away.
- `HistoryProofs!SlotsAreRun`: `Spec => SlotIsRunBeforeItMoves`, from `Slots`: a tick has
  at most one row per task, all due (`OnceDue`), the rows show the slot that is still
  in the table (`Current`), the run in flight is recorded under it
  (`FlightIsRecorded`), and slots lie in the past (`SlotsArePast`), so the next one,
  which is strictly later, is new.
- `HistoryProofs!SlotsRunOnce`: `Spec => []OneRunPerSlot`. A slot has at most as many
  runs as there were crashes and failures, plus one unless it may be dispatched
  right now (`AllDispatched`). A dispatch uses up that reserve, and only a crash or
  a failure gives it back.
- `ConnectionProofs!NobodyWaitsForItself`: `Spec => []NoSelfWait`, with the types of
  `holder` and `stage`.
- `MetricsProofs!TypesHold`: `Spec => []TypeOK`, inductive by itself (its last conjunct,
  that goroutines count only while the process serves, is what `Fresh` and
  recovery need), and `MetricsProofs!CountersAreBalanced`:
  `Spec => []CountersBalance`. Each equation counts the goroutines that stand in one
  place; a step moves one goroutine, which takes one element from one set
  and adds one to another (`OneOverToTheOther`), while a counter goes up by one.
- `MetricsProofs!MapsAreFollowed`: `Spec => []MapsFollow`. `MapsInv` makes it inductive:
  what a goroutine inside a map has read is bounded by the same difference as the
  entry itself (`ReadBehind`), although the entry may have fallen below it since, so
  what it stores is bounded too; and it is alone inside unless increments
  overlapped (`OneInside`).
- `MetricsProofs!SnapshotsAreBounded`: `Spec => []SnapshotBounds`. What is copied of a
  kind is bounded by the runs of that kind the total has counted (`Counted`), which
  only grow (`Grown`) until the total, their sum, is loaded (`EarlyCopy`, `LateCopy`);
  the total is then bounded by the outcomes loaded later, but for one run per
  goroutine (`Outcomes`).

- `QueriesProofs!EveryReaderAgrees`: `Spec => []ReadersAgree`. Identifiers may come from an
  infinite set, but those given out are finitely many (`FewTasks`), so the tables
  have cardinalities; the classes of tasks by status then split them.
- `QueriesProofs!PagesTogetherCoverRuns`: `Spec => []PagesCoverRuns`. A list in order is
  a function onto the set it lists (`ListingByRank`: the place of an element is the
  number of those before it), so that a page is a stretch of places, and what the
  pages up to the k-th hold is a beginning of the list, by induction over k.
- `QueriesProofs!StatisticsAddUp`: `Spec => []StatisticsAgree`. The inductive
  invariant is `Balance`, for each status of an ended run: the sum over the days is
  at least the rows of that status and leaves room for the ids that are not
  counted under it (`Uncounted`: owed, or ended otherwise). One execution adds one
  to one day, hence to the sum (`SumGrows`), and takes one id out.
- `TagsProofs!WordsSurvive`, `CarriersAreFound`, `OnlyCarriersAreFound`:
  `Spec => []KeepsTheWords`, `[]FoundByTag`, `[]FindsOnlyCarriers`. Strings are compared by
  their tokens, the stretches between commas without the spaces around them
  (`Tokens`). Trimming keeps tokens, splitting separates them, joining collects
  them, so a row is `Kept`: its column is a join of words, and the column's tokens
  are the words given. A row stays `Kept` when it is read and written again. The four
  patterns of the search are exactly the four places a piece may have between
  commas; that the comma is no letter keeps `LIKE` from confusing a boundary.
- `TagsProofs!CreatedTagsAreListed`: `Spec => []TidyTagsAreListed`, inductive with the
  types. `TagsProofs!TypeCorrect`: `Spec => []TypeOK`.
- `TagsProofs!PagesMissFew`: `Spec => []PagesMissNothing`. While a client is between two
  pages, of the tasks that stayed and that it has not seen, no more stand before
  its next page than have left the list (`Watched`). New tasks push the others
  backwards, one that leaves moves at most one over the boundary (`FewMoveAhead`).
  Before it was proved, `Kept` and `Watched` were checked with TLC as invariants of
  the instance of `MCTags`.
- `CronProofs!TypeCorrect`: `Spec => []TypeOK`, for all zones and calendars: a part that
  is accepted has a value, and all of them lie between its bounds.
- `CronProofs!NothingIsSkipped`: `Spec => []NothingSkipped`, in any calendar and for any
  schedules, provided every zone is `Orderly`: it never changes its offset, or
  changes it by one hour at a full hour, with no midnight left out or shown twice.
  The hypothesis stands in the theorem and is needed: in other zones the code does
  skip (section 4). TLC evaluates it on the zones of the runs. The argument: months,
  days and hours are blocks of consecutive local minutes in which the field does
  not change (`MonthBlock`, `DayBlock`, `HourBlock`, from the recursive `DaysBefore`,
  whose values exist, grow and divide the year by induction: `DaysBeforeRuns`,
  `OneMonth`). A local time both offsets agree on being before or after the change
  is `Clear`: `Date` is exact there (`DateOfClear`), and from within a block that
  begins and ends clear, clocks do not leave it before its end (`BlockIsKept`).
  Midnights are clear; the hour about the change is not, and is gone through by
  cases (`HourIsKept`).
- `CronProofs!JumpsGoForward`: in orderly zones that never set their clocks back to an
  offset below zero (`Advances`), every iteration that does not return has `t' > t`. It is the step
  on which `NextReturns` rests. Without `Advances` it is false, in exactly the case
  `ClaimNextReturns` shows.

Every invariant and every action property that a passing run checks is thus
proved. Some promise something only as long as nothing is edited
(`AttemptWithinBudget`, `CronStaysArmed`, `OneRunPerSlot`) or deleted (`LastRunIsARun`,
the equality in `CountersMatchRows`) or both (`SlotIsRunBeforeItMoves`): that is what
the code keeps, and their comments say so.

Induction over data. `DataLemmas!Induction` states it with a set instead of an
operator (a set of numbers that has 0 and with n also n + 1 has all), and rests on
the well-foundedness of `<` on the numbers. With it recursive functions are shown
to exist and folds and sums to be what they are meant to be (`FoldsExist`,
`FoldIsARun`, `SumsExist`, `SumIsUnique`).

Model-checked only: the liveness properties (`DueTaskIsServed`, `RunningRunEnds`,
`OperationsEnd`, `NextReturns`), since fairness needs ENABLED. Nothing is claimed of
the jumps of `Next` in zones that are not orderly.

## 6. Not modelled

- answers to requests other than what `Queries`, `Metrics`, `Tags` and `Connection` say
  of them; in particular the dropped error of a commit that fails
  (`handlers.go:224`): the tables are right, the client is told otherwise;
- reads of a single row, the list of tag names, the preview's answer for a task
  that is not cron, and the health check of the report, which no reachable state
  fails (`report_health.go`: it compares counts of a set with counts of its parts);
- what the Go runtime may do to a map beyond losing an increment when two
  goroutines insert absent keys and it does not notice; the three kinds of task
  that succeed are one key of `byKind`;
- tasks created in the same millisecond: `ORDER BY created_at` (`task_repo.go:132`)
  leaves their order open, and a client that pages could see one of them twice
  and the other not at all; `Tags` takes the moments of creation to be distinct;
- payloads, outputs and error texts of runs;
- numbers of 64 bits that wrap: the delay of a task (`delay_seconds * 1000` wraps
  from 292 million years on), and `BackoffMillis`, which nothing calls;
- `%` and `_` in tags, which `LIKE` would interpret;
- the admin token, logging, flags, JSON, text of cron fields;
- leap days, and offsets that change more than once;
- `FakeClock` and the smoke test, which are not part of the service;
- clocks that go back: `time.Now` is taken to move forward.

## 7. What is left

In the order in which it would add most:

1. Answers: a client's view of its requests, for the commits whose error is
   dropped and for the retry that is refused after another was granted.
2. What `NextReturns` and `OperationsEnd` rest on, as far as it goes without ENABLED:
   a measure that every step of an operation lowers.
3. A second change of offset in `Cron`, and leap days.
