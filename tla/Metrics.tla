------------------------------ MODULE Metrics ------------------------------
(***************************************************************************)
(* The runtime counters (package metrics) and who touches them: goroutines *)
(* that count what they have just committed, the recovery of main, and     *)
(* readers that serve /metrics and /report.  The totals are atomics; the   *)
(* maps by kind and by status are written and read without the mutex.      *)
(*                                                                         *)
(* A step is one atomic operation, or one half of a map increment: a       *)
(* goroutine that begins m[k]++ has read the entry and is inside the map   *)
(* until it has stored the new value.  When two goroutines are inside one  *)
(* map, the Go runtime may notice (Fatal: no recover catches it) or not,   *)
(* and then one increment may overwrite the other.                         *)
(***************************************************************************)
EXTENDS Integers, FiniteSets, Sequences

CONSTANTS
  Goroutines,  \* the ticker, main and request goroutines that change tables
  Readers,     \* request goroutines that serve /metrics and /report
  MaxRuns,     \* bound: outcomes committed in one life of the process
  MaxEvents    \* bound: tasks, retries and ticks in one life, together

ASSUME MetricsAssumption ==
  /\ IsFiniteSet(Goroutines)
  /\ MaxRuns \in Nat /\ MaxEvents \in Nat

Kinds    == {"noop", "fail"}        \* echo and http are counted as noop is
Statuses == {"succeeded", "failed"} \* RecordRun is never told of orphans
Outcome(k) == IF k = "fail" THEN "failed" ELSE "succeeded"

BugLoadOrder == <<"tasksCreated", "runsSucceeded", "runsFailed", "runsOrphaned",
                  "runsRetried", "dispatches", "runsTotal">>

(* The atomics, in the order in which Snapshot loads them.                 *)
LoadOrder == <<"tasksCreated", "runsTotal", "runsSucceeded", "runsFailed",
               "runsOrphaned", "runsRetried", "dispatches">>

Atomic    == {LoadOrder[i] : i \in DOMAIN LoadOrder}
Announced == {"tasksCreated", "runsRetried"}  \* counted after a commit

VARIABLES
  phase,      \* of the process: down, recovering, serving
  atomics,    \* the counters updated with package atomic
  byKind, byStatus,
  pc,         \* where each goroutine stands between a commit and its counts
  key,        \* the kind of the run a goroutine records
  old,        \* the entry of the map a goroutine is incrementing, as read
  stage,      \* what each reader copies next
  left,       \* map keys it has yet to visit
  snap,       \* the copy it has made so far
  committed,  \* history: outcomes committed in this life, by kind
  announced,  \* history: tasks and retries committed in this life
  pending,    \* retries counted by a recovery that has not committed
  overlapped  \* history: two increments of one map have overlapped

writers == <<atomics, byKind, byStatus, pc, key, old>>
readers == <<stage, left, snap>>
history == <<committed, announced, pending, overlapped>>
vars    == <<phase, writers, readers, history>>

Zero == [f \in Atomic |-> 0]
NoCopy == [atomics |-> Zero, byKind |-> [k \in Kinds |-> 0],
           byStatus |-> [s \in Statuses |-> 0], durable |-> 0]

Recorded == committed["noop"] + committed["fail"]
Events   == announced["tasksCreated"] + announced["runsRetried"] + pending
              + atomics["dispatches"]

(* metrics.New: a process starts with empty counters.                      *)
Fresh ==
  /\ atomics' = Zero
  /\ byKind' = [k \in Kinds |-> 0] /\ byStatus' = [s \in Statuses |-> 0]
  /\ pc' = [g \in Goroutines |-> "idle"]
  /\ key' = [g \in Goroutines |-> "noop"] /\ old' = [g \in Goroutines |-> 0]
  /\ stage' = [r \in Readers |-> "idle"] /\ left' = [r \in Readers |-> {}]
  /\ snap' = [r \in Readers |-> NoCopy]
  /\ committed' = [k \in Kinds |-> 0] /\ announced' = [a \in Announced |-> 0]
  /\ pending' = 0 /\ overlapped' = FALSE

Init ==
  /\ phase = "down"
  /\ atomics = Zero
  /\ byKind = [k \in Kinds |-> 0] /\ byStatus = [s \in Statuses |-> 0]
  /\ pc = [g \in Goroutines |-> "idle"]
  /\ key = [g \in Goroutines |-> "noop"] /\ old = [g \in Goroutines |-> 0]
  /\ stage = [r \in Readers |-> "idle"] /\ left = [r \in Readers |-> {}]
  /\ snap = [r \in Readers |-> NoCopy]
  /\ committed = [k \in Kinds |-> 0] /\ announced = [a \in Announced |-> 0]
  /\ pending = 0 /\ overlapped = FALSE

Add(f) == atomics' = [atomics EXCEPT ![f] = @ + 1]

Goto(g, label) == pc' = [pc EXCEPT ![g] = label]

-----------------------------------------------------------------------------
(* Start-up.  Recover counts each retry before the transaction that creates *)
(* it commits; when that fails, main exits and the count goes with it.     *)

Restart ==
  /\ phase = "down"
  /\ phase' = "recovering"
  /\ UNCHANGED <<writers, readers, history>>

RecoverCounts ==
  /\ phase = "recovering"
  /\ Events < MaxEvents
  /\ Add("runsRetried")
  /\ pending' = pending + 1
  /\ UNCHANGED <<phase, byKind, byStatus, pc, key, old, readers, committed,
                 announced, overlapped>>

RecoverCommits ==
  /\ phase = "recovering"
  /\ phase' = "serving"
  /\ announced' = [announced EXCEPT !["runsRetried"] = @ + pending]
  /\ pending' = 0
  /\ UNCHANGED <<writers, readers, committed, overlapped>>

BugRecoverFails ==  \* logged instead of fatal: the process goes on serving
  /\ phase = "recovering"
  /\ phase' = "serving"
  /\ pending' = 0
  /\ UNCHANGED <<writers, readers, committed, announced, overlapped>>

RecoverFails ==
  /\ phase = "recovering"
  /\ phase' = "down"
  /\ Fresh

-----------------------------------------------------------------------------
(* Goroutines that commit and count.                                       *)

(* ScheduleNew and RetryRunByID commit, then count.                        *)
Announce(g, a) ==
  /\ phase = "serving" /\ pc[g] = "idle"
  /\ Events < MaxEvents
  /\ announced' = [announced EXCEPT ![a] = @ + 1]
  /\ Goto(g, a)
  /\ UNCHANGED <<phase, atomics, byKind, byStatus, key, old, readers,
                 committed, pending, overlapped>>

(* IncTasksCreated and IncRetried.                                         *)
IncAnnounced(g) ==
  /\ pc[g] \in Announced
  /\ Add(pc[g])
  /\ Goto(g, "idle")
  /\ UNCHANGED <<phase, byKind, byStatus, key, old, readers, history>>

(* Tick counts itself before it does anything.                             *)
IncDispatches ==
  /\ phase = "serving"
  /\ Events < MaxEvents
  /\ Add("dispatches")
  /\ UNCHANGED <<phase, byKind, byStatus, pc, key, old, readers, history>>

BugCommit(g, k) ==  \* the ticker is started before recovery is over
  /\ phase # "down" /\ pc[g] = "idle"
  /\ Recorded < MaxRuns
  /\ committed' = [committed EXCEPT ![k] = @ + 1]
  /\ key' = [key EXCEPT ![g] = k]
  /\ Goto(g, "total")
  /\ UNCHANGED <<phase, atomics, byKind, byStatus, old, readers, announced,
                 pending, overlapped>>

(* executeRun has committed the outcome of a run of kind k: RecordRun is   *)
(* next.                                                                   *)
Commit(g, k) ==
  /\ phase = "serving" /\ pc[g] = "idle"
  /\ Recorded < MaxRuns
  /\ committed' = [committed EXCEPT ![k] = @ + 1]
  /\ key' = [key EXCEPT ![g] = k]
  /\ Goto(g, "total")
  /\ UNCHANGED <<phase, atomics, byKind, byStatus, old, readers, announced,
                 pending, overlapped>>

BugRecordTotal(g) ==  \* m.runsTotal++ without package atomic
  /\ pc[g] = "total"
  /\ \E seen \in {atomics["runsTotal"], atomics["runsTotal"] - 1} :
       /\ seen >= 0
       /\ atomics' = [atomics EXCEPT !["runsTotal"] = seen + 1]
  /\ Goto(g, "outcome")
  /\ UNCHANGED <<phase, byKind, byStatus, key, old, readers, history>>

RecordTotal(g) ==
  /\ pc[g] = "total"
  /\ Add("runsTotal")
  /\ Goto(g, "outcome")
  /\ UNCHANGED <<phase, byKind, byStatus, key, old, readers, history>>

RecordOutcome(g) ==
  /\ pc[g] = "outcome"
  /\ Add(IF Outcome(key[g]) = "succeeded" THEN "runsSucceeded" ELSE "runsFailed")
  /\ Goto(g, "byKind")
  /\ UNCHANGED <<phase, byKind, byStatus, key, old, readers, history>>

InKind   == {g \in Goroutines : pc[g] = "inKind"}
InStatus == {g \in Goroutines : pc[g] = "inStatus"}

BeginKind(g) ==
  /\ pc[g] = "byKind"
  /\ old' = [old EXCEPT ![g] = byKind[key[g]]]
  /\ overlapped' = (overlapped \/ InKind # {})
  /\ Goto(g, "inKind")
  /\ UNCHANGED <<phase, atomics, byKind, byStatus, key, readers, committed,
                 announced, pending>>

(* The runtime that notices nothing is taken to lose an increment and no   *)
(* more; two inserts of absent keys might damage the map beyond that.      *)
EndKind(g) ==
  /\ pc[g] = "inKind"
  /\ byKind' = [byKind EXCEPT ![key[g]] = old[g] + 1]
  /\ old' = [old EXCEPT ![g] = 0]
  /\ Goto(g, "byStatus")
  /\ UNCHANGED <<phase, atomics, byStatus, key, readers, history>>

BugBeginStatus(g) ==  \* the entry of another status is incremented
  /\ pc[g] = "byStatus"
  /\ old' = [old EXCEPT ![g] = byStatus["succeeded"]]
  /\ overlapped' = (overlapped \/ InStatus # {})
  /\ Goto(g, "inStatus")
  /\ UNCHANGED <<phase, atomics, byKind, byStatus, key, readers, committed,
                 announced, pending>>

BeginStatus(g) ==
  /\ pc[g] = "byStatus"
  /\ old' = [old EXCEPT ![g] = byStatus[Outcome(key[g])]]
  /\ overlapped' = (overlapped \/ InStatus # {})
  /\ Goto(g, "inStatus")
  /\ UNCHANGED <<phase, atomics, byKind, byStatus, key, readers, committed,
                 announced, pending>>

EndStatus(g) ==
  /\ pc[g] = "inStatus"
  /\ byStatus' = [byStatus EXCEPT ![Outcome(key[g])] = old[g] + 1]
  /\ old' = [old EXCEPT ![g] = 0] /\ key' = [key EXCEPT ![g] = "noop"]
  /\ Goto(g, "idle")
  /\ UNCHANGED <<phase, atomics, byKind, readers, history>>

-----------------------------------------------------------------------------
(* Readers.  Report reads the tables in a transaction of its own before it *)
(* takes its snapshot; handleMetrics takes a snapshot only.                *)

Copying(r, s, l, copy) ==
  /\ stage' = [stage EXCEPT ![r] = s]
  /\ left'  = [left EXCEPT ![r] = l]
  /\ snap'  = [snap EXCEPT ![r] = copy]
  /\ UNCHANGED <<phase, writers, history>>

handleMetrics(r) ==
  /\ phase = "serving" /\ stage[r] = "idle"
  /\ Copying(r, "byKind", Kinds, NoCopy)

Report(r) ==
  /\ phase = "serving" /\ stage[r] = "idle"
  /\ Copying(r, "byKind", Kinds, [NoCopy EXCEPT !.durable = Recorded])

(* A range over a map visits its keys in any order.                        *)
CopyKind(r) ==
  /\ stage[r] = "byKind"
  /\ \E k \in left[r] :
       Copying(r, IF left[r] = {k} THEN "byStatus" ELSE "byKind",
               IF left[r] = {k} THEN Statuses ELSE left[r] \ {k},
               [snap[r] EXCEPT !.byKind[k] = byKind[k]])

CopyStatus(r) ==
  /\ stage[r] = "byStatus"
  /\ \E s \in left[r] :
       Copying(r, IF left[r] = {s} THEN LoadOrder[1] ELSE "byStatus", left[r] \ {s},
               [snap[r] EXCEPT !.byStatus[s] = byStatus[s]])

(* The atomics are loaded one after the other, after the maps.             *)
AfterLoad(f) ==
  LET i == CHOOSE i \in DOMAIN LoadOrder : LoadOrder[i] = f
  IN  IF i = Len(LoadOrder) THEN "done" ELSE LoadOrder[i + 1]

Load(r) ==
  /\ stage[r] \in Atomic
  /\ Copying(r, AfterLoad(stage[r]), {},
             [snap[r] EXCEPT !.atomics[stage[r]] = atomics[stage[r]]])

Answer(r) ==
  /\ stage[r] = "done"
  /\ Copying(r, "idle", {}, NoCopy)

-----------------------------------------------------------------------------
(* Two goroutines are inside one map, or one inside and one visiting it.   *)
Conflict ==
  \/ \E g \in InKind   : \/ \E h \in Goroutines : pc[h] = "byKind"
                          \/ \E r \in Readers : stage[r] = "byKind"
  \/ \E g \in InStatus : \/ \E h \in Goroutines : pc[h] = "byStatus"
                          \/ \E r \in Readers : stage[r] = "byStatus"

(* The runtime notices: concurrent map writes, or iteration and write.     *)
Fatal ==
  /\ Conflict
  /\ phase' = "down"
  /\ Fresh

(* The process ends for another reason.                                    *)
Stop ==
  /\ phase = "serving"
  /\ phase' = "down"
  /\ Fresh

Boot == Restart \/ RecoverCounts \/ RecoverCommits \/ RecoverFails

RecordRun(g) == \/ RecordTotal(g) \/ RecordOutcome(g)
                \/ BeginKind(g) \/ EndKind(g) \/ BeginStatus(g) \/ EndStatus(g)

Count(g) == \/ \E a \in Announced : Announce(g, a)
            \/ IncAnnounced(g)
            \/ \E k \in Kinds : Commit(g, k)
            \/ RecordRun(g)

Snapshot(r) == CopyKind(r) \/ CopyStatus(r) \/ Load(r)

Read(r) == handleMetrics(r) \/ Report(r) \/ Snapshot(r) \/ Answer(r)

Next == \/ Boot
        \/ IncDispatches
        \/ \E g \in Goroutines : Count(g)
        \/ \E r \in Readers : Read(r)
        \/ Fatal
        \/ Stop

Spec == Init /\ [][Next]_vars

-----------------------------------------------------------------------------
At(labels) == {g \in Goroutines : pc[g] \in labels}

(* Goroutines that have yet to count a run of kind k in an atomic.         *)
Owing(k) == {g \in At({"total", "outcome"}) : key[g] = k}

TypeOK ==
  /\ phase \in {"down", "recovering", "serving"}
  /\ atomics \in [Atomic -> Nat]
  /\ byKind \in [Kinds -> Nat] /\ byStatus \in [Statuses -> Nat]
  /\ pc \in [Goroutines -> Announced \cup {"idle", "total", "outcome", "byKind",
                              "inKind", "byStatus", "inStatus"}]
  /\ key \in [Goroutines -> Kinds] /\ old \in [Goroutines -> Nat]
  /\ stage \in [Readers -> Atomic \cup {"idle", "byKind", "byStatus", "done"}]
  /\ left \in [Readers -> SUBSET (Kinds \cup Statuses)]
  /\ snap \in [Readers -> [atomics : [Atomic -> Nat], byKind : [Kinds -> Nat],
                           byStatus : [Statuses -> Nat], durable : Nat]]
  /\ committed \in [Kinds -> Nat] /\ announced \in [Announced -> Nat]
  /\ pending \in Nat /\ overlapped \in BOOLEAN
  /\ phase # "serving" => \A g \in Goroutines : pc[g] = "idle"

(* What was committed and what is counted differ by exactly the goroutines *)
(* between a commit and its counter: concurrent RecordRuns lose no count   *)
(* of an atomic, and a retry counted by a recovery that does not commit is *)
(* not seen by anybody, because the process ends.                          *)
CountersBalance ==
  /\ Recorded = atomics["runsTotal"] + Cardinality(At({"total"}))
  /\ committed["noop"] = atomics["runsSucceeded"] + Cardinality(Owing("noop"))
  /\ committed["fail"] = atomics["runsFailed"] + Cardinality(Owing("fail"))
  /\ announced["tasksCreated"] =
       atomics["tasksCreated"] + Cardinality(At({"tasksCreated"}))
  /\ announced["runsRetried"] + pending =
       atomics["runsRetried"] + Cardinality(At({"runsRetried"}))
  /\ phase = "serving" => pending = 0

(* The maps: a count may be lost, none is invented; and none is lost       *)
(* unless two increments of one map overlapped.                            *)
MapsFollow ==
  LET Late(k) == {g \in At({"total", "outcome", "byKind", "inKind"}) : key[g] = k}
      Later(k) == Late(k) \cup {g \in At({"byStatus", "inStatus"}) : key[g] = k}
  IN  \A k \in Kinds :
        /\ byKind[k] + Cardinality(Late(k)) <= committed[k]
        /\ byStatus[Outcome(k)] + Cardinality(Later(k)) <= committed[k]
        /\ ~overlapped =>
             /\ byKind[k] + Cardinality(Late(k)) = committed[k]
             /\ byStatus[Outcome(k)] + Cardinality(Later(k)) = committed[k]

(* A snapshot is no copy of one moment (SnapshotIsConsistent, below).  What *)
(* a client of /metrics or /report may rely on all the same: the maps never *)
(* add up to more than the total, which was loaded after them; the total   *)
(* and the durable count in front of it are ahead of the later loads by at *)
(* most one run per goroutine.                                             *)
SnapshotBounds ==
  \A r \in Readers : stage[r] = "done" =>
    LET s == snap[r]
        total == s.atomics["runsTotal"]
    IN  /\ s.byKind["noop"] + s.byKind["fail"] <= total
        /\ s.byStatus["succeeded"] + s.byStatus["failed"] <= total
        /\ total <= s.atomics["runsSucceeded"] + s.atomics["runsFailed"]
                      + Cardinality(Goroutines)
        /\ s.durable <= total + Cardinality(Goroutines)

-----------------------------------------------------------------------------
(* Said of the code, and not kept.                                         *)

(* metrics.go: "Snapshot returns a consistent copy of the counters", "a    *)
(* point-in-time copy".  The counters themselves never show more outcomes  *)
(* than runs, because RecordRun adds the total first (CountersBalance); a  *)
(* copy of one moment would not either.                                    *)
SnapshotIsConsistent ==
  \A r \in Readers : stage[r] = "done" =>
    LET copy == snap[r].atomics
    IN  copy["runsSucceeded"] + copy["runsFailed"] <= copy["runsTotal"]

(* metrics.go: the mutex "only guards fields not using atomics below", the *)
(* maps.                                                                   *)
MapsAreGuarded == Cardinality(InKind) <= 1 /\ Cardinality(InStatus) <= 1
=============================================================================
