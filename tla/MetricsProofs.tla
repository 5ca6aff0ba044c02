--------------------------- MODULE MetricsProofs ---------------------------
(***************************************************************************)
(* Whatever the interleaving, the atomics of Metrics never lose a count:   *)
(* type correctness first, then the balance of counters and goroutines.    *)
(***************************************************************************)
EXTENDS Metrics, FiniteSetTheorems, TLAPS

Labels == Announced \cup {"idle", "total", "outcome", "byKind", "inKind",
                          "byStatus", "inStatus"}
Stages == Atomic \cup {"idle", "byKind", "byStatus", "done"}
Copies == [atomics : [Atomic -> Nat], byKind : [Kinds -> Nat],
           byStatus : [Statuses -> Nat], durable : Nat]

(* TypeOK in two halves: the goroutines with the counters and histories,   *)
(* and the readers.                                                        *)
WritersOK ==
  /\ phase \in {"down", "recovering", "serving"}
  /\ atomics \in [Atomic -> Nat]
  /\ byKind \in [Kinds -> Nat] /\ byStatus \in [Statuses -> Nat]
  /\ pc \in [Goroutines -> Labels]
  /\ key \in [Goroutines -> Kinds] /\ old \in [Goroutines -> Nat]
  /\ committed \in [Kinds -> Nat] /\ announced \in [Announced -> Nat]
  /\ pending \in Nat /\ overlapped \in BOOLEAN
  /\ phase # "serving" => \A g \in Goroutines : pc[g] = "idle"

ReadersOK ==
  /\ stage \in [Readers -> Stages]
  /\ left \in [Readers -> SUBSET (Kinds \cup Statuses)]
  /\ snap \in [Readers -> Copies]

LEMMA TypeIsBoth == /\ TypeOK <=> WritersOK /\ ReadersOK
                    /\ TypeOK' <=> WritersOK' /\ ReadersOK'
BY DEF TypeOK, WritersOK, ReadersOK, Labels, Stages, Copies

LEMMA AtomicNames ==
  Atomic = {"tasksCreated", "runsTotal", "runsSucceeded", "runsFailed",
            "runsOrphaned", "runsRetried", "dispatches"}
<1>1. DOMAIN LoadOrder = 1..7
  BY DEF LoadOrder
<1> QED
  BY <1>1 DEF Atomic, LoadOrder

LEMMA AfterLoadIsAStage ==
  ASSUME NEW f \in Atomic
  PROVE  AfterLoad(f) \in Stages
<1>1. DOMAIN LoadOrder = 1..7 /\ Len(LoadOrder) = 7
  BY DEF LoadOrder
<1>2. PICK i \in 1..7 : i = CHOOSE j \in DOMAIN LoadOrder : LoadOrder[j] = f
  BY <1>1 DEF Atomic
<1>3. i # 7 => i + 1 \in DOMAIN LoadOrder
  BY <1>1
<1> QED
  BY <1>1, <1>2, <1>3 DEF AfterLoad, Atomic, Stages

LEMMA NoCopyType == NoCopy \in Copies /\ Zero \in [Atomic -> Nat]
<1>1. Zero \in [Atomic -> Nat]
  BY DEF Zero
<1> QED
  BY <1>1 DEF NoCopy, Copies

LEMMA FreshTypes ==
  ASSUME Fresh, phase' = "down"
  PROVE  TypeOK'
<1>1. WritersOK'
  <2>1. pc' \in [Goroutines -> Labels]
    BY DEF Fresh, Labels
  <2>2. key' \in [Goroutines -> Kinds]
    BY DEF Fresh, Kinds
  <2> QED
    BY <2>1, <2>2, NoCopyType DEF Fresh, WritersOK
<1>2. ReadersOK'
  BY NoCopyType DEF Fresh, ReadersOK, Stages
<1> QED
  BY <1>1, <1>2, TypeIsBoth

LEMMA TypesStart == Init => TypeOK
<1> SUFFICES ASSUME Init PROVE TypeOK
  OBVIOUS
<1>1. WritersOK
  <2>1. pc \in [Goroutines -> Labels]
    BY DEF Init, Labels
  <2>2. key \in [Goroutines -> Kinds]
    BY DEF Init, Kinds
  <2> QED
    BY <2>1, <2>2, NoCopyType DEF Init, WritersOK
<1>2. ReadersOK
  BY NoCopyType DEF Init, ReadersOK, Stages
<1> QED
  BY <1>1, <1>2, TypeIsBoth

LEMMA AddTypes ==
  ASSUME WritersOK, NEW f \in Atomic, Add(f)
  PROVE  atomics' \in [Atomic -> Nat]
BY DEF WritersOK, Add

LEMMA GotoTypes ==
  ASSUME WritersOK, NEW g \in Goroutines, NEW l \in Labels, Goto(g, l),
         phase = "serving", UNCHANGED phase
  PROVE  /\ pc' \in [Goroutines -> Labels]
         /\ phase' # "serving" => \A h \in Goroutines : pc'[h] = "idle"
BY DEF WritersOK, Goto

LEMMA ReadersKeepTypes == ReadersOK /\ UNCHANGED readers => ReadersOK'
BY DEF ReadersOK, readers

LEMMA BootTypes == TypeOK /\ Boot => TypeOK'
<1> SUFFICES ASSUME WritersOK, ReadersOK, Boot PROVE TypeOK'
  BY TypeIsBoth
<1>1. CASE Restart
  <2>1. WritersOK'
    BY <1>1 DEF Restart, WritersOK, writers, history
  <2> QED
    BY <1>1, <2>1, ReadersKeepTypes, TypeIsBoth DEF Restart
<1>2. CASE RecoverCounts
  <2>1. atomics' \in [Atomic -> Nat]
    BY <1>2, AddTypes, AtomicNames DEF RecoverCounts
  <2>2. WritersOK'
    BY <1>2, <2>1 DEF RecoverCounts, WritersOK
  <2> QED
    BY <1>2, <2>2, ReadersKeepTypes, TypeIsBoth DEF RecoverCounts
<1>3. CASE RecoverCommits
  <2>1. announced' \in [Announced -> Nat]
    <3>1. announced["runsRetried"] + pending \in Nat
      BY DEF WritersOK, Announced
    <3> QED
      BY <1>3, <3>1 DEF RecoverCommits, WritersOK
  <2>2. WritersOK'
    BY <1>3, <2>1 DEF RecoverCommits, WritersOK, writers
  <2> QED
    BY <1>3, <2>2, ReadersKeepTypes, TypeIsBoth DEF RecoverCommits
<1>4. CASE RecoverFails
  BY <1>4, FreshTypes DEF RecoverFails
<1> QED
  BY <1>1, <1>2, <1>3, <1>4 DEF Boot

LEMMA CountTypes ==
  ASSUME WritersOK, ReadersOK, NEW g \in Goroutines, Count(g)
  PROVE  TypeOK'
<1>0. g \in Goroutines /\ pc[g] # "idle" => phase = "serving"
  BY DEF WritersOK
<1> SUFFICES WritersOK' /\ ReadersOK'
  BY TypeIsBoth
<1>1. ASSUME NEW a \in Announced, Announce(g, a) PROVE WritersOK' /\ ReadersOK'
  <2>1. announced' \in [Announced -> Nat]
    BY <1>1 DEF Announce, WritersOK
  <2>2. a \in Labels
    BY DEF Labels
  <2>3. WritersOK'
    BY <1>1, <2>1, <2>2, GotoTypes DEF Announce, WritersOK
  <2> QED
    BY <1>1, <2>3, ReadersKeepTypes DEF Announce
<1>2. CASE IncAnnounced(g)
  <2>1. pc[g] \in Atomic /\ phase = "serving"
    BY <1>0, <1>2, AtomicNames DEF IncAnnounced, Announced
  <2>2. atomics' \in [Atomic -> Nat]
    BY <1>2, <2>1, AddTypes DEF IncAnnounced
  <2>3. "idle" \in Labels
    BY DEF Labels
  <2>4. WritersOK'
    BY <1>2, <2>1, <2>2, <2>3, GotoTypes DEF IncAnnounced, WritersOK, history
  <2> QED
    BY <1>2, <2>4, ReadersKeepTypes DEF IncAnnounced
<1>3. ASSUME NEW k \in Kinds, Commit(g, k) PROVE WritersOK' /\ ReadersOK'
  <2>1. committed' \in [Kinds -> Nat] /\ key' \in [Goroutines -> Kinds]
    BY <1>3 DEF Commit, WritersOK
  <2>2. "total" \in Labels
    BY DEF Labels
  <2>3. WritersOK'
    BY <1>3, <2>1, <2>2, GotoTypes DEF Commit, WritersOK
  <2> QED
    BY <1>3, <2>3, ReadersKeepTypes DEF Commit
<1>4. CASE RecordTotal(g)
  <2>1. atomics' \in [Atomic -> Nat]
    BY <1>4, AddTypes, AtomicNames DEF RecordTotal
  <2>2. "outcome" \in Labels /\ phase = "serving"
    BY <1>0, <1>4 DEF Labels, RecordTotal
  <2>3. WritersOK'
    BY <1>4, <2>1, <2>2, GotoTypes DEF RecordTotal, WritersOK, history
  <2> QED
    BY <1>4, <2>3, ReadersKeepTypes DEF RecordTotal
<1>5. CASE RecordOutcome(g)
  <2>1. atomics' \in [Atomic -> Nat]
    BY <1>5, AddTypes, AtomicNames DEF RecordOutcome
  <2>2. "byKind" \in Labels /\ phase = "serving"
    BY <1>0, <1>5 DEF Labels, RecordOutcome
  <2>3. WritersOK'
    BY <1>5, <2>1, <2>2, GotoTypes DEF RecordOutcome, WritersOK, history
  <2> QED
    BY <1>5, <2>3, ReadersKeepTypes DEF RecordOutcome
<1>6. CASE BeginKind(g)
  <2>1. old' \in [Goroutines -> Nat]
    BY <1>6 DEF BeginKind, WritersOK
  <2>2. "inKind" \in Labels /\ phase = "serving"
    BY <1>0, <1>6 DEF Labels, BeginKind
  <2>3. overlapped' \in BOOLEAN
    BY <1>6 DEF BeginKind
  <2>4. WritersOK'
    BY <1>6, <2>1, <2>2, <2>3, GotoTypes DEF BeginKind, WritersOK
  <2> QED
    BY <1>6, <2>4, ReadersKeepTypes DEF BeginKind
<1>7. CASE EndKind(g)
  <2>1. old' \in [Goroutines -> Nat] /\ byKind' \in [Kinds -> Nat]
    <3>1. old[g] + 1 \in Nat
      BY DEF WritersOK
    <3> QED
      BY <1>7, <3>1 DEF EndKind, WritersOK
  <2>2. "byStatus" \in Labels /\ phase = "serving"
    BY <1>0, <1>7 DEF Labels, EndKind
  <2>3. WritersOK'
    BY <1>7, <2>1, <2>2, GotoTypes DEF EndKind, WritersOK, history
  <2> QED
    BY <1>7, <2>3, ReadersKeepTypes DEF EndKind
<1>8. CASE BeginStatus(g)
  <2>1. Outcome(key[g]) \in Statuses
    BY DEF Outcome, Statuses
  <2>2. old' \in [Goroutines -> Nat]
    BY <1>8, <2>1 DEF BeginStatus, WritersOK
  <2>3. "inStatus" \in Labels /\ phase = "serving"
    BY <1>0, <1>8 DEF Labels, BeginStatus
  <2>4. overlapped' \in BOOLEAN
    BY <1>8 DEF BeginStatus
  <2>5. WritersOK'
    BY <1>8, <2>2, <2>3, <2>4, GotoTypes DEF BeginStatus, WritersOK
  <2> QED
    BY <1>8, <2>5, ReadersKeepTypes DEF BeginStatus
<1>9. CASE EndStatus(g)
  <2>1. old' \in [Goroutines -> Nat] /\ byStatus' \in [Statuses -> Nat]
    <3>1. old[g] + 1 \in Nat
      BY DEF WritersOK
    <3> QED
      BY <1>9, <3>1 DEF EndStatus, WritersOK
  <2>2. key' \in [Goroutines -> Kinds]
    BY <1>9 DEF EndStatus, WritersOK, Kinds
  <2>3. "idle" \in Labels /\ phase = "serving"
    BY <1>0, <1>9 DEF Labels, EndStatus
  <2>4. WritersOK'
    BY <1>9, <2>1, <2>2, <2>3, GotoTypes DEF EndStatus, WritersOK, history
  <2> QED
    BY <1>9, <2>4, ReadersKeepTypes DEF EndStatus
<1> QED
  BY <1>1, <1>2, <1>3, <1>4, <1>5, <1>6, <1>7, <1>8, <1>9 DEF Count, RecordRun

LEMMA CopyingTypes ==
  ASSUME WritersOK, ReadersOK, NEW r \in Readers, NEW s \in Stages,
         NEW l \in SUBSET (Kinds \cup Statuses), NEW copy \in Copies,
         Copying(r, s, l, copy)
  PROVE  TypeOK'
<1>1. WritersOK'
  BY DEF WritersOK, Copying, writers, history
<1>2. ReadersOK'
  BY DEF ReadersOK, Copying
<1> QED
  BY <1>1, <1>2, TypeIsBoth

LEMMA ReadTypes ==
  ASSUME WritersOK, ReadersOK, NEW r \in Readers, Read(r)
  PROVE  TypeOK'
<1>0. snap[r] \in Copies /\ left[r] \in SUBSET (Kinds \cup Statuses)
  BY DEF ReadersOK
<1>1. CASE handleMetrics(r)
  BY <1>1, CopyingTypes, NoCopyType DEF handleMetrics, Stages
<1>2. CASE Report(r)
  <2>1. Recorded \in Nat
    BY DEF Recorded, WritersOK, Kinds
  <2>2. [NoCopy EXCEPT !.durable = Recorded] \in Copies
    BY <2>1, NoCopyType DEF Copies
  <2> QED
    BY <1>2, <2>2, CopyingTypes DEF Report, Stages
<1>3. CASE CopyKind(r)
  <2>1. PICK k \in left[r] :
          Copying(r, IF left[r] = {k} THEN "byStatus" ELSE "byKind",
                  IF left[r] = {k} THEN Statuses ELSE left[r] \ {k},
                  [snap[r] EXCEPT !.byKind[k] = byKind[k]])
    BY <1>3 DEF CopyKind
  <2>2. [snap[r] EXCEPT !.byKind[k] = byKind[k]] \in Copies
    <3>1. [snap[r].byKind EXCEPT ![k] = byKind[k]] \in [Kinds -> Nat]
      BY <1>0 DEF Copies, WritersOK
    <3> QED
      BY <1>0, <3>1 DEF Copies
  <2>3. (IF left[r] = {k} THEN "byStatus" ELSE "byKind") \in Stages
    BY DEF Stages
  <2>4. (IF left[r] = {k} THEN Statuses ELSE left[r] \ {k})
          \in SUBSET (Kinds \cup Statuses)
    BY <1>0
  <2> QED
    BY <2>1, <2>2, <2>3, <2>4, CopyingTypes
<1>4. CASE CopyStatus(r)
  <2>1. PICK s \in left[r] :
          Copying(r, IF left[r] = {s} THEN LoadOrder[1] ELSE "byStatus",
                  left[r] \ {s}, [snap[r] EXCEPT !.byStatus[s] = byStatus[s]])
    BY <1>4 DEF CopyStatus
  <2>2. [snap[r] EXCEPT !.byStatus[s] = byStatus[s]] \in Copies
    <3>1. [snap[r].byStatus EXCEPT ![s] = byStatus[s]] \in [Statuses -> Nat]
      BY <1>0 DEF Copies, WritersOK
    <3> QED
      BY <1>0, <3>1 DEF Copies
  <2>3. LoadOrder[1] \in Atomic
    BY AtomicNames DEF LoadOrder
  <2>4. (IF left[r] = {s} THEN LoadOrder[1] ELSE "byStatus") \in Stages
    BY <2>3 DEF Stages
  <2>5. left[r] \ {s} \in SUBSET (Kinds \cup Statuses)
    BY <1>0
  <2> QED
    BY <2>1, <2>2, <2>4, <2>5, CopyingTypes
<1>5. CASE Load(r)
  <2>1. stage[r] \in Atomic /\ AfterLoad(stage[r]) \in Stages
    BY <1>5, AfterLoadIsAStage DEF Load
  <2>2. [snap[r] EXCEPT !.atomics[stage[r]] = atomics[stage[r]]] \in Copies
    <3>1. [snap[r].atomics EXCEPT ![stage[r]] = atomics[stage[r]]]
            \in [Atomic -> Nat]
      BY <1>0, <2>1 DEF Copies, WritersOK
    <3> QED
      BY <1>0, <3>1 DEF Copies
  <2> QED
    BY <1>5, <2>1, <2>2, CopyingTypes DEF Load
<1>6. CASE Answer(r)
  BY <1>6, CopyingTypes, NoCopyType DEF Answer, Stages
<1> QED
  BY <1>1, <1>2, <1>3, <1>4, <1>5, <1>6 DEF Read, Snapshot

LEMMA TypesStep == TypeOK /\ [Next]_vars => TypeOK'
<1> SUFFICES ASSUME TypeOK, WritersOK, ReadersOK, [Next]_vars PROVE TypeOK'
  BY TypeIsBoth
<1>1. CASE Boot
  BY <1>1, BootTypes
<1>2. CASE IncDispatches
  <2>1. atomics' \in [Atomic -> Nat]
    BY <1>2, AddTypes, AtomicNames DEF IncDispatches
  <2>2. WritersOK'
    BY <1>2, <2>1 DEF IncDispatches, WritersOK, history
  <2> QED
    BY <1>2, <2>2, ReadersKeepTypes, TypeIsBoth DEF IncDispatches
<1>3. ASSUME NEW g \in Goroutines, Count(g) PROVE TypeOK'
  BY <1>3, CountTypes
<1>4. ASSUME NEW r \in Readers, Read(r) PROVE TypeOK'
  BY <1>4, ReadTypes
<1>5. CASE Fatal \/ Stop
  BY <1>5, FreshTypes DEF Fatal, Stop
<1>6. CASE UNCHANGED vars
  BY <1>6 DEF vars, writers, readers, history, TypeOK
<1> QED
  BY <1>1, <1>2, <1>3, <1>4, <1>5, <1>6 DEF Next

(* Whatever is interleaved and however often the process ends, the         *)
(* counters are numbers and nobody counts before the program serves.       *)
THEOREM TypesHold == Spec => []TypeOK
<1> QED
  BY TypesStart, TypesStep, PTL DEF Spec

-----------------------------------------------------------------------------
(* Goroutines counted by where they stand.                                 *)

LEMMA OneMore ==
  ASSUME NEW S \in SUBSET Goroutines, NEW g \in Goroutines
  PROVE  /\ Cardinality(S) \in Nat
         /\ g \notin S => Cardinality(S \cup {g}) = Cardinality(S) + 1
         /\ g \in S => Cardinality(S \ {g}) = Cardinality(S) - 1
<1>1. IsFiniteSet(S)
  BY MetricsAssumption, FS_Subset
<1> QED
  BY <1>1, FS_CardinalityType, FS_AddElement, FS_RemoveElement

(* How many more are in a set after one of them moved.                     *)
Change(wasIn, isIn) ==
  IF isIn THEN IF wasIn THEN 0 ELSE 1 ELSE IF wasIn THEN -1 ELSE 0

LEMMA MoveAt ==
  ASSUME WritersOK, NEW g \in Goroutines, NEW l, Goto(g, l), NEW L
  PROVE  /\ Cardinality(At(L)) \in Nat
         /\ Cardinality(At(L)') = Cardinality(At(L)) + Change(pc[g] \in L, l \in L)
<1>1. At(L) \in SUBSET Goroutines
  BY DEF At
<1>2. At(L)' = IF l \in L THEN At(L) \cup {g} ELSE At(L) \ {g}
  BY DEF At, WritersOK, Goto
<1>3. g \in At(L) <=> pc[g] \in L
  BY DEF At
<1>4. CASE l \in L /\ pc[g] \in L
  <2>1. At(L)' = At(L)
    BY <1>2, <1>3, <1>4
  <2>2. Change(pc[g] \in L, l \in L) = 0
    BY <1>4 DEF Change
  <2>3. Cardinality(At(L)') = Cardinality(At(L)) /\ Cardinality(At(L)) \in Nat
    BY <1>1, <2>1, OneMore
  <2> QED
    BY <2>2, <2>3
<1>5. CASE l \in L /\ pc[g] \notin L
  BY <1>1, <1>2, <1>3, <1>5, OneMore DEF Change
<1>6. CASE l \notin L /\ pc[g] \in L
  <2>1. Cardinality(At(L)') = Cardinality(At(L)) - 1
    BY <1>1, <1>2, <1>3, <1>6, OneMore
  <2>2. Change(pc[g] \in L, l \in L) = -1
    BY <1>6 DEF Change
  <2> QED
    BY <1>1, <2>1, <2>2, OneMore
<1>7. CASE l \notin L /\ pc[g] \notin L
  <2>1. At(L)' = At(L)
    BY <1>2, <1>3, <1>7
  <2>2. Change(pc[g] \in L, l \in L) = 0
    BY <1>7 DEF Change
  <2>3. Cardinality(At(L)') = Cardinality(At(L)) /\ Cardinality(At(L)) \in Nat
    BY <1>1, <2>1, OneMore
  <2> QED
    BY <2>2, <2>3
<1> QED
  BY <1>4, <1>5, <1>6, <1>7

Owes(label, kind, k) == label \in {"total", "outcome"} /\ kind = k

LEMMA MoveOwing ==
  ASSUME WritersOK, NEW g \in Goroutines, NEW l, Goto(g, l), NEW k,
         key' \in [Goroutines -> Kinds],
         \A h \in Goroutines \ {g} : key'[h] = key[h]
  PROVE  /\ Cardinality(Owing(k)) \in Nat
         /\ Cardinality(Owing(k)') = Cardinality(Owing(k))
              + Change(Owes(pc[g], key[g], k), Owes(l, key'[g], k))
<1>1. Owing(k) \in SUBSET Goroutines
  BY DEF At, Owing
<1>2. Owing(k)' = IF Owes(l, key'[g], k) THEN Owing(k) \cup {g}
                  ELSE Owing(k) \ {g}
  BY DEF At, Owing, Owes, WritersOK, Goto
<1>3. g \in Owing(k) <=> Owes(pc[g], key[g], k)
  BY DEF At, Owing, Owes
<1>4. CASE Owes(l, key'[g], k) <=> Owes(pc[g], key[g], k)
  <2>1. Owing(k)' = Owing(k)
    BY <1>2, <1>3, <1>4
  <2>2. Change(Owes(pc[g], key[g], k), Owes(l, key'[g], k)) = 0
    BY <1>4 DEF Change
  <2>3. Cardinality(Owing(k)') = Cardinality(Owing(k))
        /\ Cardinality(Owing(k)) \in Nat
    BY <1>1, <2>1, OneMore
  <2> QED
    BY <2>2, <2>3
<1>5. CASE Owes(l, key'[g], k) /\ ~Owes(pc[g], key[g], k)
  <2>1. Cardinality(Owing(k)') = Cardinality(Owing(k)) + 1
    BY <1>1, <1>2, <1>3, <1>5, OneMore
  <2> QED
    BY <1>1, <1>5, <2>1, OneMore DEF Change
<1>6. CASE ~Owes(l, key'[g], k) /\ Owes(pc[g], key[g], k)
  <2>1. Cardinality(Owing(k)') = Cardinality(Owing(k)) - 1
    BY <1>1, <1>2, <1>3, <1>6, OneMore
  <2> QED
    BY <1>1, <1>6, <2>1, OneMore DEF Change
<1> QED
  BY <1>4, <1>5, <1>6

Sets == {At({"total"}), Owing("noop"), Owing("fail"), At({"tasksCreated"}),
         At({"runsRetried"})}

(* Nobody is between a commit and a count.                                 *)
LEMMA AllIdle ==
  ASSUME \A g \in Goroutines : pc[g] = "idle"
  PROVE  \A S \in Sets : Cardinality(S) = 0
BY FS_EmptySet DEF Sets, At, Owing

LEMMA AllIdleNext ==
  ASSUME \A g \in Goroutines : pc'[g] = "idle"
  PROVE  \A S \in Sets' : Cardinality(S) = 0
BY FS_EmptySet DEF Sets, At, Owing

LEMMA Numbers ==
  ASSUME WritersOK
  PROVE  /\ \A f \in Atomic : atomics[f] \in Nat
         /\ \A k \in Kinds : committed[k] \in Nat
         /\ \A a \in Announced : announced[a] \in Nat
         /\ pending \in Nat
         /\ \A S \in Sets : Cardinality(S) \in Nat
<1>1. \A S \in Sets : S \in SUBSET Goroutines
  BY DEF Sets, At, Owing
<1>2. \A S \in Sets : Cardinality(S) \in Nat
  BY <1>1, MetricsAssumption, FS_Subset, FS_CardinalityType
<1> QED
  BY <1>2 DEF WritersOK

LEMMA BalanceStart == Init => CountersBalance
<1> SUFFICES ASSUME Init PROVE CountersBalance
  OBVIOUS
<1>1. \A S \in Sets : Cardinality(S) = 0
  BY AllIdle DEF Init
<1>2. /\ \A f \in {"runsTotal", "runsSucceeded", "runsFailed", "tasksCreated",
                    "runsRetried"} : atomics[f] = 0
      /\ committed["noop"] = 0 /\ committed["fail"] = 0
      /\ announced["tasksCreated"] = 0 /\ announced["runsRetried"] = 0
      /\ pending = 0
  BY AtomicNames DEF Init, Zero, Kinds, Announced
<1> QED
  BY <1>1, <1>2 DEF CountersBalance, Recorded, Sets

(* A process that has just ended left neither counts nor history.          *)
LEMMA BalanceFresh == Fresh => CountersBalance'
<1> SUFFICES ASSUME Fresh PROVE CountersBalance'
  OBVIOUS
<1>1. \A S \in Sets' : Cardinality(S) = 0
  BY AllIdleNext DEF Fresh
<1>2. /\ \A f \in {"runsTotal", "runsSucceeded", "runsFailed", "tasksCreated",
                    "runsRetried"} : atomics'[f] = 0
      /\ committed'["noop"] = 0 /\ committed'["fail"] = 0
      /\ announced'["tasksCreated"] = 0 /\ announced'["runsRetried"] = 0
      /\ pending' = 0
  BY AtomicNames DEF Fresh, Zero, Kinds, Announced
<1> QED
  BY <1>1, <1>2 DEF CountersBalance, Recorded, Sets

(* Steps that leave the goroutines where they are.                         *)
LEMMA SetsStay ==
  ASSUME UNCHANGED <<pc, key>>
  PROVE  /\ At({"total"})' = At({"total"})
         /\ Owing("noop")' = Owing("noop") /\ Owing("fail")' = Owing("fail")
         /\ At({"tasksCreated"})' = At({"tasksCreated"})
         /\ At({"runsRetried"})' = At({"runsRetried"})
BY DEF At, Owing

LEMMA BalanceStays ==
  ASSUME CountersBalance,
         UNCHANGED <<phase, atomics, pc, key, committed, announced, pending>>
  PROVE  CountersBalance'
BY SetsStay DEF CountersBalance, Recorded

LEMMA BootBalance ==
  ASSUME WritersOK, CountersBalance, Boot
  PROVE  CountersBalance'
<1>0. /\ \A f \in Atomic : atomics[f] \in Nat
      /\ \A a \in Announced : announced[a] \in Nat
      /\ pending \in Nat
      /\ Cardinality(At({"runsRetried"})) \in Nat
  BY Numbers DEF Sets
<1>1. CASE Restart
  BY <1>1, SetsStay DEF Restart, CountersBalance, Recorded, writers, history
<1>2. CASE RecoverCounts
  <2>1. /\ atomics'["runsRetried"] = atomics["runsRetried"] + 1
        /\ \A f \in Atomic \ {"runsRetried"} : atomics'[f] = atomics[f]
    BY <1>2, AtomicNames DEF RecoverCounts, Add, WritersOK
  <2> QED
    BY <1>0, <1>2, <2>1, SetsStay, AtomicNames
    DEF RecoverCounts, CountersBalance, Recorded, Announced
<1>3. CASE RecoverCommits
  <2>1. /\ announced'["runsRetried"] = announced["runsRetried"] + pending
        /\ announced'["tasksCreated"] = announced["tasksCreated"]
    BY <1>3 DEF RecoverCommits, WritersOK, Announced
  <2> QED
    BY <1>0, <1>3, <2>1, SetsStay
    DEF RecoverCommits, CountersBalance, Recorded, writers, Announced
<1>4. CASE RecoverFails
  BY <1>4, BalanceFresh DEF RecoverFails
<1> QED
  BY <1>1, <1>2, <1>3, <1>4 DEF Boot

(* A goroutine moves from one label to another.                            *)
LEMMA SetsMove ==
  ASSUME WritersOK, NEW g \in Goroutines, NEW l, Goto(g, l),
         key' \in [Goroutines -> Kinds],
         \A h \in Goroutines \ {g} : key'[h] = key[h]
  PROVE  /\ Cardinality(At({"total"})') = Cardinality(At({"total"}))
              + Change(pc[g] \in {"total"}, l \in {"total"})
         /\ Cardinality(At({"tasksCreated"})') = Cardinality(At({"tasksCreated"}))
              + Change(pc[g] \in {"tasksCreated"}, l \in {"tasksCreated"})
         /\ Cardinality(At({"runsRetried"})') = Cardinality(At({"runsRetried"}))
              + Change(pc[g] \in {"runsRetried"}, l \in {"runsRetried"})
         /\ Cardinality(Owing("noop")') = Cardinality(Owing("noop"))
              + Change(Owes(pc[g], key[g], "noop"), Owes(l, key'[g], "noop"))
         /\ Cardinality(Owing("fail")') = Cardinality(Owing("fail"))
              + Change(Owes(pc[g], key[g], "fail"), Owes(l, key'[g], "fail"))
<1>1. \A a : Cardinality(At({a})') =
               Cardinality(At({a})) + Change(pc[g] \in {a}, l \in {a})
  BY MoveAt
<1>2. \A k : Cardinality(Owing(k)') = Cardinality(Owing(k))
               + Change(Owes(pc[g], key[g], k), Owes(l, key'[g], k))
  BY MoveOwing
<1> QED
  BY <1>1, <1>2

LEMMA OneOverToTheOther ==
  ASSUME NEW c \in Nat, NEW a \in Nat, NEW b \in Nat, c = a + b
  PROVE  c = (a + 1) + (b - 1)
OBVIOUS

LEMMA CountBalance ==
  ASSUME TypeOK, WritersOK, TypeOK', CountersBalance,
         NEW g \in Goroutines, Count(g)
  PROVE  CountersBalance'
<1>0. /\ \A f \in Atomic : atomics[f] \in Nat
      /\ \A k \in Kinds : committed[k] \in Nat
      /\ \A a \in Announced : announced[a] \in Nat
      /\ pending \in Nat
      /\ \A S \in Sets : Cardinality(S) \in Nat
      /\ key \in [Goroutines -> Kinds] /\ key' \in [Goroutines -> Kinds]
  BY Numbers DEF TypeOK
<1>n. /\ Cardinality(At({"total"})) \in Nat
      /\ Cardinality(At({"tasksCreated"})) \in Nat
      /\ Cardinality(At({"runsRetried"})) \in Nat
      /\ Cardinality(Owing("noop")) \in Nat /\ Cardinality(Owing("fail")) \in Nat
      /\ atomics["runsTotal"] \in Nat /\ atomics["runsSucceeded"] \in Nat
      /\ atomics["runsFailed"] \in Nat /\ atomics["tasksCreated"] \in Nat
      /\ atomics["runsRetried"] \in Nat
      /\ committed["noop"] \in Nat /\ committed["fail"] \in Nat
      /\ announced["tasksCreated"] \in Nat /\ announced["runsRetried"] \in Nat
      /\ pending \in Nat
  BY <1>0, AtomicNames DEF Sets, Kinds, Announced
<1>b. /\ Recorded = atomics["runsTotal"] + Cardinality(At({"total"}))
      /\ committed["noop"] = atomics["runsSucceeded"] + Cardinality(Owing("noop"))
      /\ committed["fail"] = atomics["runsFailed"] + Cardinality(Owing("fail"))
      /\ announced["tasksCreated"] =
           atomics["tasksCreated"] + Cardinality(At({"tasksCreated"}))
      /\ announced["runsRetried"] + pending =
           atomics["runsRetried"] + Cardinality(At({"runsRetried"}))
  BY DEF CountersBalance
<1>1. ASSUME NEW a \in Announced, Announce(g, a) PROVE CountersBalance'
  <2>1. /\ announced'[a] = announced[a] + 1
        /\ \A b \in Announced \ {a} : announced'[b] = announced[b]
    BY <1>1 DEF Announce, WritersOK
  <2>2. CASE a = "tasksCreated"
    <3>1. /\ Cardinality(At({"total"})') = Cardinality(At({"total"}))
          /\ Cardinality(At({"tasksCreated"})')
               = Cardinality(At({"tasksCreated"})) + 1
          /\ Cardinality(At({"runsRetried"})') = Cardinality(At({"runsRetried"}))
          /\ Cardinality(Owing("noop")') = Cardinality(Owing("noop"))
          /\ Cardinality(Owing("fail")') = Cardinality(Owing("fail"))
      BY <1>0, <1>1, <2>2, SetsMove DEF Announce, Change, Owes, Sets
    <3>2. /\ announced'["tasksCreated"] = announced["tasksCreated"] + 1
          /\ announced'["runsRetried"] = announced["runsRetried"]
      BY <2>1, <2>2 DEF Announced
    <3>u. UNCHANGED <<atomics, committed, pending>>
      BY <1>1 DEF Announce
    <3>3. Recorded' = atomics'["runsTotal"] + Cardinality(At({"total"})')
      BY <1>n, <1>b, <3>u, <3>1, <3>2 DEF Recorded
    <3>4. committed'["noop"] = atomics'["runsSucceeded"] + Cardinality(Owing("noop")')
      BY <1>n, <1>b, <3>u, <3>1, <3>2 DEF Recorded
    <3>5. committed'["fail"] = atomics'["runsFailed"] + Cardinality(Owing("fail")')
      BY <1>n, <1>b, <3>u, <3>1, <3>2 DEF Recorded
    <3>6. announced'["tasksCreated"] =
            atomics'["tasksCreated"] + Cardinality(At({"tasksCreated"})')
      BY <1>n, <1>b, <3>u, <3>1, <3>2
    <3>8. announced'["runsRetried"] + pending' =
            atomics'["runsRetried"] + Cardinality(At({"runsRetried"})')
      BY <1>n, <1>b, <3>u, <3>1, <3>2
    <3>7. phase' = "serving" => pending' = 0
      BY <1>n, <1>1, <3>1, <3>2
      DEF Announce, CountersBalance, Recorded
    <3> QED
      BY <3>3, <3>4, <3>5, <3>6, <3>7, <3>8 DEF CountersBalance
  <2>3. CASE a = "runsRetried"
    <3>1. /\ Cardinality(At({"total"})') = Cardinality(At({"total"}))
          /\ Cardinality(At({"tasksCreated"})') = Cardinality(At({"tasksCreated"}))
          /\ Cardinality(At({"runsRetried"})')
               = Cardinality(At({"runsRetried"})) + 1
          /\ Cardinality(Owing("noop")') = Cardinality(Owing("noop"))
          /\ Cardinality(Owing("fail")') = Cardinality(Owing("fail"))
      BY <1>0, <1>1, <2>3, SetsMove DEF Announce, Change, Owes, Sets
    <3>2. /\ announced'["runsRetried"] = announced["runsRetried"] + 1
          /\ announced'["tasksCreated"] = announced["tasksCreated"]
      BY <2>1, <2>3 DEF Announced
    <3>u. UNCHANGED <<atomics, committed, pending>>
      BY <1>1 DEF Announce
    <3>3. Recorded' = atomics'["runsTotal"] + Cardinality(At({"total"})')
      BY <1>n, <1>b, <3>u, <3>1, <3>2 DEF Recorded
    <3>4. committed'["noop"] = atomics'["runsSucceeded"] + Cardinality(Owing("noop")')
      BY <1>n, <1>b, <3>u, <3>1, <3>2 DEF Recorded
    <3>5. committed'["fail"] = atomics'["runsFailed"] + Cardinality(Owing("fail")')
      BY <1>n, <1>b, <3>u, <3>1, <3>2 DEF Recorded
    <3>6. announced'["tasksCreated"] =
            atomics'["tasksCreated"] + Cardinality(At({"tasksCreated"})')
      BY <1>n, <1>b, <3>u, <3>1, <3>2
    <3>8. announced'["runsRetried"] + pending' =
            atomics'["runsRetried"] + Cardinality(At({"runsRetried"})')
      BY <1>n, <1>b, <3>u, <3>1, <3>2
    <3>7. phase' = "serving" => pending' = 0
      BY <1>n, <1>1, <3>1, <3>2
      DEF Announce, CountersBalance, Recorded
    <3> QED
      BY <3>3, <3>4, <3>5, <3>6, <3>7, <3>8 DEF CountersBalance
  <2> QED
    BY <2>2, <2>3 DEF Announced
<1>2. CASE IncAnnounced(g)
  <2>1. /\ atomics'[pc[g]] = atomics[pc[g]] + 1
        /\ \A f \in Atomic \ {pc[g]} : atomics'[f] = atomics[f]
    BY <1>2, AtomicNames DEF IncAnnounced, Add, Announced, WritersOK
  <2>2. CASE pc[g] = "tasksCreated"
    <3>1. /\ Cardinality(At({"total"})') = Cardinality(At({"total"}))
          /\ Cardinality(At({"tasksCreated"})')
               = Cardinality(At({"tasksCreated"})) - 1
          /\ Cardinality(At({"runsRetried"})')
               = Cardinality(At({"runsRetried"}))
          /\ Cardinality(Owing("noop")') = Cardinality(Owing("noop"))
          /\ Cardinality(Owing("fail")') = Cardinality(Owing("fail"))
      BY <1>0, <1>2, <2>2, SetsMove DEF IncAnnounced, Change, Owes, Sets
    <3> QED
      BY <1>0, <1>2, <2>1, <2>2, <3>1, AtomicNames
      DEF IncAnnounced, CountersBalance, Recorded, Announced, Sets, history
  <2>3. CASE pc[g] = "runsRetried"
    <3>1. /\ Cardinality(At({"total"})') = Cardinality(At({"total"}))
          /\ Cardinality(At({"tasksCreated"})')
               = Cardinality(At({"tasksCreated"}))
          /\ Cardinality(At({"runsRetried"})')
               = Cardinality(At({"runsRetried"})) - 1
          /\ Cardinality(Owing("noop")') = Cardinality(Owing("noop"))
          /\ Cardinality(Owing("fail")') = Cardinality(Owing("fail"))
      BY <1>0, <1>2, <2>3, SetsMove DEF IncAnnounced, Change, Owes, Sets
    <3> QED
      BY <1>0, <1>2, <2>1, <2>3, <3>1, AtomicNames
      DEF IncAnnounced, CountersBalance, Recorded, Announced, Sets, history
  <2> QED
    BY <1>2, <2>2, <2>3 DEF IncAnnounced, Announced
<1>3. ASSUME NEW k \in Kinds, Commit(g, k) PROVE CountersBalance'
  <2>1. /\ committed'[k] = committed[k] + 1
        /\ \A j \in Kinds \ {k} : committed'[j] = committed[j]
        /\ key'[g] = k /\ \A h \in Goroutines \ {g} : key'[h] = key[h]
    BY <1>3 DEF Commit, WritersOK
  <2>2. CASE k = "noop"
    <3>1. /\ Cardinality(At({"total"})') = Cardinality(At({"total"})) + 1
          /\ Cardinality(At({"tasksCreated"})')
               = Cardinality(At({"tasksCreated"}))
          /\ Cardinality(At({"runsRetried"})')
               = Cardinality(At({"runsRetried"}))
          /\ Cardinality(Owing("noop")') = Cardinality(Owing("noop")) + 1
          /\ Cardinality(Owing("fail")') = Cardinality(Owing("fail"))
      BY <1>0, <1>3, <2>1, <2>2, SetsMove DEF Commit, Change, Owes, Sets
    <3>2. /\ committed'["noop"] = committed["noop"] + 1
          /\ committed'["fail"] = committed["fail"]
      BY <2>1, <2>2 DEF Kinds
    <3>u. UNCHANGED <<atomics, announced, pending>>
      BY <1>3 DEF Commit
    <3>3. Recorded' = atomics'["runsTotal"] + Cardinality(At({"total"})')
      BY <1>n, <1>b, <3>u, <3>1, <3>2 DEF Recorded
    <3>4. committed'["noop"] = atomics'["runsSucceeded"] + Cardinality(Owing("noop")')
      BY <1>n, <1>b, <3>u, <3>1, <3>2 DEF Recorded
    <3>5. committed'["fail"] = atomics'["runsFailed"] + Cardinality(Owing("fail")')
      BY <1>n, <1>b, <3>u, <3>1, <3>2 DEF Recorded
    <3>6. announced'["tasksCreated"] =
            atomics'["tasksCreated"] + Cardinality(At({"tasksCreated"})')
      BY <1>n, <1>b, <3>u, <3>1, <3>2
    <3>8. announced'["runsRetried"] + pending' =
            atomics'["runsRetried"] + Cardinality(At({"runsRetried"})')
      BY <1>n, <1>b, <3>u, <3>1, <3>2
    <3>7. phase' = "serving" => pending' = 0
      BY <1>n, <1>3, <3>1, <3>2
      DEF Commit, CountersBalance, Recorded
    <3> QED
      BY <3>3, <3>4, <3>5, <3>6, <3>7, <3>8 DEF CountersBalance
  <2>3. CASE k = "fail"
    <3>1. /\ Cardinality(At({"total"})') = Cardinality(At({"total"})) + 1
          /\ Cardinality(At({"tasksCreated"})')
               = Cardinality(At({"tasksCreated"}))
          /\ Cardinality(At({"runsRetried"})')
               = Cardinality(At({"runsRetried"}))
          /\ Cardinality(Owing("noop")') = Cardinality(Owing("noop"))
          /\ Cardinality(Owing("fail")') = Cardinality(Owing("fail")) + 1
      BY <1>0, <1>3, <2>1, <2>3, SetsMove DEF Commit, Change, Owes, Sets
    <3>2. /\ committed'["fail"] = committed["fail"] + 1
          /\ committed'["noop"] = committed["noop"]
      BY <2>1, <2>3 DEF Kinds
    <3>u. UNCHANGED <<atomics, announced, pending>>
      BY <1>3 DEF Commit
    <3>3. Recorded' = atomics'["runsTotal"] + Cardinality(At({"total"})')
      BY <1>n, <1>b, <3>u, <3>1, <3>2 DEF Recorded
    <3>4. committed'["noop"] = atomics'["runsSucceeded"] + Cardinality(Owing("noop")')
      BY <1>n, <1>b, <3>u, <3>1, <3>2 DEF Recorded
    <3>5. committed'["fail"] = atomics'["runsFailed"] + Cardinality(Owing("fail")')
      BY <1>n, <1>b, <3>u, <3>1, <3>2 DEF Recorded
    <3>6. announced'["tasksCreated"] =
            atomics'["tasksCreated"] + Cardinality(At({"tasksCreated"})')
      BY <1>n, <1>b, <3>u, <3>1, <3>2
    <3>8. announced'["runsRetried"] + pending' =
            atomics'["runsRetried"] + Cardinality(At({"runsRetried"})')
      BY <1>n, <1>b, <3>u, <3>1, <3>2
    <3>7. phase' = "serving" => pending' = 0
      BY <1>n, <1>3, <3>1, <3>2
      DEF Commit, CountersBalance, Recorded
    <3> QED
      BY <3>3, <3>4, <3>5, <3>6, <3>7, <3>8 DEF CountersBalance
  <2> QED
    BY <2>2, <2>3 DEF Kinds
<1>4. CASE RecordTotal(g)
  <2>1. /\ atomics'["runsTotal"] = atomics["runsTotal"] + 1
        /\ \A f \in Atomic \ {"runsTotal"} : atomics'[f] = atomics[f]
    BY <1>4, AtomicNames DEF RecordTotal, Add, WritersOK
  <2>2. /\ Cardinality(At({"total"})') = Cardinality(At({"total"})) - 1
        /\ Cardinality(At({"tasksCreated"})')
             = Cardinality(At({"tasksCreated"}))
        /\ Cardinality(At({"runsRetried"})') = Cardinality(At({"runsRetried"}))
        /\ Cardinality(Owing("noop")') = Cardinality(Owing("noop"))
        /\ Cardinality(Owing("fail")') = Cardinality(Owing("fail"))
    BY <1>0, <1>4, SetsMove DEF RecordTotal, Change, Owes, Sets
  <2> QED
    BY <1>0, <1>4, <2>1, <2>2, AtomicNames
    DEF RecordTotal, CountersBalance, Recorded, Sets, history
<1>5. CASE RecordOutcome(g)
  <2>1. CASE key[g] = "noop"
    <3>1. /\ atomics'["runsSucceeded"] = atomics["runsSucceeded"] + 1
          /\ atomics'["runsTotal"] = atomics["runsTotal"]
          /\ atomics'["runsFailed"] = atomics["runsFailed"]
          /\ atomics'["tasksCreated"] = atomics["tasksCreated"]
          /\ atomics'["runsRetried"] = atomics["runsRetried"]
      BY <1>5, <2>1, AtomicNames DEF RecordOutcome, Outcome, Add, WritersOK
    <3>2. /\ Cardinality(At({"total"})') = Cardinality(At({"total"}))
          /\ Cardinality(At({"tasksCreated"})')
               = Cardinality(At({"tasksCreated"}))
          /\ Cardinality(At({"runsRetried"})')
               = Cardinality(At({"runsRetried"}))
          /\ Cardinality(Owing("noop")') = Cardinality(Owing("noop")) - 1
          /\ Cardinality(Owing("fail")') = Cardinality(Owing("fail"))
      BY <1>0, <1>5, <2>1, SetsMove DEF RecordOutcome, Change, Owes, Sets
    <3>u. UNCHANGED <<committed, announced, pending>>
      BY <1>5 DEF RecordOutcome, history
    <3>3. Recorded' = atomics'["runsTotal"] + Cardinality(At({"total"})')
      BY <1>n, <1>b, <3>u, <3>1, <3>2 DEF Recorded
    <3>4. committed'["noop"] = atomics'["runsSucceeded"] + Cardinality(Owing("noop")')
      <4>1. committed["noop"] = (atomics["runsSucceeded"] + 1)
                                  + (Cardinality(Owing("noop")) - 1)
        BY <1>n, <1>b, OneOverToTheOther
      <4> QED
        BY <3>u, <3>1, <3>2, <4>1
    <3>5. committed'["fail"] = atomics'["runsFailed"] + Cardinality(Owing("fail")')
      BY <1>n, <1>b, <3>u, <3>1, <3>2 DEF Recorded
    <3>6. announced'["tasksCreated"] =
            atomics'["tasksCreated"] + Cardinality(At({"tasksCreated"})')
      BY <1>n, <1>b, <3>u, <3>1, <3>2
    <3>8. announced'["runsRetried"] + pending' =
            atomics'["runsRetried"] + Cardinality(At({"runsRetried"})')
      BY <1>n, <1>b, <3>u, <3>1, <3>2
    <3>7. phase' = "serving" => pending' = 0
      BY <1>n, <1>5, <3>1, <3>2
      DEF RecordOutcome, CountersBalance, Recorded, history
    <3> QED
      BY <3>3, <3>4, <3>5, <3>6, <3>7, <3>8 DEF CountersBalance
  <2>2. CASE key[g] = "fail"
    <3>1. /\ atomics'["runsFailed"] = atomics["runsFailed"] + 1
          /\ atomics'["runsTotal"] = atomics["runsTotal"]
          /\ atomics'["runsSucceeded"] = atomics["runsSucceeded"]
          /\ atomics'["tasksCreated"] = atomics["tasksCreated"]
          /\ atomics'["runsRetried"] = atomics["runsRetried"]
      BY <1>5, <2>2, AtomicNames DEF RecordOutcome, Outcome, Add, WritersOK
    <3>2. /\ Cardinality(At({"total"})') = Cardinality(At({"total"}))
          /\ Cardinality(At({"tasksCreated"})')
               = Cardinality(At({"tasksCreated"}))
          /\ Cardinality(At({"runsRetried"})')
               = Cardinality(At({"runsRetried"}))
          /\ Cardinality(Owing("noop")') = Cardinality(Owing("noop"))
          /\ Cardinality(Owing("fail")') = Cardinality(Owing("fail")) - 1
      BY <1>0, <1>5, <2>2, SetsMove DEF RecordOutcome, Change, Owes, Sets
    <3>u. UNCHANGED <<committed, announced, pending>>
      BY <1>5 DEF RecordOutcome, history
    <3>3. Recorded' = atomics'["runsTotal"] + Cardinality(At({"total"})')
      BY <1>n, <1>b, <3>u, <3>1, <3>2 DEF Recorded
    <3>4. committed'["noop"] = atomics'["runsSucceeded"] + Cardinality(Owing("noop")')
      BY <1>n, <1>b, <3>u, <3>1, <3>2 DEF Recorded
    <3>5. committed'["fail"] = atomics'["runsFailed"] + Cardinality(Owing("fail")')
      <4>1. committed["fail"] = (atomics["runsFailed"] + 1)
                                  + (Cardinality(Owing("fail")) - 1)
        BY <1>n, <1>b, OneOverToTheOther
      <4> QED
        BY <3>u, <3>1, <3>2, <4>1
    <3>6. announced'["tasksCreated"] =
            atomics'["tasksCreated"] + Cardinality(At({"tasksCreated"})')
      BY <1>n, <1>b, <3>u, <3>1, <3>2
    <3>8. announced'["runsRetried"] + pending' =
            atomics'["runsRetried"] + Cardinality(At({"runsRetried"})')
      BY <1>n, <1>b, <3>u, <3>1, <3>2
    <3>7. phase' = "serving" => pending' = 0
      BY <1>n, <1>5, <3>1, <3>2
      DEF RecordOutcome, CountersBalance, Recorded, history
    <3> QED
      BY <3>3, <3>4, <3>5, <3>6, <3>7, <3>8 DEF CountersBalance
  <2> QED
    BY <1>0, <2>1, <2>2 DEF Kinds
<1>6. CASE BeginKind(g) \/ EndKind(g) \/ BeginStatus(g) \/ EndStatus(g)
  <2>1. /\ \A h \in Goroutines \ {g} : key'[h] = key[h]
        /\ UNCHANGED <<phase, atomics, committed, announced, pending>>
    BY <1>6 DEF BeginKind, EndKind, BeginStatus, EndStatus, WritersOK, history
  <2>2. PICK l \in {"inKind", "byStatus", "inStatus", "idle"} : Goto(g, l)
    BY <1>6 DEF BeginKind, EndKind, BeginStatus, EndStatus
  <2>3. pc[g] \in {"byKind", "inKind", "byStatus", "inStatus"}
    BY <1>6 DEF BeginKind, EndKind, BeginStatus, EndStatus
  <2>4. /\ Cardinality(At({"total"})') = Cardinality(At({"total"}))
        /\ Cardinality(At({"tasksCreated"})')
             = Cardinality(At({"tasksCreated"}))
        /\ Cardinality(At({"runsRetried"})') = Cardinality(At({"runsRetried"}))
        /\ Cardinality(Owing("noop")') = Cardinality(Owing("noop"))
        /\ Cardinality(Owing("fail")') = Cardinality(Owing("fail"))
    BY <1>0, <2>1, <2>2, <2>3, SetsMove DEF Change, Owes, Sets
  <2> QED
    BY <2>1, <2>4 DEF CountersBalance, Recorded
<1> QED
  BY <1>1, <1>2, <1>3, <1>4, <1>5, <1>6 DEF Count, RecordRun

LEMMA BalanceStep == TypeOK /\ TypeOK' /\ CountersBalance /\ [Next]_vars
                       => CountersBalance'
<1> SUFFICES ASSUME TypeOK, WritersOK, TypeOK', CountersBalance, [Next]_vars
             PROVE  CountersBalance'
  BY TypeIsBoth
<1>1. CASE Boot
  BY <1>1, BootBalance
<1>2. CASE IncDispatches
  <2>1. \A f \in Atomic \ {"dispatches"} : atomics'[f] = atomics[f]
    BY <1>2, AtomicNames DEF IncDispatches, Add, WritersOK
  <2> QED
    BY <1>2, <2>1, SetsStay, AtomicNames
    DEF IncDispatches, CountersBalance, Recorded, history
<1>3. ASSUME NEW g \in Goroutines, Count(g) PROVE CountersBalance'
  BY <1>3, CountBalance
<1>4. ASSUME NEW r \in Readers, Read(r) PROVE CountersBalance'
  <2>1. UNCHANGED <<phase, writers, history>>
    BY <1>4 DEF Read, handleMetrics, Report, Snapshot, CopyKind, CopyStatus,
                Load, Answer, Copying
  <2> QED
    BY <2>1, BalanceStays DEF writers, history
<1>5. CASE Fatal \/ Stop
  BY <1>5, BalanceFresh DEF Fatal, Stop
<1>6. CASE UNCHANGED vars
  BY <1>6, BalanceStays DEF vars, writers, history
<1> QED
  BY <1>1, <1>2, <1>3, <1>4, <1>5, <1>6 DEF Next

(* However RecordRun, Inc... and the recovery interleave, and for any      *)
(* number of goroutines: an atomic never loses a count, and differs from   *)
(* what was committed by the goroutines still on their way to it.          *)
THEOREM CountersAreBalanced == Spec => []CountersBalance
<1> QED
  BY TypesStart, TypesStep, BalanceStart, BalanceStep, PTL DEF Spec

-----------------------------------------------------------------------------
(* The maps.  Late(k) and Later(k) of MapsFollow: the goroutines that have *)
(* yet to finish with byKind, and with byStatus, for a run of kind k.      *)
Early      == {"total", "outcome", "byKind", "inKind"}
EarlyOrMid == Early \cup {"byStatus", "inStatus"}

Stand(L, k) == {g \in Goroutines : pc[g] \in L /\ key[g] = k}
Late(k)  == Cardinality(Stand(Early, k))
Later(k) == Cardinality(Stand(EarlyOrMid, k))

(* An entry and those on their way to it make up what was committed, or    *)
(* less where increments have overlapped.                                  *)
Behind(entry, lag, sum, lost) ==
  entry + lag <= sum /\ (~lost => entry + lag = sum)

(* What makes MapsFollow inductive: the entry a goroutine inside a map has *)
(* read is behind just as the entry itself is, although a third goroutine  *)
(* may since have stored a smaller one; and nobody else is inside with it  *)
(* unless increments overlapped.                                           *)
EntriesBehind ==
  \A k \in Kinds : /\ Behind(byKind[k], Late(k), committed[k], overlapped)
                   /\ Behind(byStatus[Outcome(k)], Later(k), committed[k], overlapped)

ReadBehind ==
  \A k \in Kinds :
    /\ \A g \in InKind : key[g] = k =>
         Behind(old[g], Late(k), committed[k], overlapped)
    /\ \A g \in InStatus : key[g] = k =>
         Behind(old[g], Later(k), committed[k], overlapped)

OneInside ==
  ~overlapped => /\ \A g, h \in InKind : g = h
                 /\ \A g, h \in InStatus : g = h

MapsInv == EntriesBehind /\ ReadBehind /\ OneInside

LEMMA OutcomesDiffer ==
  /\ \A k \in Kinds : Outcome(k) \in Statuses
  /\ \A k, m \in Kinds : Outcome(k) = Outcome(m) => k = m
BY DEF Kinds, Outcome, Statuses

LEMMA MapNumbers ==
  ASSUME WritersOK
  PROVE  /\ \A k \in Kinds : /\ byKind[k] \in Nat /\ byStatus[Outcome(k)] \in Nat
                             /\ committed[k] \in Nat
         /\ \A k : Late(k) \in Nat /\ Later(k) \in Nat
         /\ \A g \in Goroutines : old[g] \in Nat /\ key[g] \in Kinds
         /\ overlapped \in BOOLEAN
<1>1. \A L, k : Stand(L, k) \in SUBSET Goroutines
  BY DEF Stand
<1>2. \A L, k : Cardinality(Stand(L, k)) \in Nat
  BY <1>1, MetricsAssumption, FS_Subset, FS_CardinalityType
<1> QED
  BY <1>2, OutcomesDiffer DEF WritersOK, Late, Later

LEMMA MapsIdle ==
  ASSUME \A g \in Goroutines : pc[g] = "idle",
         \A k \in Kinds : byKind[k] = 0 /\ committed[k] = 0,
         \A s \in Statuses : byStatus[s] = 0
  PROVE  MapsInv
<1>1. \A k : Stand(Early, k) = {} /\ Stand(EarlyOrMid, k) = {}
  BY DEF Stand, Early, EarlyOrMid
<1>2. \A k : Late(k) = 0 /\ Later(k) = 0
  BY <1>1, FS_EmptySet DEF Late, Later
<1>3. InKind = {} /\ InStatus = {}
  BY DEF InKind, InStatus
<1> QED
  BY <1>2, <1>3, OutcomesDiffer
  DEF MapsInv, EntriesBehind, ReadBehind, OneInside, Behind

LEMMA MapsIdleNext ==
  ASSUME \A g \in Goroutines : pc'[g] = "idle",
         \A k \in Kinds : byKind'[k] = 0 /\ committed'[k] = 0,
         \A s \in Statuses : byStatus'[s] = 0
  PROVE  MapsInv'
<1>1. \A k : Stand(Early, k)' = {} /\ Stand(EarlyOrMid, k)' = {}
  BY DEF Stand, Early, EarlyOrMid
<1>2. \A k : Late(k)' = 0 /\ Later(k)' = 0
  BY <1>1, FS_EmptySet DEF Late, Later
<1>3. InKind' = {} /\ InStatus' = {}
  BY DEF InKind, InStatus
<1> QED
  BY <1>2, <1>3, OutcomesDiffer
  DEF MapsInv, EntriesBehind, ReadBehind, OneInside, Behind

(* Who stands where after a goroutine has moved.                           *)
LEMMA StandMoves ==
  ASSUME WritersOK, NEW g \in Goroutines, NEW l, Goto(g, l),
         key' \in [Goroutines -> Kinds],
         \A h \in Goroutines \ {g} : key'[h] = key[h],
         NEW L, NEW k
  PROVE  Cardinality(Stand(L, k)') = Cardinality(Stand(L, k))
           + Change(pc[g] \in L /\ key[g] = k, l \in L /\ key'[g] = k)
<1>1. Stand(L, k) \in SUBSET Goroutines
  BY DEF Stand
<1>2. Stand(L, k)' = IF l \in L /\ key'[g] = k THEN Stand(L, k) \cup {g}
                     ELSE Stand(L, k) \ {g}
  BY DEF Stand, WritersOK, Goto
<1>3. g \in Stand(L, k) <=> pc[g] \in L /\ key[g] = k
  BY DEF Stand
<1>4. CASE (l \in L /\ key'[g] = k) <=> (pc[g] \in L /\ key[g] = k)
  <2>1. Stand(L, k)' = Stand(L, k)
    BY <1>2, <1>3, <1>4
  <2>2. Change(pc[g] \in L /\ key[g] = k, l \in L /\ key'[g] = k) = 0
    BY <1>4 DEF Change
  <2>3. Cardinality(Stand(L, k)') = Cardinality(Stand(L, k))
        /\ Cardinality(Stand(L, k)) \in Nat
    BY <1>1, <2>1, OneMore
  <2> QED
    BY <2>2, <2>3
<1>5. CASE (l \in L /\ key'[g] = k) /\ ~(pc[g] \in L /\ key[g] = k)
  <2>1. Cardinality(Stand(L, k)') = Cardinality(Stand(L, k)) + 1
    BY <1>1, <1>2, <1>3, <1>5, OneMore
  <2>2. Change(pc[g] \in L /\ key[g] = k, l \in L /\ key'[g] = k) = 1
    BY <1>5 DEF Change
  <2> QED
    BY <2>1, <2>2
<1>6. CASE ~(l \in L /\ key'[g] = k) /\ (pc[g] \in L /\ key[g] = k)
  <2>1. Cardinality(Stand(L, k)') = Cardinality(Stand(L, k)) - 1
    BY <1>1, <1>2, <1>3, <1>6, OneMore
  <2>2. Change(pc[g] \in L /\ key[g] = k, l \in L /\ key'[g] = k) = -1
    BY <1>6 DEF Change
  <2>3. Cardinality(Stand(L, k)) \in Nat
    BY <1>1, OneMore
  <2> QED
    BY <2>1, <2>2, <2>3
<1> QED
  BY <1>4, <1>5, <1>6

LEMMA LagMoves ==
  ASSUME WritersOK, NEW g \in Goroutines, NEW l, Goto(g, l),
         key' \in [Goroutines -> Kinds],
         \A h \in Goroutines \ {g} : key'[h] = key[h], NEW k
  PROVE  /\ Late(k)' = Late(k)
              + Change(pc[g] \in Early /\ key[g] = k, l \in Early /\ key'[g] = k)
         /\ Later(k)' = Later(k)
              + Change(pc[g] \in EarlyOrMid /\ key[g] = k,
                       l \in EarlyOrMid /\ key'[g] = k)
BY StandMoves DEF Late, Later, Early, EarlyOrMid

(* Who is inside a map after a goroutine has moved.                        *)
LEMMA InsideMoves ==
  ASSUME WritersOK, NEW g \in Goroutines, NEW l, Goto(g, l)
  PROVE  /\ InKind' = IF l = "inKind" THEN InKind \cup {g} ELSE InKind \ {g}
         /\ InStatus' = IF l = "inStatus" THEN InStatus \cup {g} ELSE InStatus \ {g}
BY DEF InKind, InStatus, WritersOK, Goto

(* A goroutine that neither commits nor touches a map, or only reads one.  *)
LEMMA MapsPassBy ==
  ASSUME WritersOK, MapsInv, NEW g \in Goroutines, NEW l, Goto(g, l),
         pc[g] \in Early <=> l \in Early,
         pc[g] \in EarlyOrMid <=> l \in EarlyOrMid,
         l \notin {"inKind", "inStatus"},
         UNCHANGED <<byKind, byStatus, key, old, committed, overlapped>>
  PROVE  MapsInv'
<1>0. key \in [Goroutines -> Kinds] /\ key' = key
  BY DEF WritersOK
<1>1. \A k \in Kinds : Late(k)' = Late(k) /\ Later(k)' = Later(k)
  BY <1>0, LagMoves, MapNumbers DEF Change
<1>2. InKind' \subseteq InKind /\ InStatus' \subseteq InStatus
  BY InsideMoves
<1>3. EntriesBehind'
  BY <1>1 DEF MapsInv, EntriesBehind
<1>4. ReadBehind'
  BY <1>0, <1>1, <1>2 DEF MapsInv, ReadBehind
<1>5. OneInside'
  BY <1>2 DEF MapsInv, OneInside
<1> QED
  BY <1>3, <1>4, <1>5 DEF MapsInv

(* One more run is committed and one more goroutine on its way.            *)
LEMMA MapsCommit ==
  ASSUME WritersOK, MapsInv, NEW g \in Goroutines, NEW k \in Kinds, Commit(g, k)
  PROVE  MapsInv'
<1>0. /\ key' \in [Goroutines -> Kinds] /\ key'[g] = k
      /\ \A h \in Goroutines \ {g} : key'[h] = key[h]
      /\ committed' = [committed EXCEPT ![k] = @ + 1]
      /\ committed \in [Kinds -> Nat]
      /\ UNCHANGED <<byKind, byStatus, old, overlapped>>
      /\ Goto(g, "total") /\ pc[g] = "idle"
  BY DEF Commit, WritersOK
<1>1. \A m \in Kinds : /\ Late(m)' = Late(m) + (committed'[m] - committed[m])
                       /\ Later(m)' = Later(m) + (committed'[m] - committed[m])
  <2> TAKE m \in Kinds
  <2>a. /\ pc[g] \notin Early /\ "total" \in Early
        /\ pc[g] \notin EarlyOrMid /\ "total" \in EarlyOrMid
    BY <1>0 DEF Early, EarlyOrMid
  <2>1. /\ Late(m)' = Late(m) + (IF k = m THEN 1 ELSE 0)
        /\ Later(m)' = Later(m) + (IF k = m THEN 1 ELSE 0)
    BY <1>0, <2>a, LagMoves, MapNumbers DEF Change
  <2>2. committed'[m] - committed[m] = IF k = m THEN 1 ELSE 0
    BY <1>0
  <2> QED
    BY <2>1, <2>2
<1>2. InKind' = InKind \ {g} /\ InStatus' = InStatus \ {g}
  BY <1>0, InsideMoves
<1>n. /\ \A m \in Kinds : committed'[m] \in Nat
      /\ \A h \in Goroutines : key[h] \in Kinds
  BY <1>0 DEF WritersOK
<1>3. ASSUME NEW entry \in Nat, NEW lag \in Nat, NEW m \in Kinds,
             Behind(entry, lag, committed[m], overlapped)
      PROVE  Behind(entry, lag + (committed'[m] - committed[m]), committed'[m],
                    overlapped)
  BY <1>0, <1>n, <1>3 DEF Behind
<1>4. EntriesBehind'
  <2> SUFFICES ASSUME NEW m \in Kinds
               PROVE  /\ Behind(byKind'[m], Late(m)', committed'[m], overlapped')
                      /\ Behind(byStatus'[Outcome(m)], Later(m)', committed'[m],
                                overlapped')
    BY DEF EntriesBehind
  <2>1. /\ Behind(byKind[m], Late(m), committed[m], overlapped)
        /\ Behind(byStatus[Outcome(m)], Later(m), committed[m], overlapped)
    BY DEF MapsInv, EntriesBehind
  <2> QED
    BY <1>0, <1>1, <1>3, <2>1, MapNumbers
<1>5. ReadBehind'
  <2> SUFFICES ASSUME NEW m \in Kinds
               PROVE  /\ \A h \in InKind' : key'[h] = m =>
                           Behind(old'[h], Late(m)', committed'[m], overlapped')
                      /\ \A h \in InStatus' : key'[h] = m =>
                           Behind(old'[h], Later(m)', committed'[m], overlapped')
    BY DEF ReadBehind
  <2>1. ASSUME NEW h \in InKind', key'[h] = m
        PROVE  Behind(old'[h], Late(m)', committed'[m], overlapped')
    <3>1. h \in InKind /\ h \in Goroutines /\ key[h] = m
      BY <1>0, <1>2, <2>1 DEF InKind
    <3>2. Behind(old[h], Late(m), committed[m], overlapped)
      BY <3>1 DEF MapsInv, ReadBehind
    <3> QED
      BY <1>0, <1>1, <1>3, <3>1, <3>2, MapNumbers
  <2>2. ASSUME NEW h \in InStatus', key'[h] = m
        PROVE  Behind(old'[h], Later(m)', committed'[m], overlapped')
    <3>1. h \in InStatus /\ h \in Goroutines /\ key[h] = m
      BY <1>0, <1>2, <2>2 DEF InStatus
    <3>2. Behind(old[h], Later(m), committed[m], overlapped)
      BY <3>1 DEF MapsInv, ReadBehind
    <3> QED
      BY <1>0, <1>1, <1>3, <3>1, <3>2, MapNumbers
  <2> QED
    BY <2>1, <2>2
<1>6. OneInside'
  BY <1>0, <1>2 DEF MapsInv, OneInside
<1> QED
  BY <1>4, <1>5, <1>6 DEF MapsInv

(* A goroutine reads an entry of byKind and is inside.                   *)
LEMMA MapsBeginKind ==
  ASSUME WritersOK, MapsInv, NEW g \in Goroutines, BeginKind(g)
  PROVE  MapsInv'
<1>0. /\ key \in [Goroutines -> Kinds] /\ key' = key /\ old \in [Goroutines -> Nat]
      /\ old' = [old EXCEPT ![g] = byKind[key[g]]]
      /\ UNCHANGED <<byKind, byStatus, committed>>
      /\ overlapped' = (overlapped \/ InKind # {})
      /\ Goto(g, "inKind") /\ pc[g] = "byKind"
  BY DEF BeginKind, WritersOK
<1>1. \A k \in Kinds : Late(k)' = Late(k) /\ Later(k)' = Later(k)
  <2>1. /\ pc[g] \in Early <=> "inKind" \in Early
        /\ pc[g] \in EarlyOrMid <=> "inKind" \in EarlyOrMid
    BY <1>0 DEF Early, EarlyOrMid
  <2> QED
    BY <1>0, <2>1, LagMoves, MapNumbers DEF Change
<1>2. InKind' = InKind \cup {g} /\ InStatus' \subseteq InStatus
  BY <1>0, InsideMoves
<1>3. \A entry, lag, sum : Behind(entry, lag, sum, overlapped)
                             => Behind(entry, lag, sum, overlapped')
  BY <1>0 DEF Behind
<1>4. EntriesBehind'
  BY <1>0, <1>1, <1>3 DEF MapsInv, EntriesBehind
<1>5. ReadBehind'
  <2> SUFFICES ASSUME NEW m \in Kinds
               PROVE  /\ \A h \in InKind' : key'[h] = m =>
                           Behind(old'[h], Late(m)', committed'[m], overlapped')
                      /\ \A h \in InStatus' : key'[h] = m =>
                           Behind(old'[h], Later(m)', committed'[m], overlapped')
    BY DEF ReadBehind
  <2>1. ASSUME key[g] = m
        PROVE  Behind(old'[g], Late(m)', committed'[m], overlapped')
    BY <1>0, <1>1, <1>3, <2>1 DEF MapsInv, EntriesBehind
  <2>2. ASSUME NEW h \in InKind, h # g, key[h] = m
        PROVE  Behind(old'[h], Late(m)', committed'[m], overlapped')
    <3>1. old'[h] = old[h]
      BY <1>0, <2>2 DEF InKind
    <3> QED
      BY <1>0, <1>1, <1>3, <2>2, <3>1 DEF MapsInv, ReadBehind
  <2>3. ASSUME NEW h \in InStatus', key[h] = m
        PROVE  Behind(old'[h], Later(m)', committed'[m], overlapped')
    <3>1. h \in InStatus /\ old'[h] = old[h]
      BY <1>0, <1>2, <2>3 DEF InStatus
    <3> QED
      BY <1>0, <1>1, <1>3, <2>3, <3>1 DEF MapsInv, ReadBehind
  <2> QED
    BY <1>0, <1>2, <2>1, <2>2, <2>3
<1>6. OneInside'
  BY <1>0, <1>2 DEF MapsInv, OneInside
<1> QED
  BY <1>4, <1>5, <1>6 DEF MapsInv

(* A goroutine reads an entry of byStatus and is inside.                 *)
LEMMA MapsBeginStatus ==
  ASSUME WritersOK, MapsInv, NEW g \in Goroutines, BeginStatus(g)
  PROVE  MapsInv'
<1>0. /\ key \in [Goroutines -> Kinds] /\ key' = key /\ old \in [Goroutines -> Nat]
      /\ old' = [old EXCEPT ![g] = byStatus[Outcome(key[g])]]
      /\ UNCHANGED <<byKind, byStatus, committed>>
      /\ overlapped' = (overlapped \/ InStatus # {})
      /\ Goto(g, "inStatus") /\ pc[g] = "byStatus"
  BY DEF BeginStatus, WritersOK
<1>1. \A k \in Kinds : Late(k)' = Late(k) /\ Later(k)' = Later(k)
  <2>1. /\ pc[g] \in Early <=> "inStatus" \in Early
        /\ pc[g] \in EarlyOrMid <=> "inStatus" \in EarlyOrMid
    BY <1>0 DEF Early, EarlyOrMid
  <2> QED
    BY <1>0, <2>1, LagMoves, MapNumbers DEF Change
<1>2. InStatus' = InStatus \cup {g} /\ InKind' \subseteq InKind
  BY <1>0, InsideMoves
<1>3. \A entry, lag, sum : Behind(entry, lag, sum, overlapped)
                             => Behind(entry, lag, sum, overlapped')
  BY <1>0 DEF Behind
<1>4. EntriesBehind'
  BY <1>0, <1>1, <1>3 DEF MapsInv, EntriesBehind
<1>5. ReadBehind'
  <2> SUFFICES ASSUME NEW m \in Kinds
               PROVE  /\ \A h \in InKind' : key'[h] = m =>
                           Behind(old'[h], Late(m)', committed'[m], overlapped')
                      /\ \A h \in InStatus' : key'[h] = m =>
                           Behind(old'[h], Later(m)', committed'[m], overlapped')
    BY DEF ReadBehind
  <2>1. ASSUME key[g] = m
        PROVE  Behind(old'[g], Later(m)', committed'[m], overlapped')
    BY <1>0, <1>1, <1>3, <2>1 DEF MapsInv, EntriesBehind
  <2>2. ASSUME NEW h \in InStatus, h # g, key[h] = m
        PROVE  Behind(old'[h], Later(m)', committed'[m], overlapped')
    <3>1. old'[h] = old[h]
      BY <1>0, <2>2 DEF InStatus
    <3> QED
      BY <1>0, <1>1, <1>3, <2>2, <3>1 DEF MapsInv, ReadBehind
  <2>3. ASSUME NEW h \in InKind', key[h] = m
        PROVE  Behind(old'[h], Late(m)', committed'[m], overlapped')
    <3>1. h \in InKind /\ old'[h] = old[h]
      BY <1>0, <1>2, <2>3 DEF InKind
    <3> QED
      BY <1>0, <1>1, <1>3, <2>3, <3>1 DEF MapsInv, ReadBehind
  <2> QED
    BY <1>0, <1>2, <2>1, <2>2, <2>3
<1>6. OneInside'
  BY <1>0, <1>2 DEF MapsInv, OneInside
<1> QED
  BY <1>4, <1>5, <1>6 DEF MapsInv

(* It stores its entry plus one and leaves byKind: what it has read was  *)
(* behind by itself and the others on their way.                           *)
LEMMA MapsEndKind ==
  ASSUME WritersOK, MapsInv, NEW g \in Goroutines, EndKind(g)
  PROVE  MapsInv'
<1>0. /\ key' = key
      /\ old \in [Goroutines -> Nat] /\ old' = [old EXCEPT ![g] = 0]
      /\ byKind' = [byKind EXCEPT ![key[g]] = old[g] + 1]
      /\ UNCHANGED <<byStatus, committed, overlapped>>
      /\ Goto(g, "byStatus") /\ pc[g] = "inKind"
  BY DEF EndKind, WritersOK, history, Kinds
<1>k. /\ key \in [Goroutines -> Kinds] /\ key' \in [Goroutines -> Kinds]
      /\ \A h \in Goroutines \ {g} : key'[h] = key[h]
  BY <1>0 DEF WritersOK, Kinds
<1>1. ASSUME NEW m \in Kinds
      PROVE  /\ Late(m)' = Late(m) - (IF key[g] = m THEN 1 ELSE 0)
             /\ Later(m)' = Later(m)
  <2>1. /\ pc[g] \in Early /\ "byStatus" \notin Early
        /\ pc[g] \in EarlyOrMid <=> "byStatus" \in EarlyOrMid
        /\ key'[g] = key[g]
    BY <1>0 DEF Early, EarlyOrMid
  <2>2. /\ Late(m)' = Late(m) + Change(pc[g] \in Early /\ key[g] = m,
                                       "byStatus" \in Early /\ key'[g] = m)
        /\ Later(m)' = Later(m) + Change(pc[g] \in EarlyOrMid /\ key[g] = m,
                                         "byStatus" \in EarlyOrMid /\ key'[g] = m)
    <3>1. Goto(g, "byStatus")
      BY <1>0
    <3> QED
      BY <1>k, <3>1, LagMoves, SMTT(30)
  <2>3. /\ Change(pc[g] \in Early /\ key[g] = m, "byStatus" \in Early /\ key'[g] = m)
             = 0 - (IF key[g] = m THEN 1 ELSE 0)
        /\ Change(pc[g] \in EarlyOrMid /\ key[g] = m,
                  "byStatus" \in EarlyOrMid /\ key'[g] = m) = 0
    BY <2>1 DEF Change
  <2>4. Late(m) \in Int /\ Later(m) \in Int
    BY MapNumbers
  <2> QED
    BY <2>2, <2>3, <2>4
<1>2. InKind' = InKind \ {g} /\ InStatus' = InStatus /\ g \in InKind /\ g \notin InStatus
  <2>1. InKind' = InKind \ {g} /\ InStatus' = InStatus \ {g}
    BY <1>0, InsideMoves
  <2> QED
    BY <1>0, <2>1 DEF InKind, InStatus
<1>3. Behind(old[g], Late(key[g]), committed[key[g]], overlapped)
  BY <1>2, <1>k DEF MapsInv, ReadBehind
<1>4. EntriesBehind'
  <2> SUFFICES ASSUME NEW m \in Kinds
               PROVE  /\ Behind(byKind'[m], Late(m)', committed'[m], overlapped')
                      /\ Behind(byStatus'[Outcome(m)], Later(m)', committed'[m],
                                overlapped')
    BY DEF EntriesBehind
  <2>1. /\ Behind(byKind[m], Late(m), committed[m], overlapped)
        /\ Behind(byStatus[Outcome(m)], Later(m), committed[m], overlapped)
    BY DEF MapsInv, EntriesBehind
  <2>2. CASE key[g] = m
    <3>1. byKind'[m] = old[g] + 1
      BY <1>0, <2>2, OutcomesDiffer DEF WritersOK
    <3>2. Late(m)' = Late(m) - 1 /\ Later(m)' = Later(m)
      BY <1>1, <2>2
    <3>3. Behind(old[g] + 1, Late(m) - 1, committed[m], overlapped)
      BY <1>3, <2>2, MapNumbers DEF Behind
    <3> QED
      BY <1>0, <2>1, <3>1, <3>2, <3>3
  <2>3. CASE key[g] # m
    <3>1. byKind'[m] = byKind[m]
      BY <1>0, <1>k, <2>3, OutcomesDiffer DEF WritersOK
    <3>2. Late(m)' = Late(m) /\ Later(m)' = Later(m)
      BY <1>1, <2>3, MapNumbers
    <3> QED
      BY <1>0, <2>1, <3>1, <3>2
  <2> QED
    BY <2>2, <2>3
<1>5. ReadBehind'
  <2> SUFFICES ASSUME NEW m \in Kinds
               PROVE  /\ \A h \in InKind' : key'[h] = m =>
                           Behind(old'[h], Late(m)', committed'[m], overlapped')
                      /\ \A h \in InStatus' : key'[h] = m =>
                           Behind(old'[h], Later(m)', committed'[m], overlapped')
    BY DEF ReadBehind
  <2>1. ASSUME NEW h \in InKind', key'[h] = m
        PROVE  Behind(old'[h], Late(m)', committed'[m], overlapped')
    <3>1. h \in InKind /\ h \in Goroutines /\ h # g
      BY <1>2, <2>1 DEF InKind
    <3>2. key[h] = m /\ old'[h] = old[h]
      BY <1>0, <1>k, <2>1, <3>1
    <3>3. Behind(old[h], Late(m), committed[m], overlapped)
      BY <3>1, <3>2 DEF MapsInv, ReadBehind
    <3>4. overlapped
      BY <1>2, <3>1 DEF MapsInv, OneInside
    <3>5. old[h] + Late(m)' <= committed[m]
      BY <1>1, <3>1, <3>3, MapNumbers DEF Behind
    <3> QED
      BY <1>0, <3>2, <3>4, <3>5 DEF Behind
  <2>2. ASSUME NEW h \in InStatus', key'[h] = m
        PROVE  Behind(old'[h], Later(m)', committed'[m], overlapped')
    <3>1. h \in InStatus /\ h \in Goroutines /\ h # g
      BY <1>2, <2>2 DEF InStatus
    <3>2. key[h] = m /\ old'[h] = old[h]
      BY <1>0, <1>k, <2>2, <3>1
    <3> QED
      BY <1>0, <1>1, <3>1, <3>2 DEF MapsInv, ReadBehind
  <2> QED
    BY <2>1, <2>2
<1>6. OneInside'
  BY <1>0, <1>2 DEF MapsInv, OneInside
<1> QED
  BY <1>4, <1>5, <1>6 DEF MapsInv

(* It stores its entry plus one and leaves byStatus: what it has read was*)
(* behind by itself and the others on their way.                           *)
LEMMA MapsEndStatus ==
  ASSUME WritersOK, MapsInv, NEW g \in Goroutines, EndStatus(g)
  PROVE  MapsInv'
<1>0. /\ key' = [key EXCEPT ![g] = "noop"]
      /\ old \in [Goroutines -> Nat] /\ old' = [old EXCEPT ![g] = 0]
      /\ byStatus' = [byStatus EXCEPT ![Outcome(key[g])] = old[g] + 1]
      /\ UNCHANGED <<byKind, committed, overlapped>>
      /\ Goto(g, "idle") /\ pc[g] = "inStatus"
  BY DEF EndStatus, WritersOK, history, Kinds
<1>k. /\ key \in [Goroutines -> Kinds] /\ key' \in [Goroutines -> Kinds]
      /\ \A h \in Goroutines \ {g} : key'[h] = key[h]
  BY <1>0 DEF WritersOK, Kinds
<1>1. ASSUME NEW m \in Kinds
      PROVE  /\ Later(m)' = Later(m) - (IF key[g] = m THEN 1 ELSE 0)
             /\ Late(m)' = Late(m)
  <2>1. /\ pc[g] \in EarlyOrMid /\ "idle" \notin EarlyOrMid
        /\ pc[g] \in Early <=> "idle" \in Early
        /\ pc[g] \notin Early
    BY <1>0 DEF Early, EarlyOrMid
  <2> QED
    BY <1>0, <1>k, <2>1, LagMoves, MapNumbers DEF Change
<1>2. InStatus' = InStatus \ {g} /\ InKind' = InKind /\ g \in InStatus /\ g \notin InKind
  <2>1. InStatus' = InStatus \ {g} /\ InKind' = InKind \ {g}
    BY <1>0, InsideMoves
  <2> QED
    BY <1>0, <2>1 DEF InKind, InStatus
<1>3. Behind(old[g], Later(key[g]), committed[key[g]], overlapped)
  BY <1>2, <1>k DEF MapsInv, ReadBehind
<1>4. EntriesBehind'
  <2> SUFFICES ASSUME NEW m \in Kinds
               PROVE  /\ Behind(byKind'[m], Late(m)', committed'[m], overlapped')
                      /\ Behind(byStatus'[Outcome(m)], Later(m)', committed'[m],
                                overlapped')
    BY DEF EntriesBehind
  <2>1. /\ Behind(byKind[m], Late(m), committed[m], overlapped)
        /\ Behind(byStatus[Outcome(m)], Later(m), committed[m], overlapped)
    BY DEF MapsInv, EntriesBehind
  <2>2. CASE key[g] = m
    <3>1. byStatus'[Outcome(m)] = old[g] + 1
      BY <1>0, <2>2, OutcomesDiffer DEF WritersOK
    <3>2. Later(m)' = Later(m) - 1 /\ Late(m)' = Late(m)
      BY <1>1, <2>2
    <3>3. Behind(old[g] + 1, Later(m) - 1, committed[m], overlapped)
      BY <1>3, <2>2, MapNumbers DEF Behind
    <3> QED
      BY <1>0, <2>1, <3>1, <3>2, <3>3
  <2>3. CASE key[g] # m
    <3>1. byStatus'[Outcome(m)] = byStatus[Outcome(m)]
      BY <1>0, <1>k, <2>3, OutcomesDiffer DEF WritersOK
    <3>2. Later(m)' = Later(m) /\ Late(m)' = Late(m)
      BY <1>1, <2>3, MapNumbers
    <3> QED
      BY <1>0, <2>1, <3>1, <3>2
  <2> QED
    BY <2>2, <2>3
<1>5. ReadBehind'
  <2> SUFFICES ASSUME NEW m \in Kinds
               PROVE  /\ \A h \in InKind' : key'[h] = m =>
                           Behind(old'[h], Late(m)', committed'[m], overlapped')
                      /\ \A h \in InStatus' : key'[h] = m =>
                           Behind(old'[h], Later(m)', committed'[m], overlapped')
    BY DEF ReadBehind
  <2>1. ASSUME NEW h \in InStatus', key'[h] = m
        PROVE  Behind(old'[h], Later(m)', committed'[m], overlapped')
    <3>1. h \in InStatus /\ h \in Goroutines /\ h # g
      BY <1>2, <2>1 DEF InStatus
    <3>2. key[h] = m /\ old'[h] = old[h]
      BY <1>0, <1>k, <2>1, <3>1
    <3>3. Behind(old[h], Later(m), committed[m], overlapped)
      BY <3>1, <3>2 DEF MapsInv, ReadBehind
    <3>4. overlapped
      BY <1>2, <3>1 DEF MapsInv, OneInside
    <3>5. old[h] + Later(m)' <= committed[m]
      BY <1>1, <3>1, <3>3, MapNumbers DEF Behind
    <3> QED
      BY <1>0, <3>2, <3>4, <3>5 DEF Behind
  <2>2. ASSUME NEW h \in InKind', key'[h] = m
        PROVE  Behind(old'[h], Late(m)', committed'[m], overlapped')
    <3>1. h \in InKind /\ h \in Goroutines /\ h # g
      BY <1>2, <2>2 DEF InKind
    <3>2. key[h] = m /\ old'[h] = old[h]
      BY <1>0, <1>k, <2>2, <3>1
    <3> QED
      BY <1>0, <1>1, <3>1, <3>2 DEF MapsInv, ReadBehind
  <2> QED
    BY <2>1, <2>2
<1>6. OneInside'
  BY <1>0, <1>2 DEF MapsInv, OneInside
<1> QED
  BY <1>4, <1>5, <1>6 DEF MapsInv

LEMMA CountMaps ==
  ASSUME WritersOK, MapsInv, NEW g \in Goroutines, Count(g)
  PROVE  MapsInv'
<1>1. ASSUME NEW a \in Announced, Announce(g, a) PROVE MapsInv'
  <2>1. a \notin EarlyOrMid /\ a \notin Early /\ a \notin {"inKind", "inStatus"}
    BY DEF Announced, Early, EarlyOrMid
  <2>2. pc[g] \notin EarlyOrMid /\ pc[g] \notin Early
    BY <1>1 DEF Announce, Early, EarlyOrMid
  <2> QED
    BY <1>1, <2>1, <2>2, MapsPassBy DEF Announce
<1>2. CASE IncAnnounced(g)
  <2>1. pc[g] \notin EarlyOrMid /\ pc[g] \notin Early
    BY <1>2 DEF IncAnnounced, Announced, Early, EarlyOrMid
  <2>2. "idle" \notin EarlyOrMid /\ "idle" \notin Early
    BY DEF Early, EarlyOrMid
  <2> QED
    BY <1>2, <2>1, <2>2, MapsPassBy DEF IncAnnounced, history
<1>3. ASSUME NEW k \in Kinds, Commit(g, k) PROVE MapsInv'
  BY <1>3, MapsCommit
<1>4. CASE RecordTotal(g) \/ RecordOutcome(g)
  <2>1. PICK l \in {"outcome", "byKind"} : Goto(g, l)
    BY <1>4 DEF RecordTotal, RecordOutcome
  <2>2. l \in Early /\ l \in EarlyOrMid /\ l \notin {"inKind", "inStatus"}
    BY DEF Early, EarlyOrMid
  <2>3. pc[g] \in Early /\ pc[g] \in EarlyOrMid
    BY <1>4 DEF RecordTotal, RecordOutcome, Early, EarlyOrMid
  <2>4. UNCHANGED <<byKind, byStatus, key, old, committed, overlapped>>
    BY <1>4 DEF RecordTotal, RecordOutcome, history
  <2> QED
    BY <2>1, <2>2, <2>3, <2>4, MapsPassBy
<1>5. CASE BeginKind(g)
  BY <1>5, MapsBeginKind
<1>6. CASE EndKind(g)
  BY <1>6, MapsEndKind
<1>7. CASE BeginStatus(g)
  BY <1>7, MapsBeginStatus
<1>8. CASE EndStatus(g)
  BY <1>8, MapsEndStatus
<1> QED
  BY <1>1, <1>2, <1>3, <1>4, <1>5, <1>6, <1>7, <1>8 DEF Count, RecordRun

LEMMA MapsStay ==
  ASSUME MapsInv,
         UNCHANGED <<byKind, byStatus, pc, key, old, committed, overlapped>>
  PROVE  MapsInv'
BY DEF MapsInv, EntriesBehind, ReadBehind, OneInside, Behind, Late, Later,
       Stand, InKind, InStatus

LEMMA MapsStep == TypeOK /\ MapsInv /\ [Next]_vars => MapsInv'
<1> SUFFICES ASSUME WritersOK, MapsInv, [Next]_vars PROVE MapsInv'
  BY TypeIsBoth
<1>1. ASSUME Fresh PROVE MapsInv'
  BY <1>1, MapsIdleNext DEF Fresh
<1>2. CASE Restart \/ RecoverCounts \/ RecoverCommits \/ IncDispatches
  BY <1>2, MapsStay
  DEF Restart, RecoverCounts, RecoverCommits, IncDispatches, writers, history
<1>3. CASE RecoverFails \/ Fatal \/ Stop
  BY <1>1, <1>3 DEF RecoverFails, Fatal, Stop
<1>4. ASSUME NEW g \in Goroutines, Count(g) PROVE MapsInv'
  BY <1>4, CountMaps
<1>5. ASSUME NEW r \in Readers, Read(r) PROVE MapsInv'
  <2>1. UNCHANGED <<phase, writers, history>>
    BY <1>5 DEF Read, handleMetrics, Report, Snapshot, CopyKind, CopyStatus,
                Load, Answer, Copying
  <2> QED
    BY <2>1, MapsStay DEF writers, history
<1>6. CASE UNCHANGED vars
  BY <1>6, MapsStay DEF vars, writers, history
<1> QED
  BY <1>2, <1>3, <1>4, <1>5, <1>6 DEF Next, Boot

LEMMA MapsHold == Spec => [](TypeOK /\ MapsInv)
<1>1. Init => MapsInv
  BY MapsIdle DEF Init
<1> QED
  BY <1>1, MapsStep, TypesStart, TypesStep, PTL DEF Spec

(* Whatever two goroutines inside one map overwrite of each other, it      *)
(* never counts more than was committed, and exactly that, but for those   *)
(* on their way, as long as no two increments have overlapped.             *)
THEOREM MapsAreFollowed == Spec => []MapsFollow
<1>1. TypeOK /\ MapsInv => MapsFollow
  <2> SUFFICES ASSUME WritersOK, MapsInv PROVE MapsFollow
    BY TypeIsBoth
  <2>1. \A k : /\ Stand(Early, k) =
                    {g \in At({"total", "outcome", "byKind", "inKind"}) : key[g] = k}
               /\ Stand(EarlyOrMid, k) = Stand(Early, k)
                    \cup {g \in At({"byStatus", "inStatus"}) : key[g] = k}
    BY DEF Stand, Early, EarlyOrMid, At
  <2> QED
    BY <2>1 DEF MapsInv, EntriesBehind, Behind, Late, Later, MapsFollow
<1> QED
  BY <1>1, MapsHold, PTL

-----------------------------------------------------------------------------
(* Snapshots.  What a reader copies of a kind early is bounded by the runs *)
(* of that kind the total has counted, which only grow until it loads the  *)
(* total.                                                                  *)
Counted(k) == committed[k] - Cardinality(Stand({"total"}, k))

BeforeTotal == {"byKind", "byStatus", "tasksCreated", "runsTotal"}
AfterFailed == {"runsOrphaned", "runsRetried", "dispatches", "done"}
AfterTotal  == AfterFailed \cup {"runsSucceeded", "runsFailed"}

(* The counters of one moment.                                             *)
LEMMA CountersOfOneMoment ==
  ASSUME TypeOK, WritersOK, CountersBalance, MapsInv
  PROVE  /\ \A k \in Kinds : /\ Counted(k) \in Int
                             /\ byKind[k] <= Counted(k)
                             /\ byStatus[Outcome(k)] <= Counted(k)
         /\ atomics["runsTotal"] = Counted("noop") + Counted("fail")
         /\ atomics["runsTotal"] <= atomics["runsSucceeded"]
                + atomics["runsFailed"] + Cardinality(Goroutines)
         /\ Recorded <= atomics["runsTotal"] + Cardinality(Goroutines)
<1>1. ASSUME NEW S, NEW T, T \subseteq S, S \subseteq Goroutines
      PROVE  /\ IsFiniteSet(T) /\ Cardinality(T) \in Nat
             /\ Cardinality(S) \in Nat /\ Cardinality(T) <= Cardinality(S)
  BY <1>1, MetricsAssumption, FS_Subset, FS_CardinalityType
<1>2. ASSUME NEW S, NEW T, S \subseteq Goroutines, T \subseteq Goroutines,
             S \cap T = {}
      PROVE  Cardinality(S \cup T) = Cardinality(S) + Cardinality(T)
  <2>1. IsFiniteSet(S) /\ IsFiniteSet(T)
    BY <1>1, <1>2
  <2>2. Cardinality(S \cup T) = Cardinality(S) + Cardinality(T) - Cardinality(S \cap T)
    BY <2>1, FS_Union
  <2>3. Cardinality(S \cap T) = 0
    BY <1>2, FS_EmptySet
  <2> QED
    BY <1>1, <1>2, <2>2, <2>3
<1>3. ASSUME NEW k \in Kinds
      PROVE  /\ Counted(k) \in Int
             /\ byKind[k] <= Counted(k) /\ byStatus[Outcome(k)] <= Counted(k)
  <2>1. /\ Stand({"total"}, k) \subseteq Stand(Early, k)
        /\ Stand({"total"}, k) \subseteq Stand(EarlyOrMid, k)
        /\ Stand(Early, k) \subseteq Goroutines
        /\ Stand(EarlyOrMid, k) \subseteq Goroutines
    BY DEF Stand, Early, EarlyOrMid
  <2>2. /\ Cardinality(Stand({"total"}, k)) \in Nat
        /\ Cardinality(Stand({"total"}, k)) <= Late(k)
        /\ Cardinality(Stand({"total"}, k)) <= Later(k)
    BY <1>1, <2>1 DEF Late, Later
  <2>3. /\ byKind[k] + Late(k) <= committed[k]
        /\ byStatus[Outcome(k)] + Later(k) <= committed[k]
    BY DEF MapsInv, EntriesBehind, Behind
  <2> QED
    BY <2>2, <2>3, MapNumbers DEF Counted
<1>4. /\ At({"total"}) \subseteq Goroutines
      /\ Stand({"total"}, "noop") \subseteq Goroutines
      /\ Stand({"total"}, "fail") \subseteq Goroutines
      /\ Owing("noop") \subseteq Goroutines /\ Owing("fail") \subseteq Goroutines
      /\ At({"total", "outcome"}) \subseteq Goroutines
  BY DEF At, Stand, Owing
<1>n. /\ Cardinality(Goroutines) \in Nat
      /\ Cardinality(At({"total"})) \in Nat
      /\ Cardinality(At({"total"})) <= Cardinality(Goroutines)
      /\ Cardinality(At({"total", "outcome"})) <= Cardinality(Goroutines)
      /\ Cardinality(Stand({"total"}, "noop")) \in Nat
      /\ Cardinality(Stand({"total"}, "fail")) \in Nat
      /\ Cardinality(Owing("noop")) \in Nat /\ Cardinality(Owing("fail")) \in Nat
      /\ committed["noop"] \in Nat /\ committed["fail"] \in Nat
      /\ atomics["runsTotal"] \in Nat /\ atomics["runsSucceeded"] \in Nat
      /\ atomics["runsFailed"] \in Nat
  BY <1>1, <1>4, AtomicNames DEF WritersOK, Kinds
<1>b. /\ Recorded = atomics["runsTotal"] + Cardinality(At({"total"}))
      /\ committed["noop"] = atomics["runsSucceeded"] + Cardinality(Owing("noop"))
      /\ committed["fail"] = atomics["runsFailed"] + Cardinality(Owing("fail"))
  BY DEF CountersBalance
<1>5. Cardinality(At({"total"})) = Cardinality(Stand({"total"}, "noop"))
                                     + Cardinality(Stand({"total"}, "fail"))
  <2>1. At({"total"}) = Stand({"total"}, "noop") \cup Stand({"total"}, "fail")
    BY DEF At, Stand, WritersOK, Kinds
  <2>2. Stand({"total"}, "noop") \cap Stand({"total"}, "fail") = {}
    BY DEF Stand
  <2> QED
    BY <1>2, <1>4, <2>1, <2>2
<1>6. Cardinality(At({"total", "outcome"}))
        = Cardinality(Owing("noop")) + Cardinality(Owing("fail"))
  <2>1. At({"total", "outcome"}) = Owing("noop") \cup Owing("fail")
    BY DEF At, Owing, WritersOK, Kinds
  <2>2. Owing("noop") \cap Owing("fail") = {}
    BY DEF Owing
  <2> QED
    BY <1>2, <1>4, <2>1, <2>2
<1>7. atomics["runsTotal"] = Counted("noop") + Counted("fail")
  BY <1>n, <1>b, <1>5 DEF Counted, Recorded
<1>8. atomics["runsTotal"] <= atomics["runsSucceeded"]
        + atomics["runsFailed"] + Cardinality(Goroutines)
  BY <1>n, <1>b, <1>6 DEF Recorded
<1>9. Recorded <= atomics["runsTotal"] + Cardinality(Goroutines)
  BY <1>n, <1>b
<1> QED
  BY <1>3, <1>7, <1>8, <1>9

(* What readers compare only grows while the process lives.                *)
Grown ==
  /\ \A k \in Kinds : Counted(k)' >= Counted(k)
  /\ \A f \in Atomic : atomics'[f] >= atomics[f]

LEMMA CountGrows ==
  ASSUME TypeOK, WritersOK, TypeOK', NEW g \in Goroutines, Count(g)
  PROVE  Grown
<1>0. /\ key \in [Goroutines -> Kinds] /\ key' \in [Goroutines -> Kinds]
      /\ atomics \in [Atomic -> Nat] /\ committed \in [Kinds -> Nat]
      /\ \A k : Cardinality(Stand({"total"}, k)) \in Nat
  <2>1. \A k : Stand({"total"}, k) \in SUBSET Goroutines
    BY DEF Stand
  <2> QED
    BY <2>1, MetricsAssumption, FS_Subset, FS_CardinalityType DEF TypeOK
<1>1. ASSUME NEW l, Goto(g, l), UNCHANGED <<atomics, committed>>,
             \A h \in Goroutines \ {g} : key'[h] = key[h],
             pc[g] # "total", l # "total"
      PROVE  Grown
  <2>1. \A k : Cardinality(Stand({"total"}, k)') = Cardinality(Stand({"total"}, k))
    BY <1>0, <1>1, StandMoves DEF Change
  <2> QED
    BY <1>0, <1>1, <2>1 DEF Grown, Counted
<1>2. ASSUME NEW a \in Announced, Announce(g, a) PROVE Grown
  <2>1. a # "total"
    BY DEF Announced
  <2> QED
    BY <1>1, <1>2, <2>1 DEF Announce
<1>3. ASSUME NEW f \in Atomic, Add(f) PROVE \A e \in Atomic : atomics'[e] >= atomics[e]
  BY <1>0, <1>3 DEF Add
<1>4. CASE IncAnnounced(g) \/ RecordOutcome(g)
  <2>1. PICK l \in {"idle", "byKind"} : Goto(g, l)
    BY <1>4 DEF IncAnnounced, RecordOutcome
  <2>2. \A k : Cardinality(Stand({"total"}, k)') = Cardinality(Stand({"total"}, k))
    <3>1. pc[g] # "total" /\ key' = key
      BY <1>4 DEF IncAnnounced, RecordOutcome, Announced
    <3> QED
      BY <1>0, <2>1, <3>1, StandMoves DEF Change
  <2>3. committed' = committed
    BY <1>4 DEF IncAnnounced, RecordOutcome, history
  <2>4. PICK f \in Atomic : Add(f)
    BY <1>4, AtomicNames DEF IncAnnounced, RecordOutcome, Announced
  <2> QED
    BY <1>0, <1>3, <2>2, <2>3, <2>4 DEF Grown, Counted
<1>5. ASSUME NEW k \in Kinds, Commit(g, k) PROVE Grown
  <2>1. /\ Goto(g, "total") /\ pc[g] = "idle" /\ key'[g] = k
        /\ \A h \in Goroutines \ {g} : key'[h] = key[h]
        /\ committed' = [committed EXCEPT ![k] = @ + 1] /\ atomics' = atomics
    BY <1>0, <1>5 DEF Commit
  <2>2. ASSUME NEW m \in Kinds PROVE Counted(m)' >= Counted(m)
    <3>1. Cardinality(Stand({"total"}, m)')
            = Cardinality(Stand({"total"}, m)) + (IF k = m THEN 1 ELSE 0)
      BY <1>0, <2>1, StandMoves DEF Change
    <3>2. committed'[m] = committed[m] + (IF k = m THEN 1 ELSE 0)
      BY <1>0, <2>1
    <3>3. committed[m] \in Nat /\ Cardinality(Stand({"total"}, m)) \in Nat
      BY <1>0
    <3> QED
      BY <3>1, <3>2, <3>3 DEF Counted
  <2> QED
    BY <1>0, <2>1, <2>2 DEF Grown
<1>6. CASE RecordTotal(g)
  <2>1. /\ Goto(g, "outcome") /\ key' = key /\ committed' = committed
        /\ Add("runsTotal") /\ "runsTotal" \in Atomic
    BY <1>6, AtomicNames DEF RecordTotal, history
  <2>2. ASSUME NEW m \in Kinds PROVE Counted(m)' >= Counted(m)
    <3>1. Cardinality(Stand({"total"}, m)') <= Cardinality(Stand({"total"}, m))
          /\ Cardinality(Stand({"total"}, m)') \in Int
      BY <1>0, <2>1, StandMoves DEF Change
    <3> QED
      BY <1>0, <2>1, <3>1 DEF Counted
  <2> QED
    BY <1>3, <2>1, <2>2 DEF Grown
<1>7. CASE BeginKind(g) \/ EndKind(g) \/ BeginStatus(g) \/ EndStatus(g)
  <2>1. /\ \A h \in Goroutines \ {g} : key'[h] = key[h]
        /\ UNCHANGED <<atomics, committed>>
    BY <1>0, <1>7 DEF BeginKind, EndKind, BeginStatus, EndStatus, history
  <2>2. PICK l \in {"inKind", "byStatus", "inStatus", "idle"} : Goto(g, l)
    BY <1>7 DEF BeginKind, EndKind, BeginStatus, EndStatus
  <2>3. pc[g] # "total"
    BY <1>7 DEF BeginKind, EndKind, BeginStatus, EndStatus
  <2> QED
    BY <1>1, <2>1, <2>2, <2>3
<1> QED
  BY <1>2, <1>4, <1>5, <1>6, <1>7 DEF Count, RecordRun

(* The copy a reader has made so far, against the counters of now: before  *)
(* it loads the total, after, and while it loads the outcomes.             *)
EarlyCopy(r) ==
  stage[r] \in BeforeTotal =>
    /\ \A k \in Kinds : /\ snap[r].byKind[k] <= Counted(k)
                         /\ snap[r].byStatus[Outcome(k)] <= Counted(k)
    /\ snap[r].durable <= atomics["runsTotal"] + Cardinality(Goroutines)

LateCopy(r) ==
  stage[r] \in AfterTotal =>
    /\ snap[r].byKind["noop"] + snap[r].byKind["fail"]
         <= snap[r].atomics["runsTotal"]
    /\ snap[r].byStatus["succeeded"] + snap[r].byStatus["failed"]
         <= snap[r].atomics["runsTotal"]
    /\ snap[r].durable <= snap[r].atomics["runsTotal"] + Cardinality(Goroutines)

Outcomes(r) ==
  LET within(succeeded, failed) ==
        snap[r].atomics["runsTotal"] <= succeeded + failed + Cardinality(Goroutines)
  IN  /\ stage[r] = "runsSucceeded" =>
           within(atomics["runsSucceeded"], atomics["runsFailed"])
      /\ stage[r] = "runsFailed" =>
           within(snap[r].atomics["runsSucceeded"], atomics["runsFailed"])
      /\ stage[r] \in AfterFailed =>
           within(snap[r].atomics["runsSucceeded"], snap[r].atomics["runsFailed"])

SnapInv == \A r \in Readers : EarlyCopy(r) /\ LateCopy(r) /\ Outcomes(r)

LEMMA CopyNumbers ==
  ASSUME TypeOK, WritersOK
  PROVE  /\ \A r \in Readers :
              /\ \A f \in Atomic : snap[r].atomics[f] \in Nat
              /\ \A k \in Kinds : snap[r].byKind[k] \in Nat
              /\ \A s \in Statuses : snap[r].byStatus[s] \in Nat
              /\ snap[r].durable \in Nat
         /\ \A f \in Atomic : atomics[f] \in Nat
         /\ \A k \in Kinds : Counted(k) \in Int
         /\ Cardinality(Goroutines) \in Nat
<1>1. \A r \in Readers : snap[r] \in Copies
  BY TypeIsBoth DEF ReadersOK
<1>2. \A k : Cardinality(Stand({"total"}, k)) \in Nat
  <2>1. \A k : Stand({"total"}, k) \in SUBSET Goroutines
    BY DEF Stand
  <2> QED
    BY <2>1, MetricsAssumption, FS_Subset, FS_CardinalityType
<1>3. Cardinality(Goroutines) \in Nat
  BY MetricsAssumption, FS_CardinalityType
<1> QED
  BY <1>1, <1>2, <1>3 DEF Copies, Counted, WritersOK

LEMMA SnapsGrow ==
  ASSUME TypeOK, WritersOK, TypeOK', WritersOK', SnapInv, Grown, UNCHANGED <<stage, snap>>
  PROVE  SnapInv'
<1>1. /\ \A k \in Kinds : Counted(k)' \in Int
      /\ \A f \in Atomic : atomics'[f] \in Nat
  <2>1. \A k : Stand({"total"}, k)' \in SUBSET Goroutines
    BY DEF Stand
  <2>2. \A k : Cardinality(Stand({"total"}, k)') \in Nat
    BY <2>1, MetricsAssumption, FS_Subset, FS_CardinalityType
  <2> QED
    BY <2>2 DEF Counted, WritersOK
<1> SUFFICES ASSUME NEW r \in Readers PROVE (EarlyCopy(r) /\ LateCopy(r) /\ Outcomes(r))'
  BY DEF SnapInv
<1>2. EarlyCopy(r) /\ LateCopy(r) /\ Outcomes(r)
  BY DEF SnapInv
<1>3. EarlyCopy(r)'
  <2> SUFFICES ASSUME stage[r] \in BeforeTotal
               PROVE  /\ \A k \in Kinds :
                           /\ snap[r].byKind[k] <= Counted(k)'
                           /\ snap[r].byStatus[Outcome(k)] <= Counted(k)'
                      /\ snap[r].durable <= atomics'["runsTotal"] + Cardinality(Goroutines)
    BY DEF EarlyCopy
  <2>1. ASSUME NEW k \in Kinds
        PROVE  /\ snap[r].byKind[k] <= Counted(k)'
               /\ snap[r].byStatus[Outcome(k)] <= Counted(k)'
    <3>1. snap[r].byKind[k] <= Counted(k) /\ snap[r].byStatus[Outcome(k)] <= Counted(k)
      BY <1>2 DEF EarlyCopy
    <3>2. snap[r].byKind[k] \in Int /\ snap[r].byStatus[Outcome(k)] \in Int
      BY CopyNumbers, OutcomesDiffer
    <3> QED
      BY <1>1, <3>1, <3>2, CopyNumbers DEF Grown
  <2>2. snap[r].durable <= atomics'["runsTotal"] + Cardinality(Goroutines)
    BY <1>1, <1>2, CopyNumbers, AtomicNames DEF Grown, EarlyCopy
  <2> QED
    BY <2>1, <2>2
<1>4. LateCopy(r)'
  BY <1>2 DEF LateCopy
<1>5. Outcomes(r)'
  BY <1>1, <1>2, CopyNumbers, AtomicNames DEF Grown, Outcomes
<1> QED
  BY <1>3, <1>4, <1>5

LEMMA LoadsInOrder ==
  /\ AfterLoad("tasksCreated") = "runsTotal"
  /\ AfterLoad("runsTotal") = "runsSucceeded"
  /\ AfterLoad("runsSucceeded") = "runsFailed"
  /\ \A f \in Atomic \ {"tasksCreated", "runsTotal", "runsSucceeded"} :
       AfterLoad(f) \in AfterFailed
  /\ LoadOrder[1] = "tasksCreated"
<1>1. DOMAIN LoadOrder = 1..7 /\ Len(LoadOrder) = 7
  BY DEF LoadOrder
<1>2. ASSUME NEW i \in 1..7, NEW f, f = LoadOrder[i]
      PROVE  AfterLoad(f) = IF i = 7 THEN "done" ELSE LoadOrder[i + 1]
  <2>1. \A j \in 1..7 : LoadOrder[j] = f => j = i
    BY <1>2 DEF LoadOrder
  <2> DEFINE c == CHOOSE j \in DOMAIN LoadOrder : LoadOrder[j] = f
  <2>2. c = i
    BY <1>1, <1>2, <2>1
  <2>3. AfterLoad(f) = IF c = Len(LoadOrder) THEN "done" ELSE LoadOrder[c + 1]
    BY DEF AfterLoad
  <2> HIDE DEF c
  <2> QED
    BY <1>1, <2>2, <2>3
<1>3. /\ LoadOrder[1] = "tasksCreated" /\ LoadOrder[2] = "runsTotal"
      /\ LoadOrder[3] = "runsSucceeded" /\ LoadOrder[4] = "runsFailed"
      /\ LoadOrder[5] = "runsOrphaned" /\ LoadOrder[6] = "runsRetried"
      /\ LoadOrder[7] = "dispatches"
  BY DEF LoadOrder
<1>4. /\ AfterLoad("tasksCreated") = "runsTotal"
      /\ AfterLoad("runsTotal") = "runsSucceeded"
      /\ AfterLoad("runsSucceeded") = "runsFailed"
      /\ AfterLoad("runsFailed") = "runsOrphaned"
      /\ AfterLoad("runsOrphaned") = "runsRetried"
      /\ AfterLoad("runsRetried") = "dispatches"
      /\ AfterLoad("dispatches") = "done"
  BY <1>2, <1>3
<1> QED
  BY <1>3, <1>4, AtomicNames DEF AfterFailed

(* One reader copies; the counters and the other readers stand still.      *)
LEMMA CopyingMoves ==
  ASSUME TypeOK, WritersOK, SnapInv, NEW r \in Readers, NEW st, NEW l, NEW copy,
         Copying(r, st, l, copy),
         EarlyCopy(r)', LateCopy(r)', Outcomes(r)'
  PROVE  SnapInv'
<1>1. \A k \in Kinds : Counted(k)' = Counted(k)
  BY DEF Copying, writers, history, Counted, Stand
<1>2. atomics' = atomics
  BY DEF Copying, writers
<1> SUFFICES ASSUME NEW q \in Readers, q # r
             PROVE  (EarlyCopy(q) /\ LateCopy(q) /\ Outcomes(q))'
  BY DEF SnapInv
<1>3. stage'[q] = stage[q] /\ snap'[q] = snap[q]
  BY DEF Copying, TypeOK
<1>4. EarlyCopy(q) /\ LateCopy(q) /\ Outcomes(q)
  BY DEF SnapInv
<1>5. EarlyCopy(q)'
  BY <1>1, <1>2, <1>3, <1>4 DEF EarlyCopy
<1>6. LateCopy(q)' /\ Outcomes(q)'
  BY <1>2, <1>3, <1>4 DEF LateCopy, Outcomes
<1> QED
  BY <1>5, <1>6

LEMMA ReadSnaps ==
  ASSUME TypeOK, WritersOK, CountersBalance, MapsInv, SnapInv,
         NEW r \in Readers, Read(r)
  PROVE  SnapInv'
<1>0. /\ \A k \in Kinds : Counted(k)' = Counted(k)
      /\ UNCHANGED <<atomics, byKind, byStatus>>
  <2>1. UNCHANGED <<phase, writers, history>>
    BY DEF Read, handleMetrics, Report, Snapshot, CopyKind, CopyStatus,
           Load, Answer, Copying
  <2> QED
    BY <2>1 DEF writers, history, Counted, Stand
<1>n. /\ EarlyCopy(r) /\ LateCopy(r) /\ Outcomes(r)
      /\ stage \in [Readers -> Stages] /\ snap \in [Readers -> Copies]
  BY TypeIsBoth DEF SnapInv, ReadersOK
<1>1. ASSUME NEW st, NEW l, NEW copy, Copying(r, st, l, copy)
      PROVE  stage'[r] = st /\ snap'[r] = copy
  BY <1>n, <1>1 DEF Copying
<1>2. CASE handleMetrics(r) \/ Report(r)
  <2>1. PICK d \in {0, Recorded} :
          Copying(r, "byKind", Kinds, [NoCopy EXCEPT !.durable = d])
    <3>1. NoCopy = [NoCopy EXCEPT !.durable = 0]
      BY DEF NoCopy
    <3> QED
      BY <1>2, <3>1 DEF handleMetrics, Report
  <2>2. d <= atomics["runsTotal"] + Cardinality(Goroutines)
    BY CountersOfOneMoment, CopyNumbers, AtomicNames
  <2>3. /\ stage'[r] = "byKind" /\ snap'[r].durable = d
        /\ \A k \in Kinds : snap'[r].byKind[k] = 0
        /\ \A s \in Statuses : snap'[r].byStatus[s] = 0
    BY <1>1, <2>1 DEF NoCopy
  <2>4. \A k \in Kinds : 0 <= Counted(k)
    BY CountersOfOneMoment, MapNumbers
  <2>5. EarlyCopy(r)'
    BY <1>0, <2>2, <2>3, <2>4, OutcomesDiffer DEF EarlyCopy
  <2>6. LateCopy(r)' /\ Outcomes(r)'
    BY <2>3 DEF LateCopy, Outcomes, AfterTotal, AfterFailed
  <2> QED
    BY <2>1, <2>5, <2>6, CopyingMoves
<1>3. CASE CopyKind(r)
  <2>1. PICK k \in left[r], st \in {"byKind", "byStatus"} : \E l :
          Copying(r, st, l, [snap[r] EXCEPT !.byKind[k] = byKind[k]])
    BY <1>3 DEF CopyKind
  <2>2. /\ stage'[r] = st /\ stage[r] = "byKind" /\ st \in BeforeTotal
        /\ stage[r] \in BeforeTotal
        /\ snap'[r] = [snap[r] EXCEPT !.byKind[k] = byKind[k]]
    BY <1>1, <1>3, <2>1 DEF CopyKind, BeforeTotal
  <2>3. /\ snap'[r].durable = snap[r].durable
        /\ snap'[r].byStatus = snap[r].byStatus
        /\ \A m \in Kinds : snap'[r].byKind[m] \in {snap[r].byKind[m], byKind[m]}
    BY <1>n, <2>2 DEF Copies
  <2>4. EarlyCopy(r)'
    BY <1>0, <1>n, <2>2, <2>3, CountersOfOneMoment DEF EarlyCopy
  <2>5. LateCopy(r)' /\ Outcomes(r)'
    BY <2>2 DEF LateCopy, Outcomes, AfterTotal, AfterFailed, BeforeTotal
  <2> QED
    BY <2>1, <2>4, <2>5, CopyingMoves
<1>4. CASE CopyStatus(r)
  <2>1. PICK s \in left[r], st \in {"byStatus", "tasksCreated"} : \E l :
          Copying(r, st, l, [snap[r] EXCEPT !.byStatus[s] = byStatus[s]])
    BY <1>4, LoadsInOrder DEF CopyStatus
  <2>2. /\ stage'[r] = st /\ stage[r] = "byStatus" /\ st \in BeforeTotal
        /\ stage[r] \in BeforeTotal
        /\ snap'[r] = [snap[r] EXCEPT !.byStatus[s] = byStatus[s]]
    BY <1>1, <1>4, <2>1 DEF CopyStatus, BeforeTotal
  <2>3. /\ snap'[r].durable = snap[r].durable
        /\ snap'[r].byKind = snap[r].byKind
        /\ \A o \in Statuses :
             snap'[r].byStatus[o] \in {snap[r].byStatus[o], byStatus[o]}
    BY <1>n, <2>2 DEF Copies
  <2>4. EarlyCopy(r)'
    BY <1>0, <1>n, <2>2, <2>3, CountersOfOneMoment, OutcomesDiffer DEF EarlyCopy
  <2>5. LateCopy(r)' /\ Outcomes(r)'
    BY <2>2 DEF LateCopy, Outcomes, AfterTotal, AfterFailed, BeforeTotal
  <2> QED
    BY <2>1, <2>4, <2>5, CopyingMoves
<1>5. CASE Load(r)
  <2>f. PICK f \in Atomic : f = stage[r]
    BY <1>5 DEF Load
  <2>1. Copying(r, AfterLoad(f), {}, [snap[r] EXCEPT !.atomics[f] = atomics[f]])
    BY <1>5, <2>f DEF Load
  <2>2. /\ stage'[r] = AfterLoad(f)
        /\ snap'[r] = [snap[r] EXCEPT !.atomics[f] = atomics[f]]
    BY <1>1, <2>1
  <2>3. /\ snap'[r].durable = snap[r].durable
        /\ snap'[r].byKind = snap[r].byKind /\ snap'[r].byStatus = snap[r].byStatus
        /\ snap'[r].atomics[f] = atomics[f]
        /\ \A e \in Atomic \ {f} : snap'[r].atomics[e] = snap[r].atomics[e]
    BY <1>n, <2>2 DEF Copies
  <2>4. CASE f = "tasksCreated"
    <3>1. stage'[r] = "runsTotal"
      BY <2>2, <2>4, LoadsInOrder
    <3>2. EarlyCopy(r)'
      BY <1>0, <1>n, <2>f, <2>3, <2>4, <3>1 DEF EarlyCopy, BeforeTotal
    <3>3. LateCopy(r)' /\ Outcomes(r)'
      BY <3>1 DEF LateCopy, Outcomes, AfterTotal, AfterFailed
    <3> QED
      BY <2>1, <3>2, <3>3, CopyingMoves
  <2>5. CASE f = "runsTotal"
    <3>1. stage'[r] = "runsSucceeded"
      BY <2>2, <2>5, LoadsInOrder
    <3>2. /\ snap[r].byKind["noop"] <= Counted("noop")
          /\ snap[r].byKind["fail"] <= Counted("fail")
          /\ snap[r].byStatus["succeeded"] <= Counted("noop")
          /\ snap[r].byStatus["failed"] <= Counted("fail")
          /\ snap[r].durable <= atomics["runsTotal"] + Cardinality(Goroutines)
      BY <1>n, <2>f, <2>5 DEF EarlyCopy, BeforeTotal, Kinds, Outcome
    <3>3. snap'[r].atomics["runsTotal"] = Counted("noop") + Counted("fail")
      BY <2>3, <2>5, CountersOfOneMoment
    <3>4. /\ snap[r].byKind["noop"] \in Nat /\ snap[r].byKind["fail"] \in Nat
          /\ snap[r].byStatus["succeeded"] \in Nat
          /\ snap[r].byStatus["failed"] \in Nat
          /\ Counted("noop") \in Int /\ Counted("fail") \in Int
      BY CopyNumbers DEF Kinds, Statuses
    <3>5. /\ snap[r].byKind["noop"] + snap[r].byKind["fail"]
               <= snap'[r].atomics["runsTotal"]
          /\ snap[r].byStatus["succeeded"] + snap[r].byStatus["failed"]
               <= snap'[r].atomics["runsTotal"]
      BY <3>2, <3>3, <3>4
    <3>6. EarlyCopy(r)'
      BY <3>1 DEF EarlyCopy, BeforeTotal
    <3>7. LateCopy(r)'
      BY <2>3, <2>5, <3>2, <3>5 DEF LateCopy
    <3>8. Outcomes(r)'
      BY <1>0, <2>3, <2>5, <3>1, CountersOfOneMoment DEF Outcomes, AfterFailed
    <3> QED
      BY <2>1, <3>6, <3>7, <3>8, CopyingMoves
  <2>6. CASE f \notin {"tasksCreated", "runsTotal"}
    <3>1. /\ stage[r] \in AfterTotal /\ stage'[r] \notin BeforeTotal
          /\ stage'[r] = "runsFailed" <=> f = "runsSucceeded"
          /\ stage'[r] # "runsSucceeded"
      BY <2>f, <2>2, <2>6, LoadsInOrder, AtomicNames
      DEF AfterTotal, AfterFailed, BeforeTotal
    <3>2. snap'[r].atomics["runsTotal"] = snap[r].atomics["runsTotal"]
      BY <2>3, <2>6, AtomicNames
    <3>3. EarlyCopy(r)'
      BY <3>1 DEF EarlyCopy
    <3>4. LateCopy(r)'
      BY <1>n, <2>3, <3>1, <3>2 DEF LateCopy
    <3>5. Outcomes(r)'
      <4>1. CASE f = "runsSucceeded"
        <5>1. snap'[r].atomics["runsSucceeded"] = atomics["runsSucceeded"]
          BY <2>3, <4>1
        <5> QED
          BY <1>0, <1>n, <2>f, <3>1, <3>2, <4>1, <5>1 DEF Outcomes, AfterFailed
      <4>2. CASE f = "runsFailed"
        <5>1. /\ snap'[r].atomics["runsSucceeded"] = snap[r].atomics["runsSucceeded"]
              /\ snap'[r].atomics["runsFailed"] = atomics["runsFailed"]
          BY <2>3, <4>2, AtomicNames
        <5> QED
          BY <1>0, <1>n, <2>f, <3>1, <3>2, <4>2, <5>1 DEF Outcomes
      <4>3. CASE f \notin {"runsSucceeded", "runsFailed"}
        <5>1. /\ snap'[r].atomics["runsSucceeded"] = snap[r].atomics["runsSucceeded"]
              /\ snap'[r].atomics["runsFailed"] = snap[r].atomics["runsFailed"]
          BY <2>3, <4>3, AtomicNames
        <5>2. stage[r] \in AfterFailed
          BY <2>f, <2>6, <4>3, AtomicNames DEF AfterFailed
        <5> QED
          BY <1>n, <3>1, <3>2, <4>3, <5>1, <5>2 DEF Outcomes
      <4> QED
        BY <4>1, <4>2, <4>3
    <3> QED
      BY <2>1, <3>3, <3>4, <3>5, CopyingMoves
  <2> QED
    BY <2>4, <2>5, <2>6
<1>6. CASE Answer(r)
  <2>1. Copying(r, "idle", {}, NoCopy) /\ stage'[r] = "idle"
    BY <1>1, <1>6 DEF Answer
  <2>2. EarlyCopy(r)' /\ LateCopy(r)' /\ Outcomes(r)'
    BY <2>1 DEF EarlyCopy, LateCopy, Outcomes, BeforeTotal, AfterTotal, AfterFailed
  <2> QED
    BY <2>1, <2>2, CopyingMoves
<1> QED
  BY <1>2, <1>3, <1>4, <1>5, <1>6 DEF Read, Snapshot

LEMMA SnapsStep ==
  TypeOK /\ TypeOK' /\ CountersBalance /\ MapsInv /\ SnapInv /\ [Next]_vars
    => SnapInv'
<1> SUFFICES ASSUME TypeOK, WritersOK, TypeOK', WritersOK', CountersBalance,
                    MapsInv, SnapInv, [Next]_vars
             PROVE  SnapInv'
  BY TypeIsBoth
<1>0. atomics \in [Atomic -> Nat] /\ \A k \in Kinds : Counted(k) \in Int
  BY CopyNumbers DEF WritersOK
<1>1. ASSUME Fresh PROVE SnapInv'
  BY <1>1 DEF Fresh, SnapInv, EarlyCopy, LateCopy, Outcomes, BeforeTotal,
              AfterTotal, AfterFailed
<1>2. ASSUME UNCHANGED <<pc, key, committed, stage, snap>>,
             \A f \in Atomic : atomics'[f] >= atomics[f]
      PROVE  SnapInv'
  <2>1. \A k \in Kinds : Counted(k)' = Counted(k)
    BY <1>2 DEF Counted, Stand
  <2> QED
    BY <1>0, <1>2, <2>1, SnapsGrow DEF Grown
<1>3. CASE RecoverCounts \/ IncDispatches
  <2>1. PICK f \in Atomic : Add(f)
    BY <1>3, AtomicNames DEF RecoverCounts, IncDispatches
  <2>2. \A e \in Atomic : atomics'[e] >= atomics[e]
    BY <1>0, <2>1 DEF Add
  <2> QED
    BY <1>2, <1>3, <2>2 DEF RecoverCounts, IncDispatches, readers, history
<1>4. CASE Restart \/ RecoverCommits \/ UNCHANGED vars
  <2>1. UNCHANGED <<atomics, pc, key, committed, stage, snap>>
    BY <1>4 DEF Restart, RecoverCommits, vars, writers, readers, history
  <2> QED
    BY <1>0, <1>2, <2>1
<1>5. CASE RecoverFails \/ Fatal \/ Stop
  BY <1>1, <1>5 DEF RecoverFails, Fatal, Stop
<1>6. ASSUME NEW g \in Goroutines, Count(g) PROVE SnapInv'
  <2>1. UNCHANGED <<stage, snap>>
    BY <1>6 DEF Count, Announce, IncAnnounced, Commit, RecordRun, RecordTotal,
                RecordOutcome, BeginKind, EndKind, BeginStatus, EndStatus, readers
  <2> QED
    BY <1>6, <2>1, CountGrows, SnapsGrow
<1>7. ASSUME NEW r \in Readers, Read(r) PROVE SnapInv'
  BY <1>7, ReadSnaps
<1> QED
  BY <1>3, <1>4, <1>5, <1>6, <1>7 DEF Next, Boot

(* A client may rely on SnapshotBounds with any number of goroutines: it   *)
(* rests on the order of the loads, the maps before the total and the      *)
(* total before the outcomes, and on nothing being lost from an atomic.    *)
THEOREM SnapshotsAreBounded == Spec => []SnapshotBounds
<1>1. Init => SnapInv
  BY DEF Init, SnapInv, EarlyCopy, LateCopy, Outcomes, BeforeTotal, AfterTotal,
         AfterFailed
<1>2. SnapInv => SnapshotBounds
  BY DEF SnapInv, LateCopy, Outcomes, AfterTotal, AfterFailed, SnapshotBounds
<1>3. Spec => []SnapInv
  BY <1>1, SnapsStep, MapsHold, CountersAreBalanced, PTL DEF Spec
<1> QED
  BY <1>2, <1>3, PTL
=============================================================================
