----------------------------- MODULE RunLedger -----------------------------
(***************************************************************************)
(* What the engine promises about runs, whatever goroutines, tables and    *)
(* transactions do: a run is created once, whoever creates it owes its     *)
(* execution, an execution is reported at most once and counted exactly    *)
(* when it is reported, and a run that ended never changes again.  A crash *)
(* or a failure can only lose what is owed; recovery writes off every run  *)
(* left running and may replace each by at most one new attempt.           *)
(***************************************************************************)
EXTENDS Integers

CONSTANTS RunId, Day

VARIABLES
  life,   \* where each run is in its life
  owed,   \* runs somebody will still execute
  tally   \* executions counted, per day

lvars == <<life, owed, tally>>

Unended   == {"pending", "running"}
Executed  == {"succeeded", "failed"}
Standing  == Unended \cup Executed \cup {"orphaned"}
LifeStage == Standing \cup {"none", "gone"}

LedgerTypeOK ==
  /\ life \in [RunId -> LifeStage]
  /\ owed \in SUBSET RunId
  /\ tally \in [Day -> Nat]

LedgerInit ==
  /\ life = [r \in RunId |-> "none"]
  /\ owed = {}
  /\ tally = [d \in Day |-> 0]

Create(r, stage) ==
  /\ life[r] = "none"
  /\ life' = [life EXCEPT ![r] = stage]
  /\ owed' = owed \cup {r}
  /\ UNCHANGED tally

(* The row may have been deleted meanwhile: the execution counts anyway.   *)
Report(r, outcome, d) ==
  /\ r \in owed
  /\ \/ life[r] \in Unended /\ life' = [life EXCEPT ![r] = outcome]
     \/ life[r] = "gone" /\ UNCHANGED life
  /\ owed'  = owed \ {r}
  /\ tally' = [tally EXCEPT ![d] = @ + 1]

Delete(R) ==
  /\ \A r \in R : life[r] \in Standing
  /\ life' = [r \in RunId |-> IF r \in R THEN "gone" ELSE life[r]]
  /\ UNCHANGED <<owed, tally>>

Lose(R) ==
  /\ owed' = owed \ R
  /\ UNCHANGED <<life, tally>>

(* Nothing is owed when the process starts: every run still running is     *)
(* orphaned, and the runs R each replace another one of them.              *)
WriteOff(R) ==
  LET Lost == {r \in RunId : life[r] = "running"} IN
  /\ owed = {}
  /\ \A r \in R : life[r] = "none"
  /\ \E replaced \in [R -> Lost] :
       \A a, b \in R : replaced[a] = replaced[b] => a = b
  /\ life' = [r \in RunId |-> IF r \in Lost THEN "orphaned"
                              ELSE IF r \in R THEN "pending" ELSE life[r]]
  /\ owed' = R
  /\ UNCHANGED tally

LedgerNext ==
  \/ \E r \in RunId, stage \in Unended : Create(r, stage)
  \/ \E r \in RunId, outcome \in Executed, d \in Day : Report(r, outcome, d)
  \/ \E R \in SUBSET RunId : Delete(R) \/ Lose(R) \/ WriteOff(R)

LedgerSpec == LedgerInit /\ [][LedgerNext]_lvars
=============================================================================
