----------------------------- MODULE Connection -----------------------------
(***************************************************************************)
(* The one connection of the store (SetMaxOpenConns(1)) and the goroutines *)
(* that share it: each operation of the program is a number of             *)
(* transactions one after the other, BeginTx waits without a deadline, and *)
(* an operation is answered when its handler (or Tick) returns.  What the  *)
(* transactions do is in Engine; here is why each of its steps is atomic   *)
(* and whether each is ever taken.                                         *)
(***************************************************************************)
EXTENDS Integers

CONSTANTS
  Requesters,     \* goroutines that serve requests
  MaxDue,         \* bound: due tasks a Tick finds
  Nobody, Leaked  \* values of holder that are no goroutine

Ticker     == "ticker"
Goroutines == Requesters \cup {Ticker}

ASSUME ConnectionAssumption ==
  /\ MaxDue \in Nat
  /\ Ticker \notin Requesters
  /\ {Nobody, Leaked} \cap Goroutines = {} /\ Nobody # Leaked

(* The transactions of an operation that meets no error; a Tick that finds *)
(* due tasks goes on with three for each (insert, execute, advance).       *)
Transactions ==
  [single  |-> 1,  \* reads, updates, deletes, flags and new tasks
   trigger |-> 3,  \* load, insert, execute
   retry   |-> 3,
   preview |-> 1,
   scan    |-> 1]

Operations(g) ==
  IF g = Ticker THEN {"scan"} ELSE DOMAIN Transactions \ {"scan"}

VARIABLES
  holder,   \* whose transaction is open
  stage,    \* idle, between transactions, waiting in BeginTx, open
  op,       \* the operation each goroutine is in
  left      \* transactions it has still to begin or end

vars == <<holder, stage, op, left>>

Init ==
  /\ holder = Nobody
  /\ stage = [g \in Goroutines |-> "idle"]
  /\ op    = [g \in Goroutines |-> "none"]
  /\ left  = [g \in Goroutines |-> 0]

Arrive(g) ==
  /\ stage[g] = "idle"
  /\ \E o \in Operations(g) : /\ op'   = [op EXCEPT ![g] = o]
                             /\ left' = [left EXCEPT ![g] = Transactions[o]]
  /\ stage' = [stage EXCEPT ![g] = "between"]
  /\ UNCHANGED holder

Waiting == {g \in Goroutines : stage[g] = "waiting"}

BeginTx(g) ==
  /\ stage[g] = "between"
  /\ \/ /\ holder = Nobody /\ Waiting = {}
        /\ holder' = g
        /\ stage' = [stage EXCEPT ![g] = "open"]
     \/ /\ holder # Nobody \/ Waiting # {}
        /\ stage' = [stage EXCEPT ![g] = "waiting"]
        /\ UNCHANGED holder
  /\ UNCHANGED <<op, left>>

(* database/sql hands a connection that is returned to one of those that   *)
(* wait for it, in no order.                                               *)
Grant(g) ==
  /\ holder = Nobody /\ stage[g] = "waiting"
  /\ holder' = g
  /\ stage' = [stage EXCEPT ![g] = "open"]
  /\ UNCHANGED <<op, left>>

(* How many transactions may follow: a request goes on, or an error or a   *)
(* refusal ends it; Tick goes on with what it found due, and a dispatch    *)
(* that fails gives way to the next task.                                  *)
Following(g) ==
  CASE op[g] = "scan"     -> {3 * n : n \in 0..MaxDue}
    [] op[g] = "dispatch" -> {left[g] - 1, 3 * ((left[g] - 1) \div 3)}
    [] OTHER              -> {left[g] - 1, 0}

(* With none to follow the handler, or Tick, returns.                      *)
GoOn(g, n) ==
  /\ stage' = [stage EXCEPT ![g] = IF n = 0 THEN "idle" ELSE "between"]
  /\ op'    = [op EXCEPT ![g] = IF n = 0 THEN "none"
                                ELSE IF @ = "scan" THEN "dispatch" ELSE @]
  /\ left'  = [left EXCEPT ![g] = n]

BugEndTx(g) ==  \* an early return forgets the transaction it has open
  /\ stage[g] = "open"
  /\ \E n \in Following(g) :
       /\ GoOn(g, n)
       /\ holder' = IF n < left[g] - 1 THEN holder ELSE Nobody

BugEndTxLater(g) ==  \* the rollback is deferred to the end of the operation
  /\ stage[g] = "open"
  /\ \E n \in Following(g) :
       GoOn(g, n) /\ holder' = IF n = 0 THEN Nobody ELSE holder

(* Commit or Rollback.                                                     *)
EndTx(g) ==
  /\ stage[g] = "open"
  /\ \E n \in Following(g) : GoOn(g, n)
  /\ holder' = Nobody

(* The preview of a cron task writes to a nil map.  panicRecovery answers  *)
(* 500, and the transaction of the handler stays open.                     *)
Panic(g) ==
  /\ stage[g] = "open" /\ op[g] = "preview"
  /\ GoOn(g, 0)
  /\ holder' = Leaked

Next ==
  \E g \in Goroutines :
    Arrive(g) \/ BeginTx(g) \/ Grant(g) \/ EndTx(g) \/ Panic(g)

(* A goroutine that may go on does, and database/sql, which picks at       *)
(* random, does not pass the same one over for ever.                       *)
Fairness ==
  \A g \in Goroutines :
    WF_vars(BeginTx(g)) /\ SF_vars(Grant(g)) /\ WF_vars(EndTx(g) \/ Panic(g))

Spec == Init /\ [][Next]_vars /\ Fairness

-----------------------------------------------------------------------------
(* The connection is held by the goroutine whose transaction is open, and  *)
(* by nobody who waits for it, has returned or is between transactions: a  *)
(* BeginTx never waits for the caller's own transaction to end.            *)
NoSelfWait ==
  \A g \in Goroutines : holder = g <=> stage[g] = "open"

(* Every request is answered and every Tick comes to its end, however many *)
(* transactions each needs and however they fail, unless a preview has     *)
(* panicked.                                                               *)
OperationsEnd ==
  \A g \in Goroutines :
    (stage[g] # "idle") ~> (stage[g] = "idle" \/ holder = Leaked)

(* Said and not kept (handlers.go, panicRecovery: a panic is answered with *)
(* 500 instead of crashing the server; store.go, BeginTx: "Callers must    *)
(* Commit or Rollback"): every request is answered, come what may.         *)
EveryRequestIsAnswered ==
  \A g \in Requesters : (stage[g] # "idle") ~> (stage[g] = "idle")
=============================================================================
