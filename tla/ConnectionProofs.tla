-------------------------- MODULE ConnectionProofs --------------------------
(***************************************************************************)
(* For any number of goroutines and due tasks: no goroutine waits for the  *)
(* connection while it holds it, and none returns with it.                 *)
(***************************************************************************)
EXTENDS Connection, TLAPS

ConnectionTypeOK ==
  /\ holder \in Goroutines \cup {Nobody, Leaked}
  /\ stage \in [Goroutines -> {"idle", "between", "waiting", "open"}]

ConnectionInv == ConnectionTypeOK /\ NoSelfWait

(* A goroutine that takes the free connection is its only holder.          *)
LEMMA Take ==
  ASSUME ConnectionInv, NEW g \in Goroutines, holder = Nobody, holder' = g,
         stage' = [stage EXCEPT ![g] = "open"]
  PROVE  ConnectionInv'
<1>1. \A h \in Goroutines : stage[h] # "open"
  BY ConnectionAssumption DEF ConnectionInv, NoSelfWait
<1>2. \A h \in Goroutines : stage'[h] = IF h = g THEN "open" ELSE stage[h]
  BY DEF ConnectionInv, ConnectionTypeOK
<1>3. ConnectionTypeOK'
  BY DEF ConnectionInv, ConnectionTypeOK
<1> QED
  BY <1>1, <1>2, <1>3 DEF ConnectionInv, NoSelfWait

(* A goroutine that ends its transaction leaves the connection to nobody,  *)
(* or leaked.                                                              *)
LEMMA Release ==
  ASSUME ConnectionInv, NEW g \in Goroutines, stage[g] = "open",
         NEW s \in {"idle", "between"}, stage' = [stage EXCEPT ![g] = s],
         holder' \in {Nobody, Leaked}
  PROVE  ConnectionInv'
<1>1. \A h \in Goroutines : stage[h] = "open" => h = g
  BY DEF ConnectionInv, NoSelfWait
<1>2. \A h \in Goroutines : stage'[h] = IF h = g THEN s ELSE stage[h]
  BY DEF ConnectionInv, ConnectionTypeOK
<1>3. \A h \in Goroutines : stage'[h] # "open" /\ holder' # h
  BY <1>1, <1>2, ConnectionAssumption
<1>4. ConnectionTypeOK'
  BY DEF ConnectionInv, ConnectionTypeOK
<1> QED
  BY <1>3, <1>4 DEF ConnectionInv, NoSelfWait

(* Steps of a goroutine without a transaction leave the holder alone.      *)
LEMMA Elsewhere ==
  ASSUME ConnectionInv, NEW g \in Goroutines, stage[g] # "open",
         NEW s \in {"between", "waiting"}, stage' = [stage EXCEPT ![g] = s],
         holder' = holder
  PROVE  ConnectionInv'
<1>1. \A h \in Goroutines : stage'[h] = IF h = g THEN s ELSE stage[h]
  BY DEF ConnectionInv, ConnectionTypeOK
<1>2. ConnectionTypeOK'
  BY DEF ConnectionInv, ConnectionTypeOK
<1> QED
  BY <1>1, <1>2 DEF ConnectionInv, NoSelfWait

LEMMA ConnectionStep ==
  ASSUME ConnectionInv, [Next]_vars
  PROVE  ConnectionInv'
<1>1. ASSUME NEW g \in Goroutines, Arrive(g)
      PROVE  ConnectionInv'
  BY <1>1, Elsewhere DEF Arrive
<1>2. ASSUME NEW g \in Goroutines, BeginTx(g)
      PROVE  ConnectionInv'
  BY <1>2, Take, Elsewhere DEF BeginTx
<1>3. ASSUME NEW g \in Goroutines, Grant(g)
      PROVE  ConnectionInv'
  BY <1>3, Take DEF Grant
<1>4. ASSUME NEW g \in Goroutines, EndTx(g) \/ Panic(g)
      PROVE  ConnectionInv'
  <2>1. PICK s \in {"idle", "between"} : stage' = [stage EXCEPT ![g] = s]
    BY <1>4 DEF EndTx, Panic, GoOn
  <2>2. stage[g] = "open" /\ holder' \in {Nobody, Leaked}
    BY <1>4 DEF EndTx, Panic
  <2> QED
    BY <2>1, <2>2, Release
<1>5. CASE UNCHANGED vars
  BY <1>5 DEF vars, ConnectionInv, ConnectionTypeOK, NoSelfWait
<1> QED
  BY <1>1, <1>2, <1>3, <1>4, <1>5 DEF Next

(* The connection is held exactly by the goroutine whose transaction is    *)
(* open (NoSelfWait; BeginTx, Commit and Rollback in every handler and in  *)
(* the scheduler).                                                         *)
THEOREM NobodyWaitsForItself == Spec => []NoSelfWait
<1>1. Init => ConnectionInv
  BY ConnectionAssumption DEF Init, ConnectionInv, ConnectionTypeOK, NoSelfWait
<1>2. ConnectionInv /\ [Next]_vars => ConnectionInv'
  BY ConnectionStep
<1>3. ConnectionInv => NoSelfWait
  BY DEF ConnectionInv
<1> QED
  BY <1>1, <1>2, <1>3, PTL DEF Spec
=============================================================================
