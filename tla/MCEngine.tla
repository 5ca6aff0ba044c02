------------------------------ MODULE MCEngine ------------------------------
(***************************************************************************)
(* Small instances of Engine for TLC: the bodies clients send, the cron    *)
(* expressions, and the symmetry of task ids and request goroutines.       *)
(***************************************************************************)
EXTENDS EngineProperties, Queries, TLC

(* "even" matches every even clock reading, "third" every third one, and   *)
(* "never" stands for an expression such as 30 February.                   *)
MCCronExpr == {"even", "third", "never"}
MCCronNext ==
  [e \in MCCronExpr |->
     [t \in Time |-> CASE e = "even"  -> t + 2 - (t % 2)
                       [] e = "third" -> t + 3 - (t % 3)
                       [] e = "never" -> 0]]

Once == [kind |-> "noop", specType |-> "once", cronExpr |-> NoExpr, delay |-> 0,
         enabled |-> "nil", paused |-> "nil", maxRetries |-> 0, nextRunAt |-> 0]
OnceLater    == [Once EXCEPT !.nextRunAt = 2]
FailingOnce  == [Once EXCEPT !.kind = "fail", !.maxRetries = 1]
OnceWithRetry == [Once EXCEPT !.maxRetries = 1]
Delayed      == [Once EXCEPT !.specType = "delayed", !.delay = 1]
Even         == [Once EXCEPT !.specType = "cron", !.cronExpr = "even"]
EvenWithRetry == [Even EXCEPT !.maxRetries = 1]
Never        == [Even EXCEPT !.cronExpr = "never"]
Refused      == {Never,
                 [Once EXCEPT !.specType = "cron"],
                 [Once EXCEPT !.specType = "delayed"],
                 [Once EXCEPT !.specType = ""],
                 [Once EXCEPT !.maxRetries = -1]}

(* Bodies of PUT: nothing but what they name is provided.                  *)
Keep       == [Once EXCEPT !.kind = "", !.specType = ""]
Reschedule == [Keep EXCEPT !.nextRunAt = 3]
MakeCron   == [Keep EXCEPT !.specType = "cron", !.cronExpr = "even"]
MakeThird  == [MakeCron EXCEPT !.cronExpr = "third"]
MakeOnce   == [Reschedule EXCEPT !.specType = "once"]
Fail       == [Keep EXCEPT !.kind = "fail", !.maxRetries = 2, !.paused = "false",
                           !.enabled = "true"]

JustOnce      == {Once}
JustRetried   == {OnceWithRetry}
JustFailing   == {FailingOnce}
CrashInputs   == {FailingOnce, EvenWithRetry}
MixedInputs   == {FailingOnce, Even} \cup Refused
AllCreates    == {OnceLater, Delayed, EvenWithRetry} \cup Refused
Edits         == {Reschedule, MakeCron, MakeThird, MakeOnce, Fail}
JustReschedule == {Reschedule}
JustMakeCron  == {MakeCron}
NoInputs      == {}

Symmetry == Permutations(TaskId) \cup Permutations(Handlers)
=============================================================================
