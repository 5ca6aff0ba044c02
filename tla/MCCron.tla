------------------------------- MODULE MCCron -------------------------------
(***************************************************************************)
(* A calendar small enough to enumerate: years of two months (2 and 3      *)
(* days), weeks of three days, days of four hours, hours of two minutes,   *)
(* minutes of two seconds.                                                 *)
(***************************************************************************)
EXTENDS Cron

MCMonthDays == <<2, 3>>

Every     == [range |-> Star, step |-> 1]
Only(v)   == [range |-> <<v, v>>, step |-> 1]
Second    == [range |-> Star, step |-> 2]
Span(a, b) == [range |-> <<a, b>>, step |-> 1]

(* Among them fields Parse refuses: step 0, a value out of range, an empty *)
(* range, no part at all.                                                  *)
MCExprs ==
  [minute : {<<Every>>, <<Only(0)>>, <<Only(1)>>},
   hour   : {<<Every>>, <<Only(0)>>, <<Only(1), Only(3)>>, <<Span(2, 3)>>,
             <<[range |-> Star, step |-> 0]>>},
   dom    : {<<Every>>, <<Only(1)>>, <<Only(3)>>, <<Only(0)>>},
   month  : {<<Every>>, <<Only(1)>>, <<Only(2)>>, <<>>},
   dow    : {<<Every>>, <<Second>>, <<Only(1)>>, <<Span(2, 1)>>}]

YearSeconds == YearDays * DayMinutes * SecondsPerMinute
MCStarts == {YearSeconds + s : s \in {0, 7, 11, 19, 25, 30, 41, 58, 79}}

(* Fixed offsets, among them one that is no whole hour, and zones east of  *)
(* UTC that change at three o'clock of some day, forward and back.         *)
Fixed(offset) == [before |-> offset, after |-> offset, change |-> 0]
MCZones == {Fixed(0), Fixed(-3), [before |-> 2, after |-> 4, change |-> 60],
            [before |-> 4, after |-> 2, change |-> 58]}

(* West of UTC, clocks go back from three o'clock to two.                  *)
FallBack == {[before |-> -2, after |-> -4, change |-> 64]}

ASSUME MCZonesAreOrderly ==
  /\ \A z \in MCZones \cup FallBack : Orderly(z)
  /\ \A z \in MCZones : Advances(z)
  /\ \A z \in FallBack : ~Advances(z)
=============================================================================
