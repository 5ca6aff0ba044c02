-------------------------------- MODULE Cron --------------------------------
(***************************************************************************)
(* Package cron: the parser of five-field expressions and the search of    *)
(* Schedule.Next, one iteration of its loop per step, over a calendar of   *)
(* any shape and in a time zone whose offset changes once.                 *)
(*                                                                         *)
(* An instant is a number of minutes since the epoch; its local minutes    *)
(* are its fields in the zone.  Leap days are left out: every year has the *)
(* same months.                                                            *)
(***************************************************************************)
EXTENDS Integers, Sequences, FiniteSets

CONSTANTS
  MonthDays,       \* <<days of the first month, of the second, ...>>
  DaysPerWeek, HoursPerDay, MinutesPerHour,
  SecondsPerMinute,
  MaxYears,        \* how far Next searches
  Zones,           \* [before, after : offset in minutes, change : instant]
  Exprs,           \* expressions, see Parse
  Starts           \* the moments Next is asked from, in seconds

DayMinutes == HoursPerDay * MinutesPerHour
Months     == 1..Len(MonthDays)

DaysBefore[m \in 1..(Len(MonthDays) + 1)] ==
  IF m = 1 THEN 0 ELSE DaysBefore[m - 1] + MonthDays[m - 1]
YearDays == DaysBefore[Len(MonthDays) + 1]

ASSUME CalendarAssumption ==
  /\ MonthDays \in Seq(Nat \ {0}) /\ MonthDays # <<>>
  /\ {DaysPerWeek, HoursPerDay, MinutesPerHour, SecondsPerMinute, MaxYears}
       \subseteq Nat \ {0}
  /\ Starts \subseteq Nat

ASSUME ZonesAssumption ==
  Zones \subseteq [before : Int, after : Int, change : Int]

-----------------------------------------------------------------------------
(* Parse.  A field is a sequence of parts; names are already resolved and  *)
(* a part without a step has step 1.                                       *)

FieldBounds ==
  [minute |-> <<0, MinutesPerHour - 1>>, hour |-> <<0, HoursPerDay - 1>>,
   dom |-> <<1, CHOOSE d \in {MonthDays[m] : m \in Months} :
                  \A m \in Months : MonthDays[m] <= d>>,
   month |-> <<1, Len(MonthDays)>>, dow |-> <<0, DaysPerWeek - 1>>]
Fields == DOMAIN FieldBounds

Star == <<>>  \* the range "*"; any other is <<from, to>>

ASSUME ExprsAssumption ==
  Exprs \subseteq
    [Fields -> Seq([range : {Star} \cup (Int \X Int), step : Int])]

PartRange(part, bounds) == IF part.range = Star THEN bounds ELSE part.range

BugPartAccepted(part, bounds) ==  \* day 0 of a month
  LET r == PartRange(part, bounds) IN
  /\ part.step > 0
  /\ r[1] >= 0 /\ r[2] <= bounds[2] /\ r[1] <= r[2]

PartAccepted(part, bounds) ==
  LET r == PartRange(part, bounds) IN
  /\ part.step > 0
  /\ r[1] >= bounds[1] /\ r[2] <= bounds[2] /\ r[1] <= r[2]

parsePart(part, bounds) ==
  LET r == PartRange(part, bounds) IN
  {v \in r[1]..r[2] : (v - r[1]) % part.step = 0}

parseField(parts, bounds) ==
  UNION {parsePart(parts[i], bounds) : i \in DOMAIN parts}

Accepted(expr) ==
  \A f \in Fields : /\ expr[f] # <<>>
                    /\ \A i \in DOMAIN expr[f] :
                         PartAccepted(expr[f][i], FieldBounds[f])
                    /\ parseField(expr[f], FieldBounds[f]) # {}

Parse(expr) == [f \in Fields |-> parseField(expr[f], FieldBounds[f])]

-----------------------------------------------------------------------------
(* Package time: fields of a local minute, and time.Date, which looks the  *)
(* offset up as if its argument were UTC and corrects it once.             *)

DayNumber(l) == l \div DayMinutes
DayOfYear(l) == DayNumber(l) % YearDays
MonthOf(l) == CHOOSE m \in Months : /\ DaysBefore[m] <= DayOfYear(l)
                                    /\ DayOfYear(l) < DaysBefore[m + 1]

FieldsOf(l) ==
  [minute |-> l % MinutesPerHour,
   hour   |-> (l % DayMinutes) \div MinutesPerHour,
   dom    |-> DayOfYear(l) - DaysBefore[MonthOf(l)] + 1,
   month  |-> MonthOf(l),
   dow    |-> DayNumber(l) % DaysPerWeek]

Midnight(l)     == DayNumber(l) * DayMinutes
FirstOfMonth(l) == Midnight(l) - (FieldsOf(l).dom - 1) * DayMinutes

Offset(z, i) == IF i < z.change THEN z.before ELSE z.after
Local(z, i)  == i + Offset(z, i)
Date(z, l)   == IF Offset(z, l) = 0 THEN l ELSE l - Offset(z, l - Offset(z, l))

AddDays(z, i, n) == Date(z, Local(z, i) + n * DayMinutes)
AddMonth(z, i)   == AddDays(z, i, MonthDays[MonthOf(Local(z, i))])

-----------------------------------------------------------------------------
BugFirstOfNextMonth(z, i) == Date(z, FirstOfMonth(Local(z, i)))

firstOfNextMonth(z, i) == AddMonth(z, Date(z, FirstOfMonth(Local(z, i))))

nextDay(z, i) == AddDays(z, Date(z, Midnight(Local(z, i))), 1)

BugNextHour(z, i) ==  \* t.Add(time.Hour).Truncate(time.Hour)
  (i \div MinutesPerHour + 1) * MinutesPerHour

nextHour(z, i) ==
  LET l == Local(z, i) IN Date(z, l - (l % MinutesPerHour)) + MinutesPerHour

VARIABLES
  zone,     \* the location of from
  sched,    \* the parsed schedule
  from,     \* the argument of Next, in seconds
  t,        \* the candidate, an instant
  limit,    \* where the search ends
  result    \* searching, found (at t) or none

vars == <<zone, sched, from, t, limit, result>>

(* from.Add(time.Minute).Truncate(time.Minute)                             *)
FirstCandidate(s) == s \div SecondsPerMinute + 1

Init ==
  /\ zone \in Zones
  /\ sched \in {Parse(e) : e \in {x \in Exprs : Accepted(x)}}
  /\ from \in Starts
  /\ t = FirstCandidate(from)
  /\ limit = AddDays(zone, t, MaxYears * YearDays)
  /\ result = "searching"

Now     == FieldsOf(Local(zone, t))
Fits(f) == Now[f] \in sched[f]

Skip(next) == t' = next /\ UNCHANGED <<zone, sched, from, limit, result>>

Searching == result = "searching" /\ t < limit

SkipMonth ==
  /\ Searching /\ ~Fits("month")
  /\ Skip(firstOfNextMonth(zone, t))

SkipDay ==
  /\ Searching /\ Fits("month")
  /\ ~Fits("dom") \/ ~Fits("dow")
  /\ Skip(nextDay(zone, t))

SkipHour ==
  /\ Searching /\ Fits("month") /\ Fits("dom") /\ Fits("dow")
  /\ ~Fits("hour")
  /\ Skip(nextHour(zone, t))

SkipMinute ==
  /\ Searching /\ \A f \in Fields \ {"minute"} : Fits(f)
  /\ ~Fits("minute")
  /\ Skip(t + 1)

Return ==
  /\ result = "searching"
  /\ \/ t < limit /\ (\A f \in Fields : Fits(f)) /\ result' = "found"
     \/ t >= limit /\ result' = "none"
  /\ UNCHANGED <<zone, sched, from, t, limit>>

Next == SkipMonth \/ SkipDay \/ SkipHour \/ SkipMinute \/ Return

(* The loop runs until it returns.                                         *)
Spec == Init /\ [][Next]_vars /\ WF_vars(Next)

-----------------------------------------------------------------------------
(* Parsed fields lie within their bounds and no field is empty.            *)
TypeOK ==
  /\ \A f \in Fields : /\ sched[f] # {}
                       /\ sched[f] \subseteq FieldBounds[f][1]..FieldBounds[f][2]
  /\ t \in Int /\ limit \in Int
  /\ result \in {"searching", "found", "none"}

Matches(i) == \A f \in Fields : FieldsOf(Local(zone, i))[f] \in sched[f]

(* Zones that never change their offset, or change it by an hour at a full *)
(* hour, and no midnight is left out or shown twice.                       *)
Orderly(z) ==
  LET old == z.change + z.before  \* what clocks show at the change
      new == z.change + z.after
  IN  \/ new = old
      \/ /\ new - old \in {-MinutesPerHour, MinutesPerHour}
         /\ old % MinutesPerHour = 0
         /\ \A l \in (old..(new - 1)) \cup (new..(old - 1)) : l % DayMinutes # 0

(* Zones that never set their clocks back to an offset below zero.  In any *)
(* other, Date takes an hour that is shown twice for its first showing and *)
(* nextHour, asked in the second, returns to the second's beginning.       *)
Advances(z) == z.before <= z.after \/ z.after >= 0

(* The jumps to the next month, day and hour never leap over a match: what *)
(* Next returns is the first minute after from that fits the schedule, and *)
(* it returns none only when there is none before the limit.               *)
NothingSkipped == \A i \in FirstCandidate(from)..(t - 1) : ~Matches(i)

(* The search ends, for satisfiable and unsatisfiable schedules alike: no  *)
(* jump returns to where it started.                                       *)
NextReturns == <>(result # "searching")
=============================================================================
