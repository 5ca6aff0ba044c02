----------------------------- MODULE CronProofs -----------------------------
(***************************************************************************)
(* Theorems of Cron, for calendars of any shape.                           *)
(***************************************************************************)
EXTENDS Cron, DataLemmas, SequenceTheorems

-----------------------------------------------------------------------------
(* Quotient and remainder.                                                 *)
LEMMA Floor ==
  ASSUME NEW d \in Nat \ {0}, NEW x \in Int
  PROVE  /\ x \div d \in Int /\ x % d \in 0..(d - 1)
         /\ x = d * (x \div d) + (x % d)
OBVIOUS

LEMMA FloorIs ==
  ASSUME NEW d \in Nat \ {0}, NEW x \in Int, NEW q \in Int, d * q <= x, x < d * q + d
  PROVE  x \div d = q /\ x % d = x - d * q
OBVIOUS

(* Two units, the larger a multiple of the smaller.                        *)
LEMMA FloorTwice ==
  ASSUME NEW c \in Nat \ {0}, NEW d \in Nat \ {0}, NEW x \in Int
  PROVE  /\ c * d \in Nat \ {0}
         /\ x \div (c * d) = (x \div d) \div c
         /\ (x % (c * d)) \div d = (x \div d) % c
<1> DEFINE q == x \div d
           r == x % d
           p == q \div c
           s == q % c
           e == c * d
<1>1. q \in Int /\ r \in 0..(d - 1) /\ x = d * q + r
  BY Floor
<1> HIDE DEF q, r
<1>2. p \in Int /\ s \in 0..(c - 1) /\ q = c * p + s
  BY <1>1, Floor
<1> HIDE DEF p, s
<1>3. e \in Nat \ {0} /\ d * q = e * p + d * s
  BY <1>2
<1>4. d * s + r \in Int /\ 0 <= d * s + r /\ d * s + r < e
  <2>1. s >= 0 /\ s <= c - 1 /\ s \in Int /\ c - 1 \in Int /\ r \in Int /\ 0 <= r /\ r < d
    BY <1>1, <1>2
  <2>2. d * s >= 0 /\ d * s <= d * (c - 1) /\ d * s \in Int
    BY <2>1
  <2>3. d * (c - 1) = e - d
    BY <2>1
  <2> HIDE DEF e
  <2> QED
    BY <1>3, <2>1, <2>2, <2>3
<1> HIDE DEF e
<1>5. e * p <= x /\ x < e * p + e /\ x - e * p = d * s + r /\ e * p \in Int
  BY <1>1, <1>2, <1>3, <1>4
<1>6. x \div e = p /\ x % e = d * s + r
  BY <1>2, <1>3, <1>5, FloorIs
<1>7. (d * s + r) \div d = s
  <2>1. d * s <= d * s + r /\ d * s + r < d * s + d /\ s \in Int
    BY <1>1, <1>2
  <2> QED
    BY <1>4, <2>1, FloorIs
<1> QED
  BY <1>3, <1>6, <1>7 DEF e, p, q, s

-----------------------------------------------------------------------------
(* The calendar.                                                           *)
N == Len(MonthDays)

LEMMA Units ==
  /\ N \in Nat \ {0} /\ DOMAIN MonthDays = 1..N
  /\ \A m \in 1..N : MonthDays[m] \in Nat \ {0}
  /\ HoursPerDay \in Nat \ {0} /\ MinutesPerHour \in Nat \ {0}
  /\ DaysPerWeek \in Nat \ {0} /\ SecondsPerMinute \in Nat \ {0}
  /\ MaxYears \in Nat \ {0}
  /\ DayMinutes \in Nat \ {0}
<1>1. MonthDays \in Seq(Nat \ {0}) /\ MonthDays # <<>>
  BY CalendarAssumption
<1>2. N \in Nat \ {0} /\ DOMAIN MonthDays = 1..N /\ \A m \in 1..N : MonthDays[m] \in Nat \ {0}
  BY <1>1, LenProperties, EmptySeq DEF N
<1>3. /\ HoursPerDay \in Nat \ {0} /\ MinutesPerHour \in Nat \ {0}
      /\ DaysPerWeek \in Nat \ {0} /\ SecondsPerMinute \in Nat \ {0}
      /\ MaxYears \in Nat \ {0}
  BY CalendarAssumption
<1>4. HoursPerDay * MinutesPerHour \in Nat \ {0}
  BY <1>3
<1> QED
  BY <1>2, <1>3, <1>4 DEF DayMinutes

(* DaysBefore: the recursion has a solution, by induction on the months.   *)
LEMMA DaysBeforeRuns ==
  /\ DaysBefore \in [1..(N + 1) -> Nat]
  /\ DaysBefore[1] = 0
  /\ \A m \in 1..N : DaysBefore[m + 1] = DaysBefore[m] + MonthDays[m]
<1> DEFINE D == 1..(N + 1)
           Eq(f) == f = [m \in D |-> IF m = 1 THEN 0 ELSE f[m - 1] + MonthDays[m - 1]]
           Good(f, k) == \A m \in D : m <= k + 1 =>
                           f[m] = IF m = 1 THEN 0 ELSE f[m - 1] + MonthDays[m - 1]
           T == {k \in Nat : \E f \in [D -> Nat] : Good(f, k)}
<1>1. \A m \in D : m # 1 => /\ m - 1 \in 1..N /\ m - 1 \in D
                            /\ MonthDays[m - 1] \in Nat
  BY Units
<1>2. 0 \in T
  <2> DEFINE f == [m \in D |-> 0]
  <2>1. \A m \in D : m <= 0 + 1 => m = 1
    BY Units
  <2>2. f \in [D -> Nat] /\ Good(f, 0)
    BY <2>1
  <2> HIDE DEF f
  <2> QED
    BY <2>2
<1>3. ASSUME NEW k \in Nat, k \in T PROVE k + 1 \in T
  <2>1. PICK f \in [D -> Nat] : Good(f, k)
    BY <1>3
  <2> DEFINE g == [m \in D |-> IF m = 1 THEN 0 ELSE f[m - 1] + MonthDays[m - 1]]
  <2>2. g \in [D -> Nat]
    <3> SUFFICES ASSUME NEW m \in D, m # 1 PROVE f[m - 1] + MonthDays[m - 1] \in Nat
      OBVIOUS
    <3>1. f[m - 1] \in Nat /\ MonthDays[m - 1] \in Nat
      BY <1>1
    <3> QED
      BY <3>1
  <2>3. \A m \in D : m <= k + 1 => g[m] = f[m]
    BY <2>1
  <2>4. Good(g, k + 1)
    <3> SUFFICES ASSUME NEW m \in D, m <= (k + 1) + 1, m # 1
                 PROVE  g[m] = g[m - 1] + MonthDays[m - 1]
      OBVIOUS
    <3>1. m - 1 \in D /\ m - 1 <= k + 1
      BY <1>1
    <3>2. g[m - 1] = f[m - 1]
      BY <2>3, <3>1
    <3>3. g[m] = f[m - 1] + MonthDays[m - 1]
      OBVIOUS
    <3> QED
      BY <3>2, <3>3
  <2> HIDE DEF g, Good
  <2> QED
    BY <2>2, <2>4
<1>4. \A k \in Nat : k \in T
  <2> HIDE DEF T
  <2> QED
    BY <1>2, <1>3, Induction
<1>5. \E f : Eq(f)
  <2>1. PICK f \in [D -> Nat] : Good(f, N)
    BY <1>4, Units
  <2>2. \A m \in D : f[m] = IF m = 1 THEN 0 ELSE f[m - 1] + MonthDays[m - 1]
    <3>1. \A m \in D : m <= N + 1
      BY Units
    <3> QED
      BY <2>1, <3>1
  <2>3. Eq(f)
    BY <2>1, <2>2
  <2> QED
    BY <2>3
<1>6. DaysBefore = CHOOSE f : Eq(f)
  BY Zenon DEF DaysBefore, N
<1>7. Eq(DaysBefore)
  <2> HIDE DEF Eq
  <2> QED
    BY <1>5, <1>6, Zenon
<1> DEFINE db == DaysBefore
<1>8. /\ DOMAIN db = D /\ db[1] = 0 /\ db = [m \in D |-> db[m]]
      /\ \A m \in D : m # 1 => db[m] = db[m - 1] + MonthDays[m - 1]
  <2>1. 1 \in D
    BY Units
  <2> QED
    BY <1>7, <2>1
<1> HIDE DEF db
<1>9. \A m \in 1..N : db[m + 1] = db[m] + MonthDays[m]
  <2> TAKE m \in 1..N
  <2>1. m + 1 \in D /\ m + 1 # 1 /\ (m + 1) - 1 = m
    BY Units
  <2> QED
    BY <1>8, <2>1
<1> DEFINE U == {k \in Nat : k <= N => db[k + 1] \in Nat}
<1>10. 0 \in U
  BY <1>8
<1>11. ASSUME NEW k \in Nat, k \in U PROVE k + 1 \in U
  <2> SUFFICES ASSUME k + 1 <= N PROVE db[(k + 1) + 1] \in Nat
    OBVIOUS
  <2>1. k + 1 \in 1..N /\ k <= N
    BY Units
  <2>2. db[k + 1] \in Nat /\ MonthDays[k + 1] \in Nat
    BY <1>11, <2>1, Units
  <2> QED
    BY <1>9, <2>1, <2>2
<1>12. \A k \in Nat : k \in U
  <2> HIDE DEF U
  <2> QED
    BY <1>10, <1>11, Induction
<1>13. \A m \in D : db[m] \in Nat
  <2> TAKE m \in D
  <2>1. m - 1 \in Nat /\ m - 1 <= N /\ (m - 1) + 1 = m
    BY Units
  <2> QED
    BY <1>12, <2>1
<1>14. db \in [D -> Nat]
  BY <1>8, <1>13
<1> QED
  BY <1>8, <1>9, <1>14 DEF db

LEMMA DaysBeforeGrows ==
  ASSUME NEW m \in 1..(N + 1), NEW k \in m..(N + 1)
  PROVE  DaysBefore[m] <= DaysBefore[k]
<1> DEFINE U == {i \in Nat : m + i <= N + 1 => DaysBefore[m] <= DaysBefore[m + i]}
<1>1. \A i \in 1..(N + 1) : DaysBefore[i] \in Nat
  BY DaysBeforeRuns
<1>2. 0 \in U
  <2>1. DaysBefore[m] <= DaysBefore[m + 0]
    <3>1. m + 0 = m
      BY Units
    <3> QED
      BY <1>1, <3>1
  <2> QED
    BY <2>1
<1>3. ASSUME NEW i \in Nat, i \in U PROVE i + 1 \in U
  <2> SUFFICES ASSUME m + (i + 1) <= N + 1 PROVE DaysBefore[m] <= DaysBefore[m + (i + 1)]
    OBVIOUS
  <2>1. m + i \in 1..N /\ m + i <= N + 1 /\ m + (i + 1) = (m + i) + 1 /\ m + i \in 1..(N + 1)
    BY Units
  <2>2. DaysBefore[(m + i) + 1] = DaysBefore[m + i] + MonthDays[m + i]
    BY <2>1, DaysBeforeRuns
  <2>3. MonthDays[m + i] \in Nat /\ DaysBefore[m + i] \in Nat /\ DaysBefore[m] \in Nat
    BY <1>1, <2>1, Units
  <2> QED
    BY <1>3, <2>1, <2>2, <2>3
<1>4. \A i \in Nat : i \in U
  <2> HIDE DEF U
  <2> QED
    BY <1>2, <1>3, Induction
<1>5. k - m \in Nat /\ m + (k - m) = k /\ m + (k - m) <= N + 1
  BY Units
<1>6. k - m \in U
  BY <1>4, <1>5
<1> QED
  BY <1>5, <1>6

(* Every day of the year lies in one month.                                *)
LEMMA YearHasDays == YearDays \in Nat \ {0}
<1>1. DaysBefore[2] <= DaysBefore[N + 1]
  <2>1. 2 \in 1..(N + 1) /\ N + 1 \in 2..(N + 1)
    BY Units
  <2> QED
    BY <2>1, DaysBeforeGrows
<1>2. 1 \in 1..N /\ 1 + 1 = 2 /\ N + 1 \in 1..(N + 1)
  BY Units
<1>3. DaysBefore[2] = MonthDays[1] /\ MonthDays[1] \in Nat \ {0}
  BY <1>2, DaysBeforeRuns, Units
<1>4. DaysBefore[N + 1] \in Nat
  BY <1>2, DaysBeforeRuns
<1> QED
  BY <1>1, <1>3, <1>4 DEF YearDays, N

LEMMA OneMonth ==
  ASSUME NEW d \in 0..(YearDays - 1)
  PROVE  /\ \E m \in Months : DaysBefore[m] <= d /\ d < DaysBefore[m + 1]
         /\ \A m, k \in Months :
              /\ DaysBefore[m] <= d /\ d < DaysBefore[m + 1]
              /\ DaysBefore[k] <= d /\ d < DaysBefore[k + 1]
              => m = k
<1>1. Months = 1..N /\ YearDays = DaysBefore[N + 1]
  BY DEF Months, YearDays, N
<1>2. \A m \in 1..(N + 1) : DaysBefore[m] \in Nat
  BY DaysBeforeRuns
<1>3. \E m \in Months : DaysBefore[m] <= d /\ d < DaysBefore[m + 1]
  <2> DEFINE T == {m \in 1..(N + 1) : d < DaysBefore[m]}
  <2>1. N + 1 \in T
    BY <1>1, Units, YearHasDays
  <2>2. T \in SUBSET Nat /\ T # {}
    BY <2>1
  <2>3. PICK m \in T : \A k \in T : m <= k
    BY <2>2, LeastElement
  <2>4. m # 1
    BY DaysBeforeRuns, YearHasDays
  <2>5. m - 1 \in 1..N /\ m - 1 \in 1..(N + 1) /\ (m - 1) + 1 = m /\ ~(m <= m - 1)
    BY <2>4, Units
  <2>6. m - 1 \notin T
    BY <2>3, <2>5
  <2>7. DaysBefore[m - 1] <= d
    BY <1>2, <2>5, <2>6, YearHasDays
  <2> QED
    BY <1>1, <2>5, <2>7
<1>4. ASSUME NEW m \in 1..N, NEW k \in 1..N, m < k, d < DaysBefore[m + 1], DaysBefore[k] <= d
      PROVE  FALSE
  <2>1. m + 1 \in 1..(N + 1) /\ k \in (m + 1)..(N + 1) /\ k \in 1..(N + 1)
    BY <1>4, Units
  <2>2. DaysBefore[m + 1] <= DaysBefore[k]
    BY <2>1, DaysBeforeGrows
  <2>3. DaysBefore[m + 1] \in Nat /\ DaysBefore[k] \in Nat /\ d \in Int
    BY <1>2, <2>1
  <2> QED
    BY <1>4, <2>2, <2>3
<1>5. \A m, k \in 1..N : m < k \/ k < m \/ m = k
  BY Units
<1> QED
  BY <1>1, <1>3, <1>4, <1>5

LEMMA DayFacts ==
  ASSUME NEW l \in Int
  PROVE  /\ DayNumber(l) \in Int /\ DayOfYear(l) \in 0..(YearDays - 1)
         /\ Midnight(l) = DayMinutes * DayNumber(l) /\ Midnight(l) \in Int
         /\ Midnight(l) <= l /\ l < Midnight(l) + DayMinutes
         /\ MonthOf(l) \in Months
         /\ DaysBefore[MonthOf(l)] <= DayOfYear(l)
         /\ DayOfYear(l) < DaysBefore[MonthOf(l) + 1]
<1>1. DayMinutes \in Nat \ {0} /\ YearDays \in Nat \ {0}
  BY Units, YearHasDays
<1>2. /\ DayNumber(l) \in Int /\ l % DayMinutes \in 0..(DayMinutes - 1)
      /\ l = DayMinutes * DayNumber(l) + (l % DayMinutes)
  BY <1>1, Floor DEF DayNumber
<1>3. DayOfYear(l) \in 0..(YearDays - 1)
  BY <1>1, <1>2, Floor DEF DayOfYear
<1>4. \E m \in Months : DaysBefore[m] <= DayOfYear(l) /\ DayOfYear(l) < DaysBefore[m + 1]
  BY <1>3, OneMonth
<1>5. /\ MonthOf(l) \in Months /\ DaysBefore[MonthOf(l)] <= DayOfYear(l)
      /\ DayOfYear(l) < DaysBefore[MonthOf(l) + 1]
  BY <1>4 DEF MonthOf
<1> DEFINE q == DayNumber(l)
           r == l % DayMinutes
           d == DayMinutes
<1>6. q * d = d * q /\ d * q \in Int /\ d * q <= l /\ l < d * q + d
  <2> HIDE DEF q, r, d
  <2>1. q \in Int /\ d \in Nat \ {0} /\ r \in 0..(d - 1) /\ l = d * q + r
    BY <1>1, <1>2 DEF q, r, d
  <2> QED
    BY <2>1
<1> QED
  BY <1>2, <1>3, <1>5, <1>6 DEF Midnight

(* The fields that stay as they are during a month, a day and an hour.     *)
LEMMA MonthIs ==
  ASSUME NEW l \in Int, NEW m \in Months,
         DaysBefore[m] <= DayOfYear(l), DayOfYear(l) < DaysBefore[m + 1]
  PROVE  MonthOf(l) = m
BY DayFacts, OneMonth

LEMMA SameDay ==
  ASSUME NEW l \in Int, NEW j \in Int, DayNumber(l) = DayNumber(j)
  PROVE  /\ FieldsOf(l).month = FieldsOf(j).month
         /\ FieldsOf(l).dom = FieldsOf(j).dom
         /\ FieldsOf(l).dow = FieldsOf(j).dow
<1>1. DayOfYear(l) = DayOfYear(j)
  BY DEF DayOfYear
<1>2. MonthOf(l) = MonthOf(j)
  BY <1>1, DayFacts, MonthIs
<1> QED
  BY <1>1, <1>2 DEF FieldsOf

LEMMA DayBlock ==
  ASSUME NEW l \in Int, NEW j \in Int, Midnight(l) <= j, j < Midnight(l) + DayMinutes
  PROVE  DayNumber(j) = DayNumber(l)
<1>1. /\ DayMinutes \in Nat \ {0} /\ DayNumber(l) \in Int
      /\ DayMinutes * DayNumber(l) <= j
      /\ j < DayMinutes * DayNumber(l) + DayMinutes
  BY DayFacts, Units
<1> QED
  BY <1>1, FloorIs DEF DayNumber

HourStart(l) == l - (l % MinutesPerHour)

LEMMA HourBlock ==
  ASSUME NEW l \in Int, NEW j \in Int,
         HourStart(l) <= j, j < HourStart(l) + MinutesPerHour
  PROVE  /\ DayNumber(j) = DayNumber(l) /\ FieldsOf(j).hour = FieldsOf(l).hour
         /\ HourStart(l) \in Int /\ HourStart(l) % MinutesPerHour = 0
         /\ HourStart(l) <= l /\ l < HourStart(l) + MinutesPerHour
<1> DEFINE d == MinutesPerHour
           q == l \div d
           r == l % d
<1>1. d \in Nat \ {0} /\ HoursPerDay \in Nat \ {0}
  BY Units
<1>2. q \in Int /\ r \in 0..(d - 1) /\ l = d * q + r
  BY <1>1, Floor
<1>3. HourStart(l) = l - r
  BY DEF HourStart
<1>4. HourStart(l) <= j /\ j < HourStart(l) + d
  OBVIOUS
<1> HIDE DEF q, r, d
<1>5. HourStart(l) = d * q /\ d * q \in Int /\ d * q <= l /\ l < d * q + d
  BY <1>1, <1>2, <1>3
<1>6. d * q <= j /\ j < d * q + d
  BY <1>4, <1>5
<1>7. j \div d = q
  BY <1>1, <1>2, <1>6, FloorIs
<1>8. (d * q) % d = 0
  BY <1>1, <1>2, <1>5, FloorIs
<1>9. DayMinutes = HoursPerDay * d
  BY DEF DayMinutes, d
<1>10. \A x \in Int : /\ DayNumber(x) = (x \div d) \div HoursPerDay
                      /\ (x % DayMinutes) \div d = (x \div d) % HoursPerDay
  BY <1>1, <1>9, FloorTwice DEF DayNumber
<1>11. DayNumber(j) = DayNumber(l) /\ (j % DayMinutes) \div d = (l % DayMinutes) \div d
  BY <1>7, <1>10 DEF q
<1>12. FieldsOf(j).hour = FieldsOf(l).hour
  BY <1>11 DEF FieldsOf, d
<1> QED
  BY <1>5, <1>8, <1>11, <1>12 DEF d

LEMMA MonthBlock ==
  ASSUME NEW l \in Int
  PROVE  LET days == MonthDays[MonthOf(l)]
             first == FirstOfMonth(l)
         IN  /\ days \in Nat \ {0} /\ first \in Int
             /\ first % DayMinutes = 0
             /\ (first + days * DayMinutes) % DayMinutes = 0
             /\ first + days * DayMinutes \in Int
             /\ first <= l /\ l < first + days * DayMinutes
             /\ \A j \in Int : first <= j /\ j < first + days * DayMinutes => MonthOf(j) = MonthOf(l)
             /\ MonthOf(first) = MonthOf(l)
<1> DEFINE m == MonthOf(l)
           days == MonthDays[m]
           first == FirstOfMonth(l)
           d == DayMinutes
           n == DayNumber(l)
           doy == DayOfYear(l)
           b == DaysBefore[m]
           q0 == n - (doy - b)
<1>1. /\ d \in Nat \ {0} /\ YearDays \in Nat \ {0} /\ n \in Int
      /\ doy \in 0..(YearDays - 1) /\ m \in Months
      /\ b <= doy /\ doy < DaysBefore[m + 1]
      /\ Midnight(l) = d * n /\ d * n <= l /\ l < d * n + d
  BY DayFacts, Units, YearHasDays
<1>2. Months = 1..N
  BY DEF Months, N
<1>3. /\ days \in Nat \ {0} /\ b \in Nat /\ DaysBefore[m + 1] = b + days
      /\ b + days <= YearDays
  <2>1. m \in 1..N /\ m \in 1..(N + 1) /\ m + 1 \in 1..(N + 1) /\ N + 1 \in (m + 1)..(N + 1)
    BY <1>1, <1>2, Units
  <2> HIDE DEF m
  <2>2. DaysBefore[m + 1] <= DaysBefore[N + 1]
    BY <2>1, DaysBeforeGrows
  <2>3. MonthDays[m] \in Nat \ {0} /\ DaysBefore[m] \in Nat
        /\ DaysBefore[m + 1] = DaysBefore[m] + MonthDays[m]
    BY <2>1, DaysBeforeRuns, Units
  <2> QED
    BY <2>2, <2>3 DEF YearDays, N
<1>4. FirstOfMonth(l) = d * n - ((doy - b + 1) - 1) * d
  BY <1>1 DEF FirstOfMonth, FieldsOf
<1> HIDE DEF m, days, first, d, n, doy, b
<1>5. doy \in Int /\ q0 \in Int /\ q0 <= n /\ n < q0 + days
  BY <1>1, <1>3
<1>6. first = d * q0 /\ d * q0 \in Int
  BY <1>1, <1>3, <1>4, <1>5 DEF first
<1>7. first + days * d = d * (q0 + days) /\ d * (q0 + days) \in Int /\ q0 + days \in Int
  BY <1>1, <1>3, <1>5, <1>6
<1> HIDE DEF q0
<1>8. \A q \in Int : (d * q) % d = 0
  <2> TAKE q \in Int
  <2>1. d * q \in Int /\ d * q <= d * q /\ d * q < d * q + d /\ d * q - d * q = 0
    BY <1>1
  <2> QED
    BY <1>1, <2>1, FloorIs
<1>9. first <= l /\ l < first + days * d
  <2>1. d * q0 <= d * n
    BY <1>1, <1>5
  <2>2. d * n + d = d * (n + 1) /\ d * (n + 1) <= d * (q0 + days)
    BY <1>1, <1>3, <1>5
  <2>3. d * n \in Int /\ d * q0 \in Int /\ d * (q0 + days) \in Int
    BY <1>1, <1>6, <1>7
  <2> QED
    BY <1>1, <1>6, <1>7, <2>1, <2>2, <2>3
<1>10. ASSUME NEW j \in Int, first <= j, j < first + days * d PROVE MonthOf(j) = m
  <2> DEFINE q == DayNumber(j)
             y == n \div YearDays
             k == q - q0 + b
  <2>1. q \in Int /\ d * q <= j /\ j < d * q + d
    BY DayFacts DEF d
  <2> HIDE DEF q
  <2>2. q0 <= q
    <3> SUFFICES ASSUME q + 1 <= q0 PROVE FALSE
      BY <1>5, <2>1
    <3> DEFINE e == d * q
               e0 == d * q0
    <3>1. d * (q + 1) <= e0 /\ d * (q + 1) = e + d /\ e \in Int /\ e0 \in Int /\ d \in Int
      BY <1>1, <1>5, <2>1
    <3>2. e0 <= j /\ j < e + d
      BY <1>6, <1>10, <2>1
    <3> HIDE DEF e, e0
    <3> QED
      BY <3>1, <3>2
  <2>3. q < q0 + days
    <3> SUFFICES ASSUME q0 + days <= q PROVE FALSE
      BY <1>3, <1>5, <2>1
    <3>1. d * (q0 + days) <= d * q /\ d * q \in Int
      BY <1>1, <1>3, <1>5, <2>1
    <3> QED
      BY <1>7, <1>10, <2>1, <3>1
  <2>4. y \in Int /\ n = YearDays * y + doy /\ YearDays * y \in Int
    <3>1. doy = n % YearDays
      BY DEF n, doy, DayOfYear
    <3>2. /\ n \div YearDays \in Int /\ n = YearDays * (n \div YearDays) + (n % YearDays)
      BY <1>1, Floor
    <3> QED
      BY <1>1, <3>1, <3>2
  <2> HIDE DEF y
  <2>5. /\ k \in Int /\ b <= k /\ k < b + days /\ 0 <= k /\ k < YearDays
        /\ q = YearDays * y + k
    BY <1>1, <1>3, <1>5, <2>1, <2>2, <2>3, <2>4 DEF q0
  <2> HIDE DEF k
  <2>6. q % YearDays = k
    <3>1. YearDays * y <= q /\ q < YearDays * y + YearDays /\ q - YearDays * y = k
      BY <1>1, <2>4, <2>5
    <3> QED
      BY <1>1, <2>1, <2>4, <3>1, FloorIs
  <2>7. DayOfYear(j) = k
    BY <2>6 DEF DayOfYear, q
  <2>8. DaysBefore[m] <= DayOfYear(j) /\ DayOfYear(j) < DaysBefore[m + 1] /\ m \in Months
    BY <1>1, <1>3, <2>5, <2>7 DEF b
  <2> QED
    BY <2>8, MonthIs
<1>11. MonthOf(first) = m
  <2>1. days * d \in Nat \ {0}
    BY <1>1, <1>3
  <2>2. first \in Int /\ first <= first /\ first < first + days * d
    BY <1>6, <2>1
  <2> QED
    BY <1>10, <2>2
<1>12. first % d = 0 /\ (first + days * d) % d = 0
  BY <1>5, <1>6, <1>7, <1>8
<1> QED
  BY <1>3, <1>6, <1>7, <1>9, <1>10, <1>11, <1>12 DEF m, days, first, d

-----------------------------------------------------------------------------
(* Zones.  A local time x is Clear if it is shown once whatever the offset *)
(* does: before the clocks change or after.                                *)
Old(z) == z.change + z.before
New(z) == z.change + z.after

Clear(z, x) ==
  \/ New(z) = Old(z)
  \/ x < Old(z) /\ x < New(z)
  \/ x >= Old(z) /\ x >= New(z)

LEMMA ZoneFacts ==
  ASSUME NEW z \in Zones
  PROVE  /\ z.before \in Int /\ z.after \in Int /\ z.change \in Int
         /\ Old(z) \in Int /\ New(z) \in Int
         /\ \A i \in Int : Local(z, i) \in Int /\ Date(z, i) \in Int
         /\ \A i \in Int : Local(z, i) = IF i < z.change THEN i + z.before ELSE i + z.after
<1>1. z.before \in Int /\ z.after \in Int /\ z.change \in Int
  BY ZonesAssumption
<1>2. Old(z) \in Int /\ New(z) \in Int
  BY <1>1 DEF Old, New
<1>3. \A i \in Int : Offset(z, i) \in Int
  BY <1>1 DEF Offset
<1>4. \A i \in Int : Local(z, i) \in Int
  BY <1>3 DEF Local
<1>5. \A i \in Int : Date(z, i) \in Int
  BY <1>3 DEF Date
<1>6. \A i \in Int : Local(z, i) = IF i < z.change THEN i + z.before ELSE i + z.after
  BY DEF Local, Offset
<1> QED
  BY <1>1, <1>2, <1>4, <1>5, <1>6

(* time.Date finds the instant at which clocks show a clear time.          *)
LEMMA DateOfClear ==
  ASSUME NEW z \in Zones, NEW x \in Int, Clear(z, x)
  PROVE  /\ Local(z, Date(z, x)) = x
         /\ Date(z, x) = x - (IF x < Old(z) THEN z.before ELSE z.after)
<1> DEFINE b == z.before
           a == z.after
           c == z.change
<1>1. b \in Int /\ a \in Int /\ c \in Int /\ Old(z) = c + b /\ New(z) = c + a
  BY ZoneFacts DEF Old, New
<1>2. Date(z, x) = x - Offset(z, x - Offset(z, x))
  <2>1. Offset(z, x) = 0 => x - Offset(z, x) = x /\ x - Offset(z, x - Offset(z, x)) = x
    <3>1. x - 0 = x
      OBVIOUS
    <3> QED
      BY <3>1
  <2> QED
    BY <2>1 DEF Date
<1>3. \A i \in Int : Offset(z, i) = IF i < c THEN b ELSE a
  BY DEF Offset
<1>4. x - b \in Int /\ x - a \in Int
  BY <1>1
<1>5. Offset(z, x) = b \/ Offset(z, x) = a
  BY <1>3
<1> HIDE DEF a, b, c
<1>6. CASE New(z) = Old(z)
  <2>1. a = b
    BY <1>1, <1>6
  <2>2. \A i \in Int : Offset(z, i) = b
    BY <1>3, <2>1
  <2>3. Date(z, x) = x - b
    BY <1>2, <1>4, <1>5, <2>1, <2>2
  <2>4. Local(z, x - b) = (x - b) + b
    BY <1>4, <2>2 DEF Local
  <2> QED
    BY <1>1, <2>1, <2>3, <2>4 DEF a, b
<1>7. CASE x < Old(z) /\ x < New(z)
  <2>1. x - b < c /\ x - a < c
    BY <1>1, <1>7
  <2>2. Offset(z, x - Offset(z, x)) = b
    BY <1>3, <1>4, <1>5, <2>1
  <2>3. Local(z, x - b) = (x - b) + b
    BY <1>3, <1>4, <2>1 DEF Local
  <2> QED
    BY <1>1, <1>2, <1>7, <2>2, <2>3 DEF b
<1>8. CASE x >= Old(z) /\ x >= New(z)
  <2>1. ~(x - b < c) /\ ~(x - a < c) /\ ~(x < Old(z))
    BY <1>1, <1>8
  <2>2. Offset(z, x - Offset(z, x)) = a
    BY <1>3, <1>4, <1>5, <2>1
  <2>3. Local(z, x - a) = (x - a) + a
    BY <1>3, <1>4, <2>1 DEF Local
  <2> QED
    BY <1>1, <1>2, <2>1, <2>2, <2>3 DEF a
<1> QED
  BY <1>6, <1>7, <1>8 DEF Clear

(* Between two clear times clocks stay between them: from an instant in    *)
(* the block to the end of the block no other time is shown.               *)
LEMMA BlockIsKept ==
  ASSUME NEW z \in Zones, NEW m \in Int, Clear(z, m), NEW e \in Int, Clear(z, e),
         NEW i \in Int, m <= Local(z, i), NEW k \in Int, i <= k, k < Date(z, e)
  PROVE  m <= Local(z, k) /\ Local(z, k) < e
<1> DEFINE b == z.before
           a == z.after
           c == z.change
<1>1. b \in Int /\ a \in Int /\ c \in Int /\ Old(z) = c + b /\ New(z) = c + a
  BY ZoneFacts DEF Old, New
<1>2. /\ Local(z, i) = IF i < c THEN i + b ELSE i + a
      /\ Local(z, k) = IF k < c THEN k + b ELSE k + a
  BY ZoneFacts
<1>3. Date(z, e) = e - (IF e < Old(z) THEN b ELSE a)
  BY DateOfClear
<1>4. /\ New(z) = Old(z) \/ (m < Old(z) /\ m < New(z)) \/ (m >= Old(z) /\ m >= New(z))
      /\ New(z) = Old(z) \/ (e < Old(z) /\ e < New(z)) \/ (e >= Old(z) /\ e >= New(z))
  BY DEF Clear
<1> DEFINE li == Local(z, i)
           lk == Local(z, k)
           de == Date(z, e)
           old == Old(z)
           new == New(z)
<1> HIDE DEF a, b, c, li, lk, de, old, new
<1>5. /\ li = IF i < c THEN i + b ELSE i + a
      /\ lk = IF k < c THEN k + b ELSE k + a
      /\ de = e - (IF e < old THEN b ELSE a)
      /\ new = old \/ (m < old /\ m < new) \/ (m >= old /\ m >= new)
      /\ new = old \/ (e < old /\ e < new) \/ (e >= old /\ e >= new)
      /\ m <= li /\ k < de /\ i <= k /\ old = c + b /\ new = c + a
  BY <1>1, <1>2, <1>3, <1>4 DEF li, lk, de, old, new
<1>6. m <= lk /\ lk < e
  BY <1>1, <1>5
<1> QED
  BY <1>6 DEF lk

(* In an orderly zone midnights are clear, and the clocks change by an     *)
(* hour at the full hour or not at all.                                    *)
LEMMA OrderlyZones ==
  ASSUME NEW z \in Zones, Orderly(z)
  PROVE  /\ \A x \in Int : x % DayMinutes = 0 => Clear(z, x)
         /\ \/ New(z) = Old(z)
            \/ /\ New(z) = Old(z) + MinutesPerHour \/ New(z) = Old(z) - MinutesPerHour
               /\ Old(z) % MinutesPerHour = 0
<1>1. Old(z) \in Int /\ New(z) \in Int /\ MinutesPerHour \in Nat \ {0}
  BY ZoneFacts, Units
<1>2. \/ New(z) = Old(z)
      \/ /\ New(z) - Old(z) \in {-MinutesPerHour, MinutesPerHour}
         /\ Old(z) % MinutesPerHour = 0
         /\ \A l \in (Old(z)..(New(z) - 1)) \cup (New(z)..(Old(z) - 1)) : l % DayMinutes # 0
  BY DEF Orderly, Old, New
<1> DEFINE old == Old(z)
           new == New(z)
<1> HIDE DEF old, new
<1>3. ASSUME NEW x \in Int, x % DayMinutes = 0 PROVE Clear(z, x)
  <2>1. new = old \/ x \notin (old..(new - 1)) \cup (new..(old - 1))
    BY <1>2, <1>3 DEF old, new
  <2>2. new = old \/ (x < old /\ x < new) \/ (x >= old /\ x >= new)
    BY <1>1, <2>1 DEF old, new
  <2> QED
    BY <2>2 DEF Clear, old, new
<1>4. new - old \in {-MinutesPerHour, MinutesPerHour} =>
        new = old + MinutesPerHour \/ new = old - MinutesPerHour
  BY <1>1 DEF old, new
<1> QED
  BY <1>2, <1>3, <1>4 DEF old, new

LEMMA MultipleBefore ==
  ASSUME NEW d \in Nat \ {0}, NEW x \in Int, x % d = 0
  PROVE  /\ x + d \in Int /\ (x + d) % d = 0
         /\ x - d \in Int /\ (x - d) % d = 0
<1> DEFINE q == x \div d
           e == d * q
           y == x + d
           v == x - d
<1>1. q \in Int /\ x = d * q + (x % d)
  BY Floor
<1> HIDE DEF q
<1>2. e \in Int /\ d * (q + 1) = e + d /\ d * (q - 1) = e - d
  BY <1>1
<1>3. q + 1 \in Int /\ q - 1 \in Int
  BY <1>1
<1> HIDE DEF e
<1>4. x = e
  BY <1>1, <1>2 DEF e
<1>5. /\ y \in Int /\ y = d * (q + 1) /\ y < d * (q + 1) + d /\ y - d * (q + 1) = 0
      /\ v \in Int /\ v = d * (q - 1) /\ v < d * (q - 1) + d /\ v - d * (q - 1) = 0
  BY <1>2, <1>4
<1> HIDE DEF y, v
<1>6. y % d = 0 /\ v % d = 0
  <2>1. y % d = y - d * (q + 1)
    <3>1. d * (q + 1) <= y
      BY <1>5
    <3> QED
      BY <1>3, <1>5, <3>1, FloorIs
  <2>2. v % d = v - d * (q - 1)
    <3>1. d * (q - 1) <= v
      BY <1>5
    <3> QED
      BY <1>3, <1>5, <3>1, FloorIs
  <2> QED
    BY <1>5, <2>1, <2>2
<1> QED
  BY <1>5, <1>6 DEF y, v

(* The hour goes by although its beginning may be shown twice or never:    *)
(* until the next hour begins no other hour is shown.  It begins later,    *)
(* unless the zone sets its clocks back to an offset below zero.           *)
LEMMA HourIsKept ==
  ASSUME NEW z \in Zones, Orderly(z), NEW i \in Int, NEW k \in Int
  PROVE  LET h == HourStart(Local(z, i))
         IN  /\ Advances(z) => i < nextHour(z, i)
             /\ i <= k /\ k < nextHour(z, i) =>
                  h <= Local(z, k) /\ Local(z, k) < h + MinutesPerHour
<1> DEFINE b == z.before
           a == z.after
           c == z.change
           d == MinutesPerHour
           l == Local(z, i)
           lk == Local(z, k)
           h == HourStart(l)
           o == Offset(z, h)
           de == Date(z, h)
           old == Old(z)
           new == New(z)
<1>1. /\ b \in Int /\ a \in Int /\ c \in Int /\ d \in Nat \ {0}
      /\ old = c + b /\ new = c + a /\ l \in Int
  BY ZoneFacts, Units DEF Old, New
<1>2. /\ l = IF i < c THEN i + b ELSE i + a
      /\ lk = IF k < c THEN k + b ELSE k + a
  BY ZoneFacts
<1>3. h \in Int /\ h % d = 0 /\ h <= l /\ l < h + d
  <2>1. (l % d) \in 0..(d - 1)
    BY <1>1, Floor
  <2>2. h = l - (l % d)
    BY DEF HourStart
  <2>3. h <= l /\ l < h + d /\ h \in Int
    <3> DEFINE r == l % d
    <3> HIDE DEF r, h, d, l
    <3>1. r \in 0..(d - 1) /\ h = l - r
      BY <2>1, <2>2 DEF r
    <3> QED
      BY <1>1, <3>1
  <2> QED
    BY <1>1, <2>3, HourBlock
<1>4. o = (IF h < c THEN b ELSE a) /\ de = h - (IF h - o < c THEN b ELSE a)
  <2>1. o = IF h < c THEN b ELSE a
    BY DEF Offset
  <2>2. de = IF o = 0 THEN h ELSE h - (IF h - o < c THEN b ELSE a)
    BY DEF Date, Offset
  <2> HIDE DEF o, de, h, a, b, c
  <2>3. o = 0 => h - (IF h - o < c THEN b ELSE a) = h
    BY <1>1, <1>3, <2>1
  <2> QED
    BY <2>1, <2>2, <2>3
<1>5. nextHour(z, i) = de + d
  BY DEF nextHour, HourStart
<1>6. new = old \/ ((new = old + d \/ new = old - d) /\ old % d = 0)
  BY OrderlyZones
<1> DEFINE adv == b <= a \/ a >= 0
<1> HIDE DEF a, b, c, d, l, lk, h, o, de, old, new
<1>7. \A x \in Int : x % d = 0 /\ x > l => x >= h + d
  <2> SUFFICES ASSUME NEW x \in Int, x % d = 0, x > l PROVE x >= h + d
    OBVIOUS
  <2>0. h + d \in Int
    BY <1>1, <1>3
  <2> SUFFICES ASSUME x < h + d PROVE FALSE
    BY <2>0
  <2>1. h \div d \in Int /\ h = d * (h \div d)
    BY <1>1, <1>3, Floor
  <2> DEFINE q == h \div d
  <2> HIDE DEF q
  <2>2. q \in Int /\ h = d * q
    BY <2>1 DEF q
  <2>3. d * q <= x /\ x < d * q + d /\ x - d * q > 0
    BY <1>1, <1>3, <2>2
  <2>4. x % d = x - d * q
    BY <1>1, <2>2, <2>3, FloorIs
  <2> QED
    BY <2>3, <2>4
<1>8. \A x \in Int : x % d = 0 /\ x <= l => x <= h
  <2> SUFFICES ASSUME NEW x \in Int, x % d = 0, x <= l PROVE x <= h
    OBVIOUS
  <2>0. h \in Int
    BY <1>3
  <2> SUFFICES ASSUME x > h PROVE FALSE
    BY <2>0
  <2>1. h \div d \in Int /\ h = d * (h \div d)
    BY <1>1, <1>3, Floor
  <2> DEFINE q == h \div d
  <2> HIDE DEF q
  <2>2. q \in Int /\ h = d * q
    BY <2>1 DEF q
  <2>3. d * q <= x /\ x < d * q + d /\ x - d * q > 0
    BY <1>1, <1>3, <2>2
  <2>4. x % d = x - d * q
    BY <1>1, <2>2, <2>3, FloorIs
  <2> QED
    BY <2>3, <2>4
<1>9. (adv => i < de + d) /\ (i <= k /\ k < de + d => h <= lk /\ lk < h + d)
  <2>1. CASE new = old
    <3>1. a = b
      BY <1>1, <2>1
    <3> QED
      BY <1>1, <1>2, <1>3, <1>4, <3>1
  <2>2. CASE new = old + d /\ old % d = 0
    <3>1. a = b + d
      BY <1>1, <2>2
    <3>2. (old > l => old >= h + d) /\ (old <= l => old <= h)
      BY <1>1, <1>7, <1>8, <2>2
    <3>3. CASE i < c
      BY <1>1, <1>2, <1>3, <1>4, <3>1, <3>2, <3>3
    <3>4. CASE ~(i < c)
      <4>1. new \in Int /\ new % d = 0
        <5>1. old \in Int /\ d \in Nat \ {0}
          BY <1>1
        <5> QED
          BY <2>2, <5>1, MultipleBefore
      <4>2. new <= l
        BY <1>1, <1>2, <3>4
      <4>3. new <= h
        BY <1>8, <4>1, <4>2
      <4> QED
        BY <1>1, <1>2, <1>3, <1>4, <3>1, <3>4, <4>3
    <3> QED
      BY <3>3, <3>4
  <2>3. CASE new = old - d /\ old % d = 0
    <3>1. a = b - d
      BY <1>1, <2>3
    <3>2. (old > l => old >= h + d) /\ (old <= l => old <= h)
      BY <1>1, <1>7, <1>8, <2>3
    <3>3. CASE i < c
      BY <1>1, <1>2, <1>3, <1>4, <3>1, <3>2, <3>3
    <3>4. CASE ~(i < c)
      <4>1. new \in Int /\ new % d = 0
        <5>1. old \in Int /\ d \in Nat \ {0}
          BY <1>1
        <5> QED
          BY <2>3, <5>1, MultipleBefore
      <4>2. new <= l
        BY <1>1, <1>2, <3>4
      <4>3. new <= h
        BY <1>8, <4>1, <4>2
      <4>4. i <= k /\ k < de + d => h <= lk /\ lk < h + d
        BY <1>1, <1>2, <1>3, <1>4, <3>1, <3>2, <3>4
      <4>5. CASE adv
        <5>1. a >= 0
          BY <1>1, <3>1, <4>5
        <5>2. de = h - a
          BY <1>1, <1>3, <1>4, <4>3, <5>1
        <5> QED
          BY <1>1, <1>2, <1>3, <3>4, <4>4, <5>2
      <4> QED
        BY <4>4, <4>5
    <3> QED
      BY <3>3, <3>4
  <2> QED
    BY <1>6, <2>1, <2>2, <2>3
<1> QED
  BY <1>5, <1>9 DEF h, lk, l, d, a, b, Advances

-----------------------------------------------------------------------------
(* Where a jump lands: until then the clocks show the same month, the same *)
(* day or the same hour, and so the field that did not fit.                *)

LEMMA FieldsAre == Fields = {"minute", "hour", "dom", "month", "dow"}
BY DEF Fields, FieldBounds

LEMMA DateIsLater ==
  ASSUME NEW z \in Zones, NEW e \in Int, Clear(z, e), NEW i \in Int, Local(z, i) < e
  PROVE  i < Date(z, e)
<1> DEFINE b == z.before
           a == z.after
           c == z.change
           old == Old(z)
           new == New(z)
           le == Local(z, i)
           de == Date(z, e)
<1>1. b \in Int /\ a \in Int /\ c \in Int /\ old = c + b /\ new = c + a
  BY ZoneFacts DEF Old, New
<1>2. le = (IF i < c THEN i + b ELSE i + a) /\ le < e
  BY ZoneFacts
<1>3. de = e - (IF e < old THEN b ELSE a)
  BY DateOfClear
<1>4. new = old \/ (e < old /\ e < new) \/ (e >= old /\ e >= new)
  BY DEF Clear
<1> HIDE DEF b, a, c, old, new, le, de
<1>5. CASE new = old
  <2>1. a = b
    BY <1>1, <1>5
  <2> QED
    BY <1>1, <1>2, <1>3, <2>1 DEF de
<1>6. CASE e < old /\ e < new
  BY <1>1, <1>2, <1>3, <1>6 DEF de
<1>7. CASE e >= old /\ e >= new
  BY <1>1, <1>2, <1>3, <1>7 DEF de
<1> QED
  BY <1>4, <1>5, <1>6, <1>7

LEMMA MonthGoesBy ==
  ASSUME NEW z \in Zones, Orderly(z), NEW i \in Int
  PROVE  /\ firstOfNextMonth(z, i) \in Int /\ i < firstOfNextMonth(z, i)
         /\ \A k \in Int : i <= k /\ k < firstOfNextMonth(z, i) =>
              FieldsOf(Local(z, k)).month = FieldsOf(Local(z, i)).month
<1> DEFINE l == Local(z, i)
           days == MonthDays[MonthOf(l)]
           first == FirstOfMonth(l)
           e == first + days * DayMinutes
<1>1. l \in Int
  BY ZoneFacts
<1>2. /\ first \in Int /\ first % DayMinutes = 0
      /\ e \in Int /\ e % DayMinutes = 0
      /\ first <= l /\ l < e
      /\ MonthOf(first) = MonthOf(l)
      /\ \A j \in Int : first <= j /\ j < e => MonthOf(j) = MonthOf(l)
  BY <1>1, MonthBlock
<1>3. Clear(z, first) /\ Clear(z, e)
  BY <1>2, OrderlyZones
<1>4. Local(z, Date(z, first)) = first
  BY <1>2, <1>3, DateOfClear
<1>5. firstOfNextMonth(z, i) = Date(z, e)
  <2>1. firstOfNextMonth(z, i) = AddMonth(z, Date(z, first))
    BY DEF firstOfNextMonth
  <2>2. AddMonth(z, Date(z, first)) =
          Date(z, Local(z, Date(z, first))
                    + MonthDays[MonthOf(Local(z, Date(z, first)))] * DayMinutes)
    BY DEF AddMonth, AddDays
  <2>3. AddMonth(z, Date(z, first)) = Date(z, first + MonthDays[MonthOf(first)] * DayMinutes)
    BY <1>4, <2>2
  <2> QED
    BY <1>2, <2>1, <2>3
<1>6. Date(z, e) \in Int /\ i < Date(z, e)
  BY <1>2, <1>3, ZoneFacts, DateIsLater
<1>7. ASSUME NEW k \in Int, i <= k, k < Date(z, e)
      PROVE  FieldsOf(Local(z, k)).month = FieldsOf(l).month
  <2>1. first <= Local(z, k) /\ Local(z, k) < e
    BY <1>2, <1>3, <1>7, BlockIsKept
  <2>2. Local(z, k) \in Int
    BY ZoneFacts
  <2>3. MonthOf(Local(z, k)) = MonthOf(l)
    BY <1>2, <2>1, <2>2
  <2> QED
    BY <2>3 DEF FieldsOf
<1> QED
  BY <1>5, <1>6, <1>7

LEMMA DayGoesBy ==
  ASSUME NEW z \in Zones, Orderly(z), NEW i \in Int
  PROVE  /\ nextDay(z, i) \in Int /\ i < nextDay(z, i)
         /\ \A k \in Int : i <= k /\ k < nextDay(z, i) =>
              /\ FieldsOf(Local(z, k)).dom = FieldsOf(Local(z, i)).dom
              /\ FieldsOf(Local(z, k)).dow = FieldsOf(Local(z, i)).dow
<1> DEFINE l == Local(z, i)
           m == Midnight(l)
           e == m + DayMinutes
<1>1. l \in Int
  BY ZoneFacts
<1>2. /\ m \in Int /\ e \in Int /\ m <= l /\ l < e
      /\ m = DayMinutes * DayNumber(l) /\ DayNumber(l) \in Int
      /\ DayMinutes \in Nat \ {0}
  <2>1. m \in Int /\ m <= l /\ l < e /\ m = DayMinutes * DayNumber(l) /\ DayNumber(l) \in Int
    BY <1>1, DayFacts
  <2>2. DayMinutes \in Nat \ {0}
    BY Units
  <2> HIDE DEF m
  <2>3. e \in Int
    BY <2>1, <2>2
  <2> QED
    BY <2>1, <2>2, <2>3
<1>3. m % DayMinutes = 0 /\ e % DayMinutes = 0
  <2> DEFINE d == DayMinutes
             q == DayNumber(l)
  <2> HIDE DEF d, q, m, e
  <2>1. d \in Nat \ {0} /\ q \in Int /\ m = d * q /\ m \in Int /\ e \in Int
    BY <1>2 DEF d, q
  <2>2. e = m + d
    BY DEF e, d
  <2>3. d * (q + 1) = d * q + d /\ q + 1 \in Int
    BY <2>1
  <2>4. d * q <= m /\ m < d * q + d /\ m - d * q = 0
    BY <2>1
  <2>5. e = d * (q + 1)
    BY <2>1, <2>2, <2>3
  <2>6. d * (q + 1) <= e /\ e < d * (q + 1) + d /\ e - d * (q + 1) = 0
    BY <2>1, <2>5
  <2>7. m % d = m - d * q
    BY <2>1, <2>4, FloorIs
  <2>8. e % d = e - d * (q + 1)
    BY <2>1, <2>3, <2>6, FloorIs
  <2> QED
    BY <2>4, <2>6, <2>7, <2>8 DEF d
<1>4. Clear(z, m) /\ Clear(z, e)
  BY <1>2, <1>3, OrderlyZones
<1>5. Local(z, Date(z, m)) = m
  BY <1>2, <1>4, DateOfClear
<1>6. nextDay(z, i) = Date(z, e)
  <2>1. nextDay(z, i) = Date(z, Local(z, Date(z, m)) + 1 * DayMinutes)
    BY DEF nextDay, AddDays
  <2>2. 1 * DayMinutes = DayMinutes
    BY <1>2
  <2> QED
    BY <1>5, <2>1, <2>2
<1>7. Date(z, e) \in Int /\ i < Date(z, e)
  BY <1>2, <1>4, ZoneFacts, DateIsLater
<1>8. ASSUME NEW k \in Int, i <= k, k < Date(z, e)
      PROVE  /\ FieldsOf(Local(z, k)).dom = FieldsOf(l).dom
             /\ FieldsOf(Local(z, k)).dow = FieldsOf(l).dow
  <2>1. m <= Local(z, k) /\ Local(z, k) < e
    BY <1>2, <1>4, <1>8, BlockIsKept
  <2>2. Local(z, k) \in Int
    BY ZoneFacts
  <2>3. DayNumber(Local(z, k)) = DayNumber(l)
    BY <1>1, <2>1, <2>2, DayBlock
  <2> QED
    BY <1>1, <2>2, <2>3, SameDay
<1> QED
  BY <1>6, <1>7, <1>8

LEMMA HourGoesBy ==
  ASSUME NEW z \in Zones, Orderly(z), NEW i \in Int
  PROVE  /\ nextHour(z, i) \in Int
         /\ Advances(z) => i < nextHour(z, i)
         /\ \A k \in Int : i <= k /\ k < nextHour(z, i) =>
              FieldsOf(Local(z, k)).hour = FieldsOf(Local(z, i)).hour
<1> DEFINE l == Local(z, i)
<1>1. l \in Int
  BY ZoneFacts
<1>2. HourStart(l) <= l /\ l < HourStart(l) + MinutesPerHour /\ HourStart(l) \in Int
  <2>1. l % MinutesPerHour \in 0..(MinutesPerHour - 1) /\ MinutesPerHour \in Nat \ {0}
    BY <1>1, Units, Floor
  <2> DEFINE r == l % MinutesPerHour
  <2> HIDE DEF r, l
  <2>2. HourStart(l) = l - r
    BY DEF HourStart, r
  <2>3. r \in 0..(MinutesPerHour - 1)
    BY <2>1 DEF r
  <2> QED
    BY <1>1, <2>1, <2>2, <2>3
<1>3. nextHour(z, i) \in Int
  <2>1. nextHour(z, i) = Date(z, HourStart(l)) + MinutesPerHour
    BY DEF nextHour, HourStart
  <2>2. Date(z, HourStart(l)) \in Int /\ MinutesPerHour \in Int
    BY <1>2, ZoneFacts, Units
  <2> QED
    BY <2>1, <2>2
<1>4. ASSUME NEW k \in Int, i <= k, k < nextHour(z, i)
      PROVE  FieldsOf(Local(z, k)).hour = FieldsOf(l).hour
  <2>1. HourStart(l) <= Local(z, k) /\ Local(z, k) < HourStart(l) + MinutesPerHour
    BY <1>4, HourIsKept
  <2>2. Local(z, k) \in Int
    BY ZoneFacts
  <2> QED
    BY <1>1, <2>1, <2>2, HourBlock
<1> QED
  BY <1>3, <1>4, HourIsKept

-----------------------------------------------------------------------------
(* What the search keeps.                                                  *)
Searched == zone \in Zones /\ from \in Nat /\ t \in Int /\ NothingSkipped

LEMMA FirstIsInt ==
  ASSUME NEW s \in Nat
  PROVE  FirstCandidate(s) \in Int
BY Units, Floor DEF FirstCandidate

LEMMA SearchBegins == Init => Searched
<1> SUFFICES ASSUME Init PROVE Searched
  OBVIOUS
<1>1. zone \in Zones /\ from \in Nat /\ t = FirstCandidate(from)
  BY CalendarAssumption DEF Init
<1>2. t \in Int
  BY <1>1, FirstIsInt
<1>3. FirstCandidate(from)..(t - 1) = {}
  BY <1>1, <1>2
<1> QED
  BY <1>1, <1>2, <1>3 DEF Searched, NothingSkipped

(* A jump that leaves the field it was taken for as it was.                *)
LEMMA JumpIsSafe ==
  ASSUME Searched, NEW next \in Int, Skip(next), NEW f \in Fields, ~Fits(f),
         \A k \in Int : t <= k /\ k < next =>
           FieldsOf(Local(zone, k))[f] = FieldsOf(Local(zone, t))[f]
  PROVE  Searched'
<1>1. t' = next /\ zone' = zone /\ sched' = sched /\ from' = from
  BY DEF Skip
<1>2. FirstCandidate(from) \in Int /\ t \in Int
  BY FirstIsInt DEF Searched
<1>3. ASSUME NEW i \in FirstCandidate(from)..(next - 1) PROVE ~Matches(i)
  <2>0. i \in Int /\ FirstCandidate(from) <= i /\ i < next
    BY <1>2
  <2>1. CASE i < t
    <3>1. i \in FirstCandidate(from)..(t - 1)
      BY <1>2, <2>0, <2>1
    <3> QED
      BY <3>1 DEF Searched, NothingSkipped
  <2>2. CASE ~(i < t)
    <3>1. FieldsOf(Local(zone, i))[f] = FieldsOf(Local(zone, t))[f]
      BY <1>2, <2>0, <2>2
    <3>2. FieldsOf(Local(zone, t))[f] \notin sched[f]
      BY DEF Fits, Now
    <3> QED
      BY <3>1, <3>2 DEF Matches
  <2> QED
    BY <2>1, <2>2
<1>4. NothingSkipped'
  BY <1>1, <1>3 DEF NothingSkipped, Matches
<1> QED
  BY <1>1, <1>4 DEF Searched

LEMMA SearchGoesOn ==
  ASSUME \A z \in Zones : Orderly(z), Searched, [Next]_vars
  PROVE  Searched'
<1>1. zone \in Zones /\ Orderly(zone) /\ t \in Int
  BY DEF Searched
<1>2. /\ "month" \in Fields /\ "dom" \in Fields /\ "dow" \in Fields
      /\ "hour" \in Fields /\ "minute" \in Fields
  BY FieldsAre
<1>3. CASE SkipMonth
  <2>1. Skip(firstOfNextMonth(zone, t)) /\ ~Fits("month")
    BY <1>3 DEF SkipMonth
  <2> QED
    BY <1>1, <1>2, <2>1, MonthGoesBy, JumpIsSafe
<1>4. CASE SkipDay
  <2>1. Skip(nextDay(zone, t)) /\ (~Fits("dom") \/ ~Fits("dow"))
    BY <1>4 DEF SkipDay
  <2> QED
    BY <1>1, <1>2, <2>1, DayGoesBy, JumpIsSafe
<1>5. CASE SkipHour
  <2>1. Skip(nextHour(zone, t)) /\ ~Fits("hour")
    BY <1>5 DEF SkipHour
  <2> QED
    BY <1>1, <1>2, <2>1, HourGoesBy, JumpIsSafe
<1>6. CASE SkipMinute
  <2>1. Skip(t + 1) /\ ~Fits("minute") /\ t + 1 \in Int
    BY <1>1, <1>6 DEF SkipMinute
  <2>2. \A k \in Int : t <= k /\ k < t + 1 => k = t
    BY <1>1
  <2> QED
    BY <1>2, <2>1, <2>2, JumpIsSafe
<1>7. CASE Return
  <2>1. UNCHANGED <<zone, sched, from, t>>
    BY <1>7 DEF Return
  <2> QED
    BY <2>1 DEF Searched, NothingSkipped, Matches
<1>8. CASE UNCHANGED vars
  <2>1. UNCHANGED <<zone, sched, from, t>>
    BY <1>8 DEF vars
  <2> QED
    BY <2>1 DEF Searched, NothingSkipped, Matches
<1> QED
  BY <1>3, <1>4, <1>5, <1>6, <1>7, <1>8 DEF Next

(* In orderly zones whose clocks never go back to an offset below zero,    *)
(* every iteration that does not return moves the candidate forward, so    *)
(* that the search, which stops at limit, has only finitely many of them.  *)
(* (ClaimNextReturns shows it caught in a zone that does.)                 *)
THEOREM JumpsGoForward ==
  ASSUME \A z \in Zones : Orderly(z) /\ Advances(z), Searched,
         SkipMonth \/ SkipDay \/ SkipHour \/ SkipMinute
  PROVE  t' > t
<1>1. zone \in Zones /\ Orderly(zone) /\ Advances(zone) /\ t \in Int
  BY DEF Searched
<1>2. /\ firstOfNextMonth(zone, t) \in Int /\ t < firstOfNextMonth(zone, t)
      /\ nextDay(zone, t) \in Int /\ t < nextDay(zone, t)
      /\ nextHour(zone, t) \in Int /\ t < nextHour(zone, t)
  BY <1>1, MonthGoesBy, DayGoesBy, HourGoesBy
<1>3. CASE SkipMonth
  BY <1>1, <1>2, <1>3 DEF SkipMonth, Skip
<1>4. CASE SkipDay
  BY <1>1, <1>2, <1>4 DEF SkipDay, Skip
<1>5. CASE SkipHour
  BY <1>1, <1>2, <1>5 DEF SkipHour, Skip
<1>6. CASE SkipMinute
  BY <1>1, <1>6 DEF SkipMinute, Skip
<1> QED
  BY <1>3, <1>4, <1>5, <1>6

(* In every time zone that is orderly, whatever its offset, the calendar   *)
(* and the expression, the search of Next leaps over no match: a match it  *)
(* returns is the first after from, and none means there is none.          *)
THEOREM NothingIsSkipped ==
  ASSUME \A z \in Zones : Orderly(z)
  PROVE  Spec => []NothingSkipped
<1>1. Searched /\ [Next]_vars => Searched'
  BY SearchGoesOn
<1>2. Searched => NothingSkipped
  BY DEF Searched
<1> QED
  BY <1>1, <1>2, SearchBegins, PTL DEF Spec

-----------------------------------------------------------------------------
(* Bounds of the fields are integers, and a part whose range and step the  *)
(* parser accepts denotes at least one value, all of them within bounds.   *)

LEMMA LongestMonth ==
  LET days == {MonthDays[m] : m \in Months}
  IN  (CHOOSE d \in days : \A m \in Months : MonthDays[m] <= d) \in Int
<1> DEFINE days == {MonthDays[m] : m \in Months}
<1>1. Months = 1..N /\ N \in Nat \ {0}
  BY Units DEF Months, N
<1>2. \A m \in Months : MonthDays[m] \in Int
  BY <1>1, Units
<1>3. IsFiniteSet(days)
  <2>1. IsFiniteSet(Months)
    BY <1>1, FS_Interval
  <2> DEFINE f == [m \in Months |-> MonthDays[m]]
  <2>2. f \in [Months -> days] /\ \A d \in days : \E m \in Months : f[m] = d
    OBVIOUS
  <2>3. f \in Surjection(Months, days)
    BY <2>2 DEF Surjection
  <2> QED
    BY <2>1, <2>3, FS_Surjection
<1>4. days \in SUBSET Int /\ days # {}
  <2>1. 1 \in Months
    BY <1>1
  <2> QED
    BY <1>2, <2>1
<1>5. Max(days) \in days /\ \A x \in days : x <= Max(days)
  BY <1>3, <1>4, Extremes
<1>6. \A m \in Months : MonthDays[m] \in days
  OBVIOUS
<1>7. \E d \in days : \A m \in Months : MonthDays[m] <= d
  BY <1>5, <1>6
<1>8. (CHOOSE d \in days : \A m \in Months : MonthDays[m] <= d) \in days
  BY <1>7
<1> QED
  BY <1>4, <1>8

LEMMA BoundsAreIntegers ==
  ASSUME NEW f \in Fields
  PROVE  FieldBounds[f][1] \in Int /\ FieldBounds[f][2] \in Int
<1> DEFINE longest == CHOOSE d \in {MonthDays[m] : m \in Months} :
                        \A m \in Months : MonthDays[m] <= d
<1>1. longest \in Int
  BY LongestMonth
<1>2. /\ MinutesPerHour - 1 \in Int /\ HoursPerDay - 1 \in Int
      /\ DaysPerWeek - 1 \in Int /\ Len(MonthDays) \in Int
  BY Units DEF N
<1>3. FieldBounds =
        [minute |-> <<0, MinutesPerHour - 1>>, hour |-> <<0, HoursPerDay - 1>>,
         dom |-> <<1, longest>>,
         month |-> <<1, Len(MonthDays)>>, dow |-> <<0, DaysPerWeek - 1>>]
  BY DEF FieldBounds
<1> HIDE DEF longest
<1> QED
  BY <1>1, <1>2, <1>3, FieldsAre

LEMMA PartsDenote ==
  ASSUME NEW part \in [range : {Star} \cup (Int \X Int), step : Int],
         NEW bounds, bounds[1] \in Int, bounds[2] \in Int, PartAccepted(part, bounds)
  PROVE  parsePart(part, bounds) # {} /\ parsePart(part, bounds) \subseteq bounds[1]..bounds[2]
<1> DEFINE r == PartRange(part, bounds)
           step == part.step
<1>1. r[1] \in Int /\ r[2] \in Int
  <2>1. part.range = Star \/ part.range \in Int \X Int
    OBVIOUS
  <2> QED
    BY <2>1 DEF PartRange
<1>2. /\ step \in Nat \ {0}
      /\ r[1] >= bounds[1] /\ r[2] <= bounds[2] /\ r[1] <= r[2]
  BY DEF PartAccepted
<1>3. parsePart(part, bounds) = {v \in r[1]..r[2] : (v - r[1]) % step = 0}
  BY DEF parsePart
<1> HIDE DEF r, step
<1>4. r[1] \in r[1]..r[2] /\ r[1] - r[1] = 0
  BY <1>1, <1>2
<1>5. 0 % step = 0
  <2>1. 0 \in Int /\ step * 0 = 0
    BY <1>2
  <2> QED
    BY <1>2, <2>1, FloorIs
<1>6. r[1] \in parsePart(part, bounds)
  BY <1>3, <1>4, <1>5
<1>7. r[1]..r[2] \subseteq bounds[1]..bounds[2]
  BY <1>1, <1>2
<1> QED
  BY <1>3, <1>6, <1>7

LEMMA ParsedFieldsAreProper ==
  ASSUME NEW e \in Exprs, Accepted(e), NEW f \in Fields
  PROVE  /\ Parse(e)[f] # {}
         /\ Parse(e)[f] \subseteq FieldBounds[f][1]..FieldBounds[f][2]
<1> DEFINE P == [range : {Star} \cup (Int \X Int), step : Int]
           parts == e[f]
           bounds == FieldBounds[f]
<1>1. parts \in Seq(P) /\ parts # <<>>
  BY ExprsAssumption DEF Accepted
<1>2. \A i \in DOMAIN parts : PartAccepted(parts[i], bounds)
  BY DEF Accepted
<1>3. Parse(e)[f] = UNION {parsePart(parts[i], bounds) : i \in DOMAIN parts}
  BY DEF Parse, parseField
<1>4. bounds[1] \in Int /\ bounds[2] \in Int
  BY BoundsAreIntegers
<1> HIDE DEF P, parts, bounds
<1>5. DOMAIN parts = 1..Len(parts) /\ 1 \in DOMAIN parts
  BY <1>1, LenProperties, EmptySeq
<1>6. \A i \in DOMAIN parts : parts[i] \in P
  BY <1>1, <1>5, ElementOfSeq
<1>7. \A i \in DOMAIN parts : /\ parsePart(parts[i], bounds) # {}
                              /\ parsePart(parts[i], bounds) \subseteq bounds[1]..bounds[2]
  BY <1>2, <1>4, <1>6, PartsDenote DEF P
<1>8. Parse(e)[f] # {} /\ Parse(e)[f] \subseteq bounds[1]..bounds[2]
  <2> DEFINE B == bounds[1]..bounds[2]
  <2>1. \A i \in DOMAIN parts : parsePart(parts[i], bounds) \subseteq B
    BY <1>7
  <2> HIDE DEF B
  <2>2. Parse(e)[f] \subseteq B
    BY <1>3, <2>1
  <2>3. PICK v : v \in parsePart(parts[1], bounds)
    BY <1>5, <1>7
  <2>4. v \in UNION {parsePart(parts[i], bounds) : i \in DOMAIN parts}
    BY <1>5, <2>3, Zenon
  <2> QED
    BY <1>3, <2>2, <2>4 DEF B
<1> QED
  BY <1>8 DEF bounds

-----------------------------------------------------------------------------
Typed == TypeOK /\ zone \in Zones

LEMMA AddDaysIsTyped ==
  ASSUME NEW z \in Zones, NEW i \in Int, NEW n \in Int
  PROVE  AddDays(z, i, n) \in Int
<1> DEFINE l == Local(z, i)
           x == n * DayMinutes
<1>1. l \in Int /\ DayMinutes \in Int
  BY ZoneFacts, Units
<1>2. x \in Int
  BY <1>1
<1> HIDE DEF l, x
<1>3. l + x \in Int
  BY <1>1, <1>2
<1> QED
  BY <1>3, ZoneFacts DEF AddDays, l, x

LEMMA JumpsAreTyped ==
  ASSUME NEW z \in Zones, NEW i \in Int
  PROVE  firstOfNextMonth(z, i) \in Int /\ nextDay(z, i) \in Int /\ nextHour(z, i) \in Int
<1> DEFINE l == Local(z, i)
<1>1. l \in Int
  BY ZoneFacts
<1>2. FirstOfMonth(l) \in Int /\ Midnight(l) \in Int
  BY <1>1, MonthBlock, DayFacts
<1>3. HourStart(l) \in Int
  <2>1. l % MinutesPerHour \in Int
    BY <1>1, Units, Floor
  <2> QED
    BY <1>1, <2>1 DEF HourStart
<1>4. \A x \in Int : Date(z, x) \in Int /\ Local(z, Date(z, x)) \in Int
  BY ZoneFacts
<1>5. ASSUME NEW x \in Int PROVE AddMonth(z, x) \in Int
  <2>1. Local(z, x) \in Int
    BY ZoneFacts
  <2>2. MonthDays[MonthOf(Local(z, x))] \in Int
    BY <2>1, MonthBlock
  <2> QED
    BY <2>2, AddDaysIsTyped DEF AddMonth
<1>6. firstOfNextMonth(z, i) \in Int
  BY <1>2, <1>4, <1>5 DEF firstOfNextMonth
<1>7. nextDay(z, i) \in Int
  BY <1>2, <1>4, AddDaysIsTyped DEF nextDay
<1>8. nextHour(z, i) \in Int
  <2>1. nextHour(z, i) = Date(z, HourStart(l)) + MinutesPerHour
    BY DEF nextHour, HourStart
  <2>2. MinutesPerHour \in Int /\ Date(z, HourStart(l)) \in Int
    BY <1>3, <1>4, Units
  <2> QED
    BY <2>1, <2>2
<1> QED
  BY <1>6, <1>7, <1>8

LEMMA TypedAtFirst == Init => Typed
<1> SUFFICES ASSUME Init PROVE Typed
  OBVIOUS
<1>1. /\ zone \in Zones /\ from \in Nat /\ t = FirstCandidate(from)
      /\ limit = AddDays(zone, t, MaxYears * YearDays)
      /\ result = "searching"
  BY CalendarAssumption DEF Init
<1>2. t \in Int
  BY <1>1, FirstIsInt
<1>3. limit \in Int
  <2>1. MaxYears \in Int /\ YearDays \in Int
    BY Units, YearHasDays
  <2>2. MaxYears * YearDays \in Int
    BY <2>1
  <2> QED
    BY <1>1, <1>2, <2>2, AddDaysIsTyped
<1>4. PICK e \in Exprs : Accepted(e) /\ sched = Parse(e)
  BY DEF Init
<1>5. \A f \in Fields : /\ sched[f] # {}
                        /\ sched[f] \subseteq FieldBounds[f][1]..FieldBounds[f][2]
  BY <1>4, ParsedFieldsAreProper
<1> QED
  BY <1>1, <1>2, <1>3, <1>5 DEF Typed, TypeOK

LEMMA StaysTyped == Typed /\ [Next]_vars => Typed'
<1> SUFFICES ASSUME Typed, [Next]_vars PROVE Typed'
  OBVIOUS
<1>1. zone \in Zones /\ t \in Int /\ TypeOK
  BY DEF Typed, TypeOK
<1>2. ASSUME NEW next \in Int, Skip(next) PROVE Typed'
  BY <1>1, <1>2 DEF Skip, Typed, TypeOK
<1>3. CASE SkipMonth
  BY <1>1, <1>2, <1>3, JumpsAreTyped DEF SkipMonth
<1>4. CASE SkipDay
  BY <1>1, <1>2, <1>4, JumpsAreTyped DEF SkipDay
<1>5. CASE SkipHour
  BY <1>1, <1>2, <1>5, JumpsAreTyped DEF SkipHour
<1>6. CASE SkipMinute
  <2>1. t + 1 \in Int /\ Skip(t + 1)
    BY <1>1, <1>6 DEF SkipMinute
  <2> QED
    BY <1>2, <2>1
<1>7. CASE Return
  BY <1>1, <1>7 DEF Return, Typed, TypeOK
<1>8. CASE UNCHANGED vars
  BY <1>1, <1>8 DEF vars, Typed, TypeOK
<1> QED
  BY <1>3, <1>4, <1>5, <1>6, <1>7, <1>8 DEF Next

(* Whatever the zones, the calendar and the expressions: a schedule that   *)
(* Parse accepts has a value for every field and none out of bounds.       *)
THEOREM TypeCorrect == Spec => []TypeOK
<1>1. Typed => TypeOK
  BY DEF Typed
<1> QED
  BY <1>1, TypedAtFirst, StaysTyped, PTL DEF Spec
=============================================================================
