----------------------------- MODULE DataLemmas -----------------------------
(***************************************************************************)
(* Facts about numbers, finite sets and listings that the proofs of        *)
(* Queries, Tags and Cron cite.  Induction is by least counterexample: a   *)
(* property to be shown of all numbers is the set of those that have it.   *)
(***************************************************************************)
EXTENDS Listing, Sequences, FiniteSetsExt, FiniteSetTheorems, TLAPS

-----------------------------------------------------------------------------
(* A relation that contains < of the numbers and is well founded has a     *)
(* least element in every set of numbers.                                  *)
LEMMA LeastBy ==
  ASSUME NEW R, IsWellFoundedOn(R, Nat),
         \A x, y \in Nat : y < x => <<y, x>> \in R,
         NEW T \in SUBSET Nat, T # {}
  PROVE  \E n \in T : \A m \in T : n <= m
<1>1. PICK n \in T : \A m \in T : ~(<<m, n>> \in R)
  BY WFMin
<1>2. ASSUME NEW m \in T PROVE n <= m
  <2>1. ~(<<m, n>> \in R)
    BY <1>1
  <2>2. m < n => <<m, n>> \in R
    OBVIOUS
  <2>3. ~(m < n)
    BY <2>1, <2>2, Zenon
  <2> QED BY <2>3
<1> QED BY <1>2

LEMMA LeastElement ==
  ASSUME NEW T \in SUBSET Nat, T # {}
  PROVE  \E n \in T : \A m \in T : n <= m
<1> DEFINE R == OpToRel(<, Nat)
<1>1. IsWellFoundedOn(R, Nat)
  BY NatLessThanWellFounded
<1>2. \A x, y \in Nat : y < x => <<y, x>> \in R
  BY DEF OpToRel
<1> HIDE DEF R
<1> QED BY <1>1, <1>2, LeastBy

(* Induction: a set of numbers that holds 0 and is closed under successor  *)
(* holds every number.                                                     *)
LEMMA Induction ==
  ASSUME NEW S, 0 \in S, \A n \in Nat : n \in S => n + 1 \in S
  PROVE  \A n \in Nat : n \in S
<1> SUFFICES ASSUME NEW k \in Nat, k \notin S PROVE FALSE
  OBVIOUS
<1> DEFINE T == Nat \ S
<1>1. PICK n \in T : \A m \in T : n <= m
  BY LeastElement
<1>2. n # 0 /\ n - 1 \in Nat
  BY <1>1
<1>3. n - 1 \in S
  BY <1>1, <1>2
<1> QED BY <1>1, <1>3, <1>2

-----------------------------------------------------------------------------
(* The rank of an element is the number of those before it.  In a finite   *)
(* set with a strict total order the ranks are 0, 1, ... without gaps.     *)
Ranks(S, R) == [x \in S |-> Cardinality({y \in S : <<y, x>> \in R})]

TotalOn(R, S) ==
  /\ \A x \in S : <<x, x>> \notin R
  /\ \A x, y, z \in S : <<x, y>> \in R /\ <<y, z>> \in R => <<x, z>> \in R
  /\ \A x, y \in S : x = y \/ <<x, y>> \in R \/ <<y, x>> \in R

LEMMA RanksGrow ==
  ASSUME NEW S, IsFiniteSet(S), NEW R, TotalOn(R, S)
  PROVE  /\ Cardinality(S) \in Nat
         /\ Ranks(S, R) \in [S -> 0..(Cardinality(S) - 1)]
         /\ \A x, y \in S : <<x, y>> \in R <=> Ranks(S, R)[x] < Ranks(S, R)[y]
<1> DEFINE Before(x) == {y \in S : <<y, x>> \in R}
           n == Cardinality(S)
<1>1. n \in Nat
  BY FS_CardinalityType
<1>2. ASSUME NEW x \in S
      PROVE  /\ IsFiniteSet(Before(x)) /\ Cardinality(Before(x)) \in Nat
             /\ Cardinality(Before(x)) \in 0..(n - 1)
             /\ IsFiniteSet(Before(x) \cup {x})
             /\ Cardinality(Before(x) \cup {x}) = Cardinality(Before(x)) + 1
  <2>1. IsFiniteSet(Before(x)) /\ x \notin Before(x)
    BY FS_Subset DEF TotalOn
  <2>2. /\ IsFiniteSet(Before(x) \cup {x})
        /\ Cardinality(Before(x) \cup {x}) = Cardinality(Before(x)) + 1
    BY <2>1, FS_AddElement
  <2>3. Cardinality(Before(x) \cup {x}) <= n /\ Cardinality(Before(x)) \in Nat
    <3>1. Before(x) \cup {x} \in SUBSET S
      OBVIOUS
    <3> QED
      BY <2>1, <3>1, FS_Subset, FS_CardinalityType
  <2> QED
    BY <1>1, <2>1, <2>2, <2>3
<1> HIDE DEF Before
<1>3. ASSUME NEW x \in S, NEW y \in S, <<x, y>> \in R
      PROVE  Cardinality(Before(x)) < Cardinality(Before(y))
  <2>1. Before(x) \cup {x} \in SUBSET Before(y)
    BY <1>3 DEF TotalOn, Before
  <2>2. Cardinality(Before(x) \cup {x}) <= Cardinality(Before(y))
    BY <1>2, <2>1, FS_Subset
  <2>3. /\ Cardinality(Before(x)) \in Nat /\ Cardinality(Before(y)) \in Nat
        /\ Cardinality(Before(x) \cup {x}) = Cardinality(Before(x)) + 1
    BY <1>2, Zenon
  <2> QED
    BY <2>2, <2>3
<1>4. \A x \in S : Ranks(S, R)[x] = Cardinality(Before(x))
  BY DEF Ranks, Before
<1>5. ASSUME NEW x \in S, NEW y \in S, Ranks(S, R)[x] < Ranks(S, R)[y]
      PROVE  <<x, y>> \in R
  <2>1. x # y /\ ~(Ranks(S, R)[y] < Ranks(S, R)[x])
    <3>1. Ranks(S, R)[x] \in Nat /\ Ranks(S, R)[y] \in Nat
      BY <1>2, <1>4, Zenon
    <3> QED
      BY <1>5, <3>1
  <2>2. <<y, x>> \notin R
    BY <1>3, <1>4, <2>1
  <2> QED
    BY <2>1, <2>2 DEF TotalOn
<1>6. Ranks(S, R) \in [S -> 0..(n - 1)]
  BY <1>2 DEF Ranks, Before
<1> QED
  BY <1>1, <1>3, <1>4, <1>5, <1>6

(* Hence the listing by rank has every element once, in order.             *)
RankListing(S, R) ==
  [i \in 1..Cardinality(S) |-> CHOOSE x \in S : Ranks(S, R)[x] = i - 1]

InOrder(list, S, R) ==
  /\ Cardinality(S) \in Nat
  /\ list \in [1..Cardinality(S) -> S]
  /\ \A x \in S : \E i \in 1..Cardinality(S) :
       list[i] = x /\ Ranks(S, R)[x] = i - 1
  /\ \A i, j \in 1..Cardinality(S) : i < j <=> <<list[i], list[j]>> \in R

LEMMA ListingByRank ==
  ASSUME NEW S, IsFiniteSet(S), NEW R, TotalOn(R, S)
  PROVE  InOrder(RankListing(S, R), S, R)
<1> DEFINE n == Cardinality(S)
           f == Ranks(S, R)
           list == RankListing(S, R)
<1>1. /\ n \in Nat /\ f \in [S -> 0..(n - 1)]
      /\ \A x, y \in S : <<x, y>> \in R <=> f[x] < f[y]
  BY RanksGrow
<1> HIDE DEF f
<1>2. \A x, y \in S : f[x] = f[y] => x = y
  <2> SUFFICES ASSUME NEW x \in S, NEW y \in S, f[x] = f[y] PROVE x = y
    OBVIOUS
  <2>1. f[x] \in Int /\ f[y] \in Int
    BY <1>1
  <2>2. <<x, y>> \notin R /\ <<y, x>> \notin R
    BY <1>1, <2>1
  <2> QED
    BY <2>2 DEF TotalOn
<1>3. f \in Surjection(S, 0..(n - 1))
  <2>1. f \in Injection(S, 0..(n - 1))
    BY <1>1, <1>2 DEF Injection, IsInjective
  <2>2. IsFiniteSet(0..(n - 1)) /\ Cardinality(0..(n - 1)) = n
    BY <1>1, FS_Interval
  <2> QED
    BY <2>1, <2>2, FS_Injection
<1>4. ASSUME NEW i \in 1..n
      PROVE  list[i] \in S /\ f[list[i]] = i - 1
  <2>1. i - 1 \in 0..(n - 1)
    BY <1>1
  <2>2. \E x \in S : f[x] = i - 1
    BY <1>3, <2>1 DEF Surjection
  <2>3. list[i] = CHOOSE x \in S : f[x] = i - 1
    BY DEF f, RankListing
  <2> QED
    BY <2>2, <2>3
<1>5. ASSUME NEW x \in S
      PROVE  \E i \in 1..n : list[i] = x /\ f[x] = i - 1
  <2>1. f[x] + 1 \in 1..n /\ f[x] \in Int
    BY <1>1
  <2>2. list[f[x] + 1] \in S /\ f[list[f[x] + 1]] = f[x]
    BY <1>4, <2>1
  <2>3. list[f[x] + 1] = x
    BY <1>2, <2>2
  <2>4. f[x] = (f[x] + 1) - 1
    BY <2>1
  <2> QED
    BY <2>1, <2>3, <2>4
<1>6. ASSUME NEW i \in 1..n, NEW j \in 1..n
      PROVE  i < j <=> <<list[i], list[j]>> \in R
  <2>1. <<list[i], list[j]>> \in R <=> f[list[i]] < f[list[j]]
    BY <1>1, <1>4
  <2>2. f[list[i]] = i - 1 /\ f[list[j]] = j - 1 /\ i \in Int /\ j \in Int
    BY <1>1, <1>4
  <2>3. f[list[i]] < f[list[j]] <=> i < j
    BY <2>2
  <2> QED
    BY <2>1, <2>3
<1>7. list \in [1..n -> S]
  BY <1>4 DEF RankListing
<1> QED
  BY <1>1, <1>5, <1>6, <1>7 DEF f, InOrder

(* The numbers of a finite set, the smallest first.                        *)
AscendingList(S) ==
  [i \in 1..Cardinality(S) |->
     CHOOSE x \in S : Cardinality({y \in S : y < x}) = i - 1]

Rises(list, S) ==
  /\ Cardinality(S) \in Nat
  /\ list \in [1..Cardinality(S) -> S]
  /\ \A x \in S : \E i \in 1..Cardinality(S) :
       list[i] = x /\ Cardinality({y \in S : y < x}) = i - 1
  /\ \A i, j \in 1..Cardinality(S) : i < j <=> list[i] < list[j]

LEMMA Ascending ==
  ASSUME NEW S \in SUBSET Int, IsFiniteSet(S)
  PROVE  Rises(AscendingList(S), S)
<1> DEFINE list == AscendingList(S)
           R == {p \in S \X S : p[1] < p[2]}
<1>1. \A x, y \in S : <<x, y>> \in R <=> x < y
  OBVIOUS
<1>2. TotalOn(R, S)
  <2>1. \A x, y, z \in S : x < y /\ y < z => x < z
    OBVIOUS
  <2>2. \A x, y \in S : x = y \/ x < y \/ y < x
    OBVIOUS
  <2>3. \A x \in S : ~(x < x)
    OBVIOUS
  <2> HIDE DEF R
  <2> QED
    BY <1>1, <2>1, <2>2, <2>3, Zenon DEF TotalOn
<1>3. \A x \in S : Ranks(S, R)[x] = Cardinality({y \in S : y < x})
  <2> TAKE x \in S
  <2>1. {y \in S : <<y, x>> \in R} = {y \in S : y < x}
    BY <1>1
  <2> HIDE DEF R
  <2> QED
    BY <2>1 DEF Ranks
<1>4. list = RankListing(S, R)
  <2> HIDE DEF R
  <2>1. \A i \in 1..Cardinality(S) :
          (CHOOSE x \in S : Ranks(S, R)[x] = i - 1)
            = (CHOOSE x \in S : Cardinality({y \in S : y < x}) = i - 1)
    BY <1>3
  <2> QED
    BY <2>1 DEF RankListing, AscendingList
<1> HIDE DEF R, list
<1>5. InOrder(RankListing(S, R), S, R)
  BY <1>2, ListingByRank
<1>6. InOrder(list, S, R)
  BY <1>4, <1>5
<1>7. \A x \in S : \E i \in 1..Cardinality(S) :
         list[i] = x /\ Cardinality({y \in S : y < x}) = i - 1
  <2> TAKE x \in S
  <2>1. PICK i \in 1..Cardinality(S) : list[i] = x /\ Ranks(S, R)[x] = i - 1
    BY <1>6 DEF InOrder
  <2> QED
    BY <1>3, <2>1
<1>8. \A i, j \in 1..Cardinality(S) : i < j <=> list[i] < list[j]
  <2> TAKE i, j \in 1..Cardinality(S)
  <2>1. list[i] \in S /\ list[j] \in S /\ (i < j <=> <<list[i], list[j]>> \in R)
    BY <1>6 DEF InOrder
  <2>2. <<list[i], list[j]>> \in R <=> list[i] < list[j]
    BY <1>1, <2>1
  <2> QED
    BY <2>1, <2>2
<1> QED
  BY <1>6, <1>7, <1>8 DEF InOrder, list, Rises

(* The numbers of a finite set, the greatest first.                        *)
DescendingList(S) ==
  [i \in 1..Cardinality(S) |->
     CHOOSE x \in S : Cardinality({y \in S : y > x}) = i - 1]

Falls(list, S) ==
  /\ Cardinality(S) \in Nat
  /\ list \in [1..Cardinality(S) -> S]
  /\ \A x \in S : \E i \in 1..Cardinality(S) :
       list[i] = x /\ Cardinality({y \in S : y > x}) = i - 1
  /\ \A i, j \in 1..Cardinality(S) : i < j <=> list[i] > list[j]

LEMMA Descending ==
  ASSUME NEW S \in SUBSET Int, IsFiniteSet(S)
  PROVE  Falls(DescendingList(S), S)
<1> DEFINE list == DescendingList(S)
           R == {p \in S \X S : p[1] > p[2]}
<1>1. \A x, y \in S : <<x, y>> \in R <=> x > y
  OBVIOUS
<1>2. TotalOn(R, S)
  <2>1. \A x, y, z \in S : x > y /\ y > z => x > z
    OBVIOUS
  <2>2. \A x, y \in S : x = y \/ x > y \/ y > x
    OBVIOUS
  <2>3. \A x \in S : ~(x > x)
    OBVIOUS
  <2> HIDE DEF R
  <2> QED
    BY <1>1, <2>1, <2>2, <2>3, Zenon DEF TotalOn
<1>3. \A x \in S : Ranks(S, R)[x] = Cardinality({y \in S : y > x})
  <2> TAKE x \in S
  <2>1. {y \in S : <<y, x>> \in R} = {y \in S : y > x}
    BY <1>1
  <2> HIDE DEF R
  <2> QED
    BY <2>1 DEF Ranks
<1>4. list = RankListing(S, R)
  <2> HIDE DEF R
  <2>1. \A i \in 1..Cardinality(S) :
          (CHOOSE x \in S : Ranks(S, R)[x] = i - 1)
            = (CHOOSE x \in S : Cardinality({y \in S : y > x}) = i - 1)
    BY <1>3
  <2> QED
    BY <2>1 DEF RankListing, DescendingList
<1> HIDE DEF R, list
<1>5. InOrder(RankListing(S, R), S, R)
  BY <1>2, ListingByRank
<1>6. InOrder(list, S, R)
  BY <1>4, <1>5
<1>7. \A x \in S : \E i \in 1..Cardinality(S) :
         list[i] = x /\ Cardinality({y \in S : y > x}) = i - 1
  <2> TAKE x \in S
  <2>1. PICK i \in 1..Cardinality(S) : list[i] = x /\ Ranks(S, R)[x] = i - 1
    BY <1>6 DEF InOrder
  <2> QED
    BY <1>3, <2>1
<1>8. \A i, j \in 1..Cardinality(S) : i < j <=> list[i] > list[j]
  <2> TAKE i, j \in 1..Cardinality(S)
  <2>1. list[i] \in S /\ list[j] \in S /\ (i < j <=> <<list[i], list[j]>> \in R)
    BY <1>6 DEF InOrder
  <2>2. <<list[i], list[j]>> \in R <=> list[i] > list[j]
    BY <1>1, <2>1
  <2> QED
    BY <2>1, <2>2
<1> QED
  BY <1>6, <1>7, <1>8 DEF InOrder, list, Falls

-----------------------------------------------------------------------------
LEMMA MinOfTwo ==
  ASSUME NEW a \in Int, NEW b \in Int
  PROVE  Min({a, b}) = IF a <= b THEN a ELSE b
BY DEF Min

(* The least and the greatest element of a finite set.                     *)
LEMMA Extremes ==
  ASSUME NEW S \in SUBSET Int, IsFiniteSet(S), S # {}
  PROVE  /\ Min(S) \in S /\ Max(S) \in S
         /\ \A x \in S : Min(S) <= x /\ x <= Max(S)
<1>1. Cardinality(S) \in Nat \ {0}
  BY FS_CardinalityType, FS_EmptySet
<1>2. \E m \in S : \A x \in S : m <= x
  <2> DEFINE up == AscendingList(S)
  <2>1. /\ up \in [1..Cardinality(S) -> S]
        /\ \A x \in S : \E i \in 1..Cardinality(S) : up[i] = x
        /\ \A i, j \in 1..Cardinality(S) : i < j <=> up[i] < up[j]
    BY Ascending DEF Rises
  <2> HIDE DEF up
  <2>2. up[1] \in S /\ 1 \in 1..Cardinality(S)
    BY <1>1, <2>1
  <2>3. ASSUME NEW x \in S PROVE up[1] <= x
    <3>1. PICK i \in 1..Cardinality(S) : up[i] = x
      BY <2>1
    <3>2. i = 1 \/ 1 < i
      BY <1>1
    <3>3. 1 < i => up[1] < up[i]
      BY <2>1, <2>2
    <3>4. up[1] \in Int
      BY <2>2
    <3> QED
      BY <3>1, <3>2, <3>3, <3>4
  <2> QED
    BY <2>2, <2>3
<1>3. \E m \in S : \A x \in S : x <= m
  <2> DEFINE down == DescendingList(S)
  <2>1. /\ down \in [1..Cardinality(S) -> S]
        /\ \A x \in S : \E i \in 1..Cardinality(S) : down[i] = x
        /\ \A i, j \in 1..Cardinality(S) : i < j <=> down[i] > down[j]
    BY Descending DEF Falls
  <2> HIDE DEF down
  <2>2. down[1] \in S /\ 1 \in 1..Cardinality(S)
    BY <1>1, <2>1
  <2>3. ASSUME NEW x \in S PROVE x <= down[1]
    <3>1. PICK i \in 1..Cardinality(S) : down[i] = x
      BY <2>1
    <3>2. i = 1 \/ 1 < i
      BY <1>1
    <3>3. 1 < i => down[1] > down[i]
      BY <2>1, <2>2
    <3>4. down[1] \in Int
      BY <2>2
    <3> QED
      BY <3>1, <3>2, <3>3, <3>4
  <2> QED
    BY <2>2, <2>3
<1>4. Min(S) \in S /\ \A x \in S : Min(S) <= x
  BY <1>2 DEF Min
<1>5. Max(S) \in S /\ \A x \in S : x <= Max(S)
  BY <1>3 DEF Max
<1> QED
  BY <1>4, <1>5

(* What a part of a list holds.                                            *)
Part(list, a, b) == {list[i] : i \in a..b}

LEMMA RangeOfPart ==
  ASSUME NEW n \in Nat, NEW list, DOMAIN list = 1..n, NEW a \in 1..(n + 1), NEW b \in 0..n
  PROVE  Range(SubSeq(list, a, b)) = Part(list, a, b)
<1> DEFINE part == [i \in 1..(1 + b - a) |-> list[i + a - 1]]
<1>1. SubSeq(list, a, b) = part
  OBVIOUS
<1>2. Range(part) = {list[i] : i \in a..b}
  <2>1. \A i \in a..b : i - a + 1 \in 1..(1 + b - a) /\ part[i - a + 1] = list[i]
    OBVIOUS
  <2>2. \A j \in 1..(1 + b - a) : j + a - 1 \in a..b /\ part[j] = list[j + a - 1]
    OBVIOUS
  <2>3. DOMAIN part = 1..(1 + b - a)
    OBVIOUS
  <2> HIDE DEF part
  <2>4. ASSUME NEW x \in Range(part) PROVE x \in {list[i] : i \in a..b}
    <3>1. PICK j \in 1..(1 + b - a) : x = part[j]
      BY <2>3 DEF Range
    <3> QED
      BY <2>2, <3>1
  <2>5. ASSUME NEW x \in {list[i] : i \in a..b} PROVE x \in Range(part)
    <3>1. PICK i \in a..b : x = list[i]
      OBVIOUS
    <3> QED
      BY <2>1, <2>3, <3>1 DEF Range
  <2> QED
    BY <2>4, <2>5
<1> QED
  BY <1>1, <1>2 DEF Part

-----------------------------------------------------------------------------
(* The sum of w over the finite set S, as FoldSet computes it: an element  *)
(* is taken from the set, until it is empty.                               *)
Taken(s) == CHOOSE x \in s : TRUE

Added(f, S, w) ==
  [s \in SUBSET S |-> IF s = {} THEN 0 ELSE f[s \ {Taken(s)}] + w[Taken(s)]]

Sums(S, w) == CHOOSE f : f = Added(f, S, w)
Sum(S, w)  == Sums(S, w)[S]

LEMMA TakenOne ==
  ASSUME NEW S, IsFiniteSet(S), NEW s \in SUBSET S, s # {}
  PROVE  /\ IsFiniteSet(s) /\ Cardinality(s) \in Nat \ {0}
         /\ Taken(s) \in s /\ s \ {Taken(s)} \in SUBSET S
         /\ Cardinality(s \ {Taken(s)}) = Cardinality(s) - 1
<1>1. IsFiniteSet(s) /\ Cardinality(s) \in Nat
  BY FS_Subset, FS_CardinalityType
<1>2. Taken(s) \in s
  BY DEF Taken
<1>3. Cardinality(s) # 0
  BY <1>1, FS_EmptySet
<1>4. Cardinality(s \ {Taken(s)}) = Cardinality(s) - 1
  BY <1>1, <1>2, FS_RemoveElement
<1> QED
  BY <1>1, <1>2, <1>3, <1>4

(* The recursion has a solution: by induction on the size of the sets.     *)
LEMMA SumsExist ==
  ASSUME NEW S, IsFiniteSet(S), NEW w \in [S -> Nat]
  PROVE  /\ Sums(S, w) \in [SUBSET S -> Nat]
         /\ Sums(S, w) = Added(Sums(S, w), S, w)
<1> DEFINE Solves(h, n) ==
             \A s \in SUBSET S : Cardinality(s) <= n =>
               h[s] = IF s = {} THEN 0 ELSE h[s \ {Taken(s)}] + w[Taken(s)]
           T == {n \in Nat : \E h \in [SUBSET S -> Nat] : Solves(h, n)}
<1>1. \A s \in SUBSET S : IsFiniteSet(s) /\ Cardinality(s) \in Nat
  BY FS_Subset, FS_CardinalityType
<1>2. 0 \in T
  <2> DEFINE h == [s \in SUBSET S |-> 0]
  <2>1. ASSUME NEW s \in SUBSET S, Cardinality(s) <= 0
        PROVE  s = {}
    BY <1>1, <2>1, FS_EmptySet
  <2>2. h \in [SUBSET S -> Nat] /\ Solves(h, 0)
    BY <2>1
  <2> HIDE DEF h
  <2> QED
    BY <2>2
<1>3. ASSUME NEW n \in Nat, n \in T PROVE n + 1 \in T
  <2>1. PICK h \in [SUBSET S -> Nat] : Solves(h, n)
    BY <1>3
  <2> DEFINE g == [s \in SUBSET S |->
                     IF s = {} THEN 0
                     ELSE IF Cardinality(s) <= n + 1 THEN h[s \ {Taken(s)}] + w[Taken(s)]
                     ELSE 0]
  <2>2. g \in [SUBSET S -> Nat]
    <3> SUFFICES ASSUME NEW s \in SUBSET S, s # {}
                 PROVE  h[s \ {Taken(s)}] + w[Taken(s)] \in Nat
      OBVIOUS
    <3>1. Taken(s) \in S /\ s \ {Taken(s)} \in SUBSET S
      BY TakenOne
    <3>2. w[Taken(s)] \in Nat /\ h[s \ {Taken(s)}] \in Nat
      BY <3>1
    <3> QED
      BY <3>2
  <2>3. \A s \in SUBSET S : Cardinality(s) <= n => g[s] = h[s]
    <3> SUFFICES ASSUME NEW s \in SUBSET S, Cardinality(s) <= n PROVE g[s] = h[s]
      OBVIOUS
    <3>1. Cardinality(s) <= n + 1
      BY <1>1
    <3> QED
      BY <2>1, <3>1
  <2>4. Solves(g, n + 1)
    <3> SUFFICES ASSUME NEW s \in SUBSET S, Cardinality(s) <= n + 1, s # {}
                 PROVE  g[s] = g[s \ {Taken(s)}] + w[Taken(s)]
      OBVIOUS
    <3>1. Cardinality(s \ {Taken(s)}) <= n /\ s \ {Taken(s)} \in SUBSET S
      BY <1>1, TakenOne
    <3>2. g[s \ {Taken(s)}] = h[s \ {Taken(s)}]
      BY <2>3, <3>1
    <3>3. g[s] = h[s \ {Taken(s)}] + w[Taken(s)]
      OBVIOUS
    <3> QED
      BY <3>2, <3>3
  <2> HIDE DEF g
  <2>5. \E k \in [SUBSET S -> Nat] : Solves(k, n + 1)
    BY <2>2, <2>4
  <2> QED
    BY <2>5
<1>4. \A n \in Nat : n \in T
  <2> HIDE DEF T
  <2> QED
    BY <1>2, <1>3, Induction
<1>5. PICK h \in [SUBSET S -> Nat] : Solves(h, Cardinality(S))
  <2>1. Cardinality(S) \in T
    BY <1>4, FS_CardinalityType
  <2> QED
    BY <2>1
<1>6. \A s \in SUBSET S : Cardinality(s) <= Cardinality(S)
  BY FS_Subset
<1>7. h = Added(h, S, w)
  <2>1. \A s \in SUBSET S :
          h[s] = IF s = {} THEN 0 ELSE h[s \ {Taken(s)}] + w[Taken(s)]
    BY <1>5, <1>6
  <2> QED
    BY <1>5, <2>1 DEF Added
<1> DEFINE f == Sums(S, w)
<1>8. f = Added(f, S, w)
  BY <1>7 DEF Sums
<1> HIDE DEF f
<1>9. /\ DOMAIN f = SUBSET S
      /\ \A s \in SUBSET S :
           f[s] = IF s = {} THEN 0 ELSE f[s \ {Taken(s)}] + w[Taken(s)]
  BY <1>8 DEF Added
<1>10. \A s \in SUBSET S : f[s] \in Nat
  <2> DEFINE U == {n \in Nat : \A s \in SUBSET S : Cardinality(s) = n => f[s] \in Nat}
  <2>1. 0 \in U
    <3>1. ASSUME NEW s \in SUBSET S, Cardinality(s) = 0
          PROVE  s = {}
      BY <1>1, <3>1, FS_EmptySet
    <3>2. ASSUME NEW s \in SUBSET S, Cardinality(s) = 0 PROVE f[s] \in Nat
      <4>1. f[s] = 0
        BY <1>9, <3>1, <3>2
      <4> QED
        BY <4>1
    <3> QED
      BY <3>2
  <2>2. ASSUME NEW n \in Nat, n \in U PROVE n + 1 \in U
    <3> SUFFICES ASSUME NEW s \in SUBSET S, Cardinality(s) = n + 1 PROVE f[s] \in Nat
      OBVIOUS
    <3>1. s # {}
      <4>1. Cardinality(s) # 0
        OBVIOUS
      <4> QED
        BY <4>1, FS_EmptySet
    <3>2. /\ Taken(s) \in s /\ s \ {Taken(s)} \in SUBSET S
          /\ Cardinality(s \ {Taken(s)}) = n
      BY <3>1, TakenOne
    <3>3. f[s \ {Taken(s)}] \in Nat
      BY <2>2, <3>2
    <3> QED
      BY <1>9, <3>1, <3>2, <3>3
  <2> HIDE DEF U
  <2>3. \A n \in Nat : n \in U
    BY <2>1, <2>2, Induction
  <2> QED
    BY <1>1, <2>3 DEF U
<1>11. f \in [SUBSET S -> Nat]
  BY <1>8, <1>9, <1>10 DEF Added
<1> QED
  BY <1>8, <1>11 DEF f

(* Any solution of the recursion sums up the same.                         *)
LEMMA SumIsUnique ==
  ASSUME NEW S, IsFiniteSet(S), NEW w \in [S -> Nat], NEW f, f = Added(f, S, w)
  PROVE  f[S] = Sum(S, w)
<1> DEFINE g == Sums(S, w)
           U == {n \in Nat : \A s \in SUBSET S : Cardinality(s) = n => g[s] = f[s]}
<1>1. g = Added(g, S, w)
  BY SumsExist
<1> HIDE DEF g
<1>2. \A s \in SUBSET S :
        /\ f[s] = IF s = {} THEN 0 ELSE f[s \ {Taken(s)}] + w[Taken(s)]
        /\ g[s] = IF s = {} THEN 0 ELSE g[s \ {Taken(s)}] + w[Taken(s)]
  <2> SUFFICES ASSUME NEW s \in SUBSET S
               PROVE  /\ f[s] = IF s = {} THEN 0 ELSE f[s \ {Taken(s)}] + w[Taken(s)]
                      /\ g[s] = IF s = {} THEN 0 ELSE g[s \ {Taken(s)}] + w[Taken(s)]
    OBVIOUS
  <2>1. f[s] = Added(f, S, w)[s] /\ g[s] = Added(g, S, w)[s]
    BY <1>1
  <2>2. /\ Added(f, S, w)[s] = IF s = {} THEN 0 ELSE f[s \ {Taken(s)}] + w[Taken(s)]
        /\ Added(g, S, w)[s] = IF s = {} THEN 0 ELSE g[s \ {Taken(s)}] + w[Taken(s)]
    BY DEF Added
  <2> QED
    BY <2>1, <2>2
<1>3. 0 \in U
  <2>1. ASSUME NEW s \in SUBSET S, Cardinality(s) = 0
        PROVE  s = {}
    BY <2>1, FS_Subset, FS_EmptySet
  <2> QED
    BY <1>2, <2>1
<1>4. ASSUME NEW n \in Nat, n \in U PROVE n + 1 \in U
  <2> SUFFICES ASSUME NEW s \in SUBSET S, Cardinality(s) = n + 1 PROVE g[s] = f[s]
    OBVIOUS
  <2>1. s # {}
    <3>1. Cardinality(s) # 0
      OBVIOUS
    <3> QED
      BY <3>1, FS_EmptySet
  <2>2. s \ {Taken(s)} \in SUBSET S /\ Cardinality(s \ {Taken(s)}) = n
    BY <2>1, TakenOne
  <2>3. g[s \ {Taken(s)}] = f[s \ {Taken(s)}]
    BY <1>4, <2>2
  <2> QED
    BY <1>2, <2>1, <2>3
<1> HIDE DEF U
<1>5. \A n \in Nat : n \in U
  BY <1>3, <1>4, Induction
<1>6. Cardinality(S) \in Nat /\ S \in SUBSET S
  BY FS_CardinalityType
<1> QED
  BY <1>5, <1>6 DEF U, g, Sum

(* A sum of zeros is zero, and when one summand grows by one, so does the  *)
(* sum.                                                                    *)
LEMMA SumOfZeros ==
  ASSUME NEW S, IsFiniteSet(S), NEW w \in [S -> Nat], \A x \in S : w[x] = 0
  PROVE  Sum(S, w) = 0
<1> DEFINE f == Sums(S, w)
           U == {n \in Nat : \A s \in SUBSET S : Cardinality(s) = n => f[s] = 0}
<1>1. f = Added(f, S, w)
  BY SumsExist
<1> HIDE DEF f
<1>2. \A s \in SUBSET S :
        f[s] = IF s = {} THEN 0 ELSE f[s \ {Taken(s)}] + w[Taken(s)]
  BY <1>1 DEF Added
<1>3. 0 \in U
  <2>1. ASSUME NEW s \in SUBSET S, Cardinality(s) = 0
        PROVE  s = {}
    BY <2>1, FS_Subset, FS_EmptySet
  <2> QED
    BY <1>2, <2>1
<1>4. ASSUME NEW n \in Nat, n \in U PROVE n + 1 \in U
  <2> SUFFICES ASSUME NEW s \in SUBSET S, Cardinality(s) = n + 1 PROVE f[s] = 0
    OBVIOUS
  <2>1. s # {}
    <3>1. Cardinality(s) # 0
      OBVIOUS
    <3> QED
      BY <3>1, FS_EmptySet
  <2>2. /\ Taken(s) \in s /\ s \ {Taken(s)} \in SUBSET S
        /\ Cardinality(s \ {Taken(s)}) = n
    BY <2>1, TakenOne
  <2>3. f[s \ {Taken(s)}] = 0 /\ w[Taken(s)] = 0
    BY <1>4, <2>2
  <2> QED
    BY <1>2, <2>1, <2>3
<1> HIDE DEF U
<1>5. \A n \in Nat : n \in U
  BY <1>3, <1>4, Induction
<1>6. Cardinality(S) \in Nat /\ S \in SUBSET S
  BY FS_CardinalityType
<1> QED
  BY <1>5, <1>6 DEF U, f, Sum

LEMMA SumGrows ==
  ASSUME NEW S, IsFiniteSet(S), NEW w \in [S -> Nat], NEW d \in S
  PROVE  /\ Sum(S, w) \in Nat
         /\ Sum(S, [w EXCEPT ![d] = @ + 1]) = Sum(S, w) + 1
<1> DEFINE v == [w EXCEPT ![d] = @ + 1]
           f == Sums(S, w)
           g == Sums(S, v)
           U == {n \in Nat : \A s \in SUBSET S : Cardinality(s) = n =>
                               g[s] = f[s] + (IF d \in s THEN 1 ELSE 0)}
<1>1. /\ v \in [S -> Nat] /\ v[d] = w[d] + 1
      /\ \A x \in S : x # d => v[x] = w[x]
  OBVIOUS
<1> HIDE DEF v
<1>2. /\ f = Added(f, S, w) /\ g = Added(g, S, v)
      /\ f \in [SUBSET S -> Nat]
  BY <1>1, SumsExist
<1> HIDE DEF f, g
<1>3. \A s \in SUBSET S :
        /\ f[s] = IF s = {} THEN 0 ELSE f[s \ {Taken(s)}] + w[Taken(s)]
        /\ g[s] = IF s = {} THEN 0 ELSE g[s \ {Taken(s)}] + v[Taken(s)]
  <2> SUFFICES ASSUME NEW s \in SUBSET S
               PROVE  /\ f[s] = IF s = {} THEN 0 ELSE f[s \ {Taken(s)}] + w[Taken(s)]
                      /\ g[s] = IF s = {} THEN 0 ELSE g[s \ {Taken(s)}] + v[Taken(s)]
    OBVIOUS
  <2>1. f[s] = Added(f, S, w)[s] /\ g[s] = Added(g, S, v)[s]
    BY <1>2
  <2>2. /\ Added(f, S, w)[s] = IF s = {} THEN 0 ELSE f[s \ {Taken(s)}] + w[Taken(s)]
        /\ Added(g, S, v)[s] = IF s = {} THEN 0 ELSE g[s \ {Taken(s)}] + v[Taken(s)]
    BY DEF Added
  <2> QED
    BY <2>1, <2>2
<1>4. 0 \in U
  <2>1. ASSUME NEW s \in SUBSET S, Cardinality(s) = 0
        PROVE  s = {}
    BY <2>1, FS_Subset, FS_EmptySet
  <2> QED
    BY <1>3, <2>1
<1>5. ASSUME NEW n \in Nat, n \in U PROVE n + 1 \in U
  <2> SUFFICES ASSUME NEW s \in SUBSET S, Cardinality(s) = n + 1
               PROVE  g[s] = f[s] + (IF d \in s THEN 1 ELSE 0)
    OBVIOUS
  <2> DEFINE x == Taken(s)
             t == s \ {x}
  <2>1. s # {}
    <3>1. Cardinality(s) # 0
      OBVIOUS
    <3> QED
      BY <3>1, FS_EmptySet
  <2>2. x \in s /\ x \in S /\ t \in SUBSET S /\ Cardinality(t) = n
    BY <2>1, TakenOne
  <2>3. g[s] = g[t] + v[x] /\ f[s] = f[t] + w[x]
    BY <1>3, <2>1
  <2>4. d \in t <=> d \in s /\ d # x
    OBVIOUS
  <2> HIDE DEF x, t
  <2>5. g[t] = f[t] + (IF d \in t THEN 1 ELSE 0) /\ f[t] \in Nat
    BY <1>2, <1>5, <2>2
  <2>6. w[x] \in Nat /\ v[x] \in Nat /\ v[x] = w[x] + (IF d = x THEN 1 ELSE 0)
    BY <1>1, <2>2
  <2> QED
    BY <2>2, <2>3, <2>4, <2>5, <2>6
<1> HIDE DEF U
<1>6. \A n \in Nat : n \in U
  BY <1>4, <1>5, Induction
<1>7. Cardinality(S) \in Nat /\ S \in SUBSET S /\ d \in S
  BY FS_CardinalityType
<1>8. f[S] \in Nat /\ g[S] = f[S] + 1
  BY <1>2, <1>6, <1>7 DEF U
<1> QED
  BY <1>8 DEF f, g, v, Sum

-----------------------------------------------------------------------------
(* A list folded from the left, as FoldLeft computes it: over the sets of  *)
(* its places, the last place of a set taken last.  The step is given by a *)
(* table.                                                                  *)
Steps(h, n, base, step, list) ==
  [s \in SUBSET (1..n) |->
     IF s = {} THEN base ELSE step[<<h[s \ {Max(s)}], list[Max(s)]>>]]

Foldable(A, B, base, step, n, list) ==
  /\ base \in A /\ step \in [A \X B -> A]
  /\ n \in Nat /\ list \in [1..n -> B]

HasTable(A, base, step, n, list) ==
  \E h \in [SUBSET (1..n) -> A] : h = Steps(h, n, base, step, list)

(* h satisfies the recursion on the places 1..k, whose results are a run.  *)
Follows(h, A, base, step, n, list) ==
  /\ h[{}] = base
  /\ \A k \in 0..(n - 1) : h[1..k] \in A =>
       h[1..(k + 1)] = step[<<h[1..k], list[k + 1]>>]

HasRun(A, base, step, n, list, last) ==
  \E g \in [0..n -> A] :
    /\ g[0] = base /\ g[n] = last
    /\ \A k \in 0..(n - 1) : g[k + 1] = step[<<g[k], list[k + 1]>>]

LEMMA LastPlace ==
  ASSUME NEW n \in Nat, NEW s \in SUBSET (1..n), s # {}
  PROVE  /\ Max(s) \in s /\ Max(s) \in 1..n /\ s \ {Max(s)} \in SUBSET (1..n)
         /\ Cardinality(s) \in Nat \ {0}
         /\ Cardinality(s \ {Max(s)}) = Cardinality(s) - 1
<1> DEFINE P == 1..n
<1>1. IsFiniteSet(s)
  <2>1. IsFiniteSet(P)
    BY FS_Interval
  <2> HIDE DEF P
  <2>2. s \in SUBSET P
    BY DEF P
  <2> QED
    BY <2>1, <2>2, FS_Subset
<1>2. Max(s) \in s
  <2>1. s \in SUBSET Int
    OBVIOUS
  <2> QED
    BY <1>1, <2>1, Extremes
<1>3. Cardinality(s) \in Nat \ {0}
  BY <1>1, FS_CardinalityType, FS_EmptySet
<1>4. Cardinality(s \ {Max(s)}) = Cardinality(s) - 1
  BY <1>1, <1>2, FS_RemoveElement
<1> QED
  BY <1>2, <1>3, <1>4

LEMMA FoldsExist ==
  ASSUME NEW A, NEW B, NEW base, NEW step, NEW n, NEW list,
         Foldable(A, B, base, step, n, list)
  PROVE  HasTable(A, base, step, n, list)
<1> USE DEF Foldable
<1> DEFINE S == SUBSET (1..n)
           Solves(h, m) ==
             \A s \in S : Cardinality(s) <= m =>
               h[s] = IF s = {} THEN base
                      ELSE step[<<h[s \ {Max(s)}], list[Max(s)]>>]
           T == {m \in Nat : \E h \in [S -> A] : Solves(h, m)}
<1>1. \A s \in S : Cardinality(s) \in 0..n
  <2> TAKE s \in S
  <2> DEFINE P == 1..n
  <2>1. IsFiniteSet(P) /\ Cardinality(P) = n
    BY FS_Interval
  <2> HIDE DEF P
  <2>2. s \in SUBSET P
    BY DEF P
  <2>3. Cardinality(s) <= n /\ Cardinality(s) \in Nat
    BY <2>1, <2>2, FS_Subset, FS_CardinalityType
  <2> QED
    BY <2>3
<1>8. \A s \in S : s # {} =>
        /\ Cardinality(s) \in Nat \ {0} /\ s \ {Max(s)} \in S
        /\ Cardinality(s \ {Max(s)}) = Cardinality(s) - 1
        /\ Max(s) \in 1..n
  <2> SUFFICES ASSUME NEW s \in S, s # {}
               PROVE  /\ Cardinality(s) \in Nat \ {0} /\ s \ {Max(s)} \in S
                      /\ Cardinality(s \ {Max(s)}) = Cardinality(s) - 1
                      /\ Max(s) \in 1..n
    OBVIOUS
  <2> QED
    BY LastPlace, Zenon
<1>2. 0 \in T
  <2> DEFINE h == [s \in S |-> base]
  <2>1. ASSUME NEW s \in S, Cardinality(s) <= 0
        PROVE  s = {}
    <3>1. s # {} => Cardinality(s) \in Nat \ {0}
      BY <1>8, Zenon
    <3> QED
      BY <2>1, <3>1
  <2>2. h \in [S -> A] /\ Solves(h, 0)
    BY <2>1
  <2> HIDE DEF h
  <2> QED
    BY <2>2
<1>3. ASSUME NEW m \in Nat, m \in T PROVE m + 1 \in T
  <2>1. PICK h \in [S -> A] : Solves(h, m)
    BY <1>3
  <2> DEFINE g == [s \in S |->
                     IF s = {} THEN base
                     ELSE step[<<h[s \ {Max(s)}], list[Max(s)]>>]]
  <2>2. g \in [S -> A]
    <3> SUFFICES ASSUME NEW s \in S, s # {}
                 PROVE  step[<<h[s \ {Max(s)}], list[Max(s)]>>] \in A
      OBVIOUS
    <3>1. h[s \ {Max(s)}] \in A /\ list[Max(s)] \in B
      BY <1>8
    <3> QED
      BY <3>1
  <2>3. \A s \in S : Cardinality(s) <= m => g[s] = h[s]
    BY <2>1
  <2>4. Solves(g, m + 1)
    <3> SUFFICES ASSUME NEW s \in S, Cardinality(s) <= m + 1, s # {}
                 PROVE  g[s] = step[<<g[s \ {Max(s)}], list[Max(s)]>>]
      OBVIOUS
    <3>1. Cardinality(s \ {Max(s)}) <= m /\ s \ {Max(s)} \in S
      BY <1>8
    <3>2. g[s \ {Max(s)}] = h[s \ {Max(s)}]
      BY <2>3, <3>1
    <3>3. g[s] = step[<<h[s \ {Max(s)}], list[Max(s)]>>]
      OBVIOUS
    <3> QED
      BY <3>2, <3>3
  <2> HIDE DEF g, Solves
  <2>5. \E k \in [S -> A] : Solves(k, m + 1)
    BY <2>2, <2>4
  <2> QED
    BY <2>5
<1>4. \A m \in Nat : m \in T
  <2> HIDE DEF T
  <2> QED
    BY <1>2, <1>3, Induction
<1>5. PICK h \in [S -> A] : Solves(h, n)
  BY <1>4
<1>6. \A s \in S :
        h[s] = IF s = {} THEN base ELSE step[<<h[s \ {Max(s)}], list[Max(s)]>>]
  <2>1. \A s \in S : Cardinality(s) <= n
    BY <1>1
  <2> QED
    BY <1>5, <2>1
<1>7. h = Steps(h, n, base, step, list)
  BY <1>5, <1>6 DEF Steps
<1> QED
  BY <1>7 DEF HasTable

(* The last place of 1..k is k.                                            *)
LEMMA LastOfInterval ==
  ASSUME NEW k \in Nat
  PROVE  1..(k + 1) # {} /\ Max(1..(k + 1)) = k + 1 /\ (1..(k + 1)) \ {k + 1} = 1..k
<1> DEFINE P == 1..(k + 1)
<1>1. IsFiniteSet(P)
  BY FS_Interval
<1>2. P # {} /\ P \in SUBSET Int /\ k + 1 \in P
  OBVIOUS
<1>3. Max(P) \in P /\ k + 1 <= Max(P)
  <2> HIDE DEF P
  <2> QED
    BY <1>1, <1>2, Extremes
<1>4. Max(P) = k + 1
  <2>1. \A x \in P : x <= k + 1 /\ x \in Int
    OBVIOUS
  <2> HIDE DEF P
  <2> QED
    BY <1>3, <2>1
<1> QED
  BY <1>2, <1>4

(* Any solution of the recursion goes through the list step by step.       *)
LEMMA FoldIsARun ==
  ASSUME NEW A, NEW B, NEW base, NEW step, NEW n, NEW list,
         Foldable(A, B, base, step, n, list),
         NEW h, Follows(h, A, base, step, n, list)
  PROVE  HasRun(A, base, step, n, list, h[1..n])
<1> USE DEF Foldable, Follows
<1> DEFINE g == [k \in 0..n |-> h[1..k]]
           T == {k \in Nat : k <= n => h[1..k] \in A}
<1>1. h[1..0] = base
  <2>1. 1..0 = {}
    OBVIOUS
  <2> QED
    BY <2>1
<1>2. 0 \in T
  BY <1>1
<1>3. ASSUME NEW k \in Nat, k \in T PROVE k + 1 \in T
  <2> SUFFICES ASSUME k + 1 <= n PROVE h[1..(k + 1)] \in A
    OBVIOUS
  <2>1. k \in 0..(n - 1) /\ h[1..k] \in A
    BY <1>3
  <2>2. list[k + 1] \in B
    BY <2>1
  <2>3. h[1..(k + 1)] = step[<<h[1..k], list[k + 1]>>]
    BY <2>1
  <2> QED
    BY <2>1, <2>2, <2>3
<1>4. \A k \in Nat : k \in T
  <2> HIDE DEF T
  <2> QED
    BY <1>2, <1>3, Induction
<1>5. \A k \in 0..n : h[1..k] \in A
  BY <1>4
<1>6. g \in [0..n -> A] /\ \A k \in 0..n : g[k] = h[1..k]
  BY <1>5
<1> HIDE DEF g
<1>7. \A k \in 0..(n - 1) : g[k + 1] = step[<<g[k], list[k + 1]>>]
  <2> TAKE k \in 0..(n - 1)
  <2>1. k \in 0..n /\ k + 1 \in 0..n
    OBVIOUS
  <2> QED
    BY <1>5, <1>6, <2>1
<1>8. g[0] = base /\ g[n] = h[1..n]
  BY <1>1, <1>6
<1> QED
  BY <1>6, <1>7, <1>8 DEF HasRun
=============================================================================
