----------------------------- MODULE TagsProofs -----------------------------
(***************************************************************************)
(* Theorems of Tags, for strings of any length.                            *)
(*                                                                         *)
(* Strings are compared by their words: the tokens of a string are the     *)
(* stretches between its commas without the spaces around them.  Trimming  *)
(* keeps them, splitting separates them and joining collects them, so that *)
(* what a column carries is settled by which tokens it has (Kept).         *)
(***************************************************************************)
EXTENDS Tags, DataLemmas, SequenceTheorems

-----------------------------------------------------------------------------
(* Strings.                                                                *)
Char == DOMAIN Upper

LEMMA Strings ==
  ASSUME NEW s \in String
  PROVE  /\ Len(s) \in Nat /\ DOMAIN s = 1..Len(s)
         /\ \A i \in 1..Len(s) : s[i] \in Char
         /\ s \in [1..Len(s) -> Char]
BY LenProperties DEF String, Char

LEMMA Substring ==
  ASSUME NEW s \in String, NEW a \in 1..(Len(s) + 1), NEW b \in 0..Len(s)
  PROVE  /\ SubSeq(s, a, b) \in String
         /\ Len(SubSeq(s, a, b)) = IF a <= b THEN b - a + 1 ELSE 0
         /\ \A i \in 1..(b - a + 1) : SubSeq(s, a, b)[i] = s[a + i - 1]
<1>1. \A i \in a..b : s[i] \in Char
  BY Strings
<1>2. a \in Int /\ b \in Int
  BY Strings
<1> QED
  BY <1>1, <1>2, SubSeqProperties DEF String, Char

LEMMA SameString ==
  ASSUME NEW s \in String, NEW t \in String, Len(s) = Len(t),
         \A i \in 1..Len(s) : s[i] = t[i]
  PROVE  s = t
BY SeqEqual DEF String

LEMMA Chained ==
  ASSUME NEW s \in String, NEW t \in String
  PROVE  /\ s \o t \in String /\ Len(s \o t) = Len(s) + Len(t)
         /\ \A i \in 1..Len(s) : (s \o t)[i] = s[i]
         /\ \A i \in 1..Len(t) : (s \o t)[Len(s) + i] = t[i]
<1>1. s \o t \in String /\ Len(s \o t) = Len(s) + Len(t)
  BY ConcatProperties, Zenon DEF String
<1>2. \A i \in 1..Len(s) + Len(t) : (s \o t)[i] = IF i <= Len(s) THEN s[i] ELSE t[i - Len(s)]
  BY ConcatProperties, Zenon DEF String
<1>3. Len(s) \in Nat /\ Len(t) \in Nat
  BY Strings
<1> DEFINE st == s \o t
<1> HIDE DEF st
<1>4. \A i \in 1..Len(s) + Len(t) : st[i] = IF i <= Len(s) THEN s[i] ELSE t[i - Len(s)]
  BY <1>2 DEF st
<1>5. \A i \in 1..Len(s) : st[i] = s[i]
  BY <1>3, <1>4
<1>6. \A i \in 1..Len(t) : st[Len(s) + i] = t[i]
  <2> TAKE i \in 1..Len(t)
  <2>1. /\ Len(s) + i \in 1..Len(s) + Len(t) /\ ~(Len(s) + i <= Len(s))
        /\ Len(s) + i - Len(s) = i
    BY <1>3
  <2> QED
    BY <1>4, <2>1
<1> QED
  BY <1>1, <1>5, <1>6 DEF st

LEMMA Chain ==
  ASSUME NEW s \in String, NEW t \in String
  PROVE  LET st == s \o <<Comma>> \o t IN
         /\ st \in String /\ Len(st) = Len(s) + 1 + Len(t)
         /\ \A i \in 1..Len(s) : st[i] = s[i]
         /\ st[Len(s) + 1] = Comma
         /\ \A i \in 1..Len(t) : st[Len(s) + 1 + i] = t[i]
<1> DEFINE c == <<Comma>>
           sc == s \o c
           st == sc \o t
<1>1. c \in String /\ Len(c) = 1 /\ c[1] = Comma
  BY TagsAssumption DEF String
<1> HIDE DEF c
<1>2. /\ sc \in String /\ Len(sc) = Len(s) + 1
      /\ \A i \in 1..Len(s) : sc[i] = s[i]
      /\ sc[Len(s) + 1] = Comma
  <2>1. /\ sc \in String /\ Len(sc) = Len(s) + Len(c)
        /\ \A i \in 1..Len(s) : sc[i] = s[i]
        /\ \A i \in 1..Len(c) : sc[Len(s) + i] = c[i]
    BY <1>1, Chained
  <2> HIDE DEF sc
  <2>2. 1 \in 1..Len(c)
    BY <1>1
  <2> QED
    BY <1>1, <2>1, <2>2
<1> HIDE DEF sc
<1>3. /\ st \in String /\ Len(st) = Len(sc) + Len(t)
      /\ \A i \in 1..Len(sc) : st[i] = sc[i]
      /\ \A i \in 1..Len(t) : st[Len(sc) + i] = t[i]
  BY <1>2, Chained
<1> HIDE DEF st
<1>4. Len(s) \in Nat /\ Len(t) \in Nat
  BY Strings
<1> QED
  BY <1>2, <1>3, <1>4 DEF sc, st, c

(* TrimSpace: nothing is left of spaces, otherwise all but the spaces at   *)
(* both ends.                                                              *)
Outside(s, p, q) ==
  /\ p \in 1..Len(s) /\ q \in 1..Len(s) /\ p <= q
  /\ s[p] # Space /\ s[q] # Space
  /\ \A k \in 1..Len(s) : s[k] # Space => p <= k /\ k <= q

LEMMA Trimmed ==
  ASSUME NEW s \in String
  PROVE  /\ TrimSpace(s) \in String
         /\ TrimSpace(s) = <<>> <=> \A k \in 1..Len(s) : s[k] = Space
         /\ TrimSpace(s) # <<>> =>
              \E p, q \in 1..Len(s) : Outside(s, p, q) /\ TrimSpace(s) = SubSeq(s, p, q)
<1> DEFINE kept == {i \in DOMAIN s : s[i] # Space}
<1>1. Len(s) \in Nat /\ DOMAIN s = 1..Len(s)
  BY Strings
<1>2. CASE kept = {}
  <2>1. TrimSpace(s) = <<>> /\ <<>> \in String
    BY <1>2 DEF TrimSpace, String
  <2> QED
    BY <1>1, <1>2, <2>1
<1>3. CASE kept # {}
  <2> DEFINE p == Min(kept)
             q == Max(kept)
  <2>1. IsFiniteSet(kept) /\ kept \in SUBSET Int
    <3>1. kept \in SUBSET (1..Len(s)) /\ IsFiniteSet(1..Len(s))
      BY <1>1, FS_Interval
    <3> HIDE DEF kept
    <3>2. IsFiniteSet(kept)
      BY <3>1, FS_Subset, Zenon
    <3> QED
      BY <3>1, <3>2, <1>1
  <2>2. p \in kept /\ q \in kept /\ \A k \in kept : p <= k /\ k <= q
    <3> HIDE DEF kept
    <3> QED
      BY <1>3, <2>1, Extremes
  <2>3. TrimSpace(s) = SubSeq(s, p, q)
    BY <1>3 DEF TrimSpace
  <2> HIDE DEF p, q
  <2>4. /\ p \in 1..Len(s) /\ q \in 1..Len(s) /\ p <= q
        /\ s[p] # Space /\ s[q] # Space
        /\ \A k \in 1..Len(s) : s[k] # Space => p <= k /\ k <= q
    BY <1>1, <2>2
  <2>5. TrimSpace(s) \in String /\ Len(TrimSpace(s)) = q - p + 1
    BY <1>1, <2>3, <2>4, Substring
  <2>6. TrimSpace(s) # <<>>
    BY <2>4, <2>5, <1>1
  <2> QED
    BY <2>3, <2>4, <2>5, <2>6 DEF Outside
<1> QED
  BY <1>2, <1>3

(* cleanTag leaves a tag without spaces around it as it is.                *)
LEMMA Tidied ==
  ASSUME NEW t \in String, ~Panics(t)
  PROVE  /\ cleanTag(t) \in String
         /\ TrimSpace(t) = t => cleanTag(t) = t
<1> DEFINE k == Min(Stops(t))
<1>1. Len(t) \in Nat /\ DOMAIN t = 1..Len(t)
  BY Strings
<1>2. /\ Stops(t) \in SUBSET (0..(Len(t) \div 2)) /\ Stops(t) # {}
      /\ Len(t) \div 2 \in Nat /\ 2 * (Len(t) \div 2) <= Len(t)
  BY <1>1 DEF Panics, Stops
<1>3. IsFiniteSet(Stops(t)) /\ Stops(t) \in SUBSET Int
  <2>1. IsFiniteSet(0..(Len(t) \div 2))
    BY <1>2, FS_Interval
  <2>2. IsFiniteSet(Stops(t))
    BY <1>2, <2>1, FS_Subset, Zenon
  <2> QED
    BY <1>2, <2>2
<1>4. k \in Stops(t) /\ \A j \in Stops(t) : k <= j
  BY <1>2, <1>3, Extremes
<1>5. cleanTag(t) = SubSeq(t, k + 1, Len(t) - k)
  BY DEF cleanTag
<1> HIDE DEF k
<1>6. k \in Nat /\ 2 * k <= Len(t)
  BY <1>1, <1>2, <1>4
<1>7. cleanTag(t) \in String
  <2>1. k + 1 \in 1..(Len(t) + 1) /\ Len(t) - k \in 0..Len(t)
    BY <1>1, <1>6
  <2> QED
    BY <1>5, <2>1, Substring
<1>8. ASSUME TrimSpace(t) = t PROVE cleanTag(t) = t
  <2>1. k = 0
    <3>1. CASE t = <<>>
      BY <3>1, <1>6
    <3>2. CASE t # <<>>
      <4>1. PICK p, q \in 1..Len(t) : Outside(t, p, q) /\ t = SubSeq(t, p, q)
        BY <1>8, <3>2, Trimmed
      <4>2. Len(t) = q - p + 1
        BY <1>1, <4>1, Substring DEF Outside
      <4>3. p = 1 /\ q = Len(t)
        BY <1>1, <4>1, <4>2
      <4>4. t[1] # Space /\ t[Len(t)] # Space /\ 0 < Len(t)
        BY <1>1, <4>1, <4>3 DEF Outside
      <4>5. 0 \in Stops(t)
        BY <1>1, <1>2, <4>4 DEF Stops
      <4> QED
        BY <1>4, <1>6, <4>5
    <3> QED
      BY <3>1, <3>2
  <2>2. SubSeq(t, 1, Len(t)) = t
    BY SubSeqFull DEF String
  <2> QED
    BY <1>1, <1>5, <2>1, <2>2
<1> QED
  BY <1>7, <1>8

LEMMA PartOfPart ==
  ASSUME NEW s \in String, NEW a \in 1..(Len(s) + 1), NEW b \in 0..Len(s),
         NEW p \in 1..(b - a + 1), NEW q \in p..(b - a + 1)
  PROVE  SubSeq(SubSeq(s, a, b), p, q) = SubSeq(s, a + p - 1, a + q - 1)
<1> DEFINE t == SubSeq(s, a, b)
           u == SubSeq(t, p, q)
           v == SubSeq(s, a + p - 1, a + q - 1)
<1>1. Len(s) \in Nat
  BY Strings
<1>2. /\ t \in String /\ Len(t) = b - a + 1
      /\ \A i \in 1..(b - a + 1) : t[i] = s[a + i - 1]
  BY <1>1, Substring
<1> HIDE DEF t
<1>3. /\ u \in String /\ Len(u) = q - p + 1
      /\ \A i \in 1..(q - p + 1) : u[i] = t[p + i - 1]
  <2>1. p \in 1..(Len(t) + 1) /\ q \in 0..Len(t)
    BY <1>1, <1>2
  <2>2. /\ u \in String /\ Len(u) = IF p <= q THEN q - p + 1 ELSE 0
        /\ \A i \in 1..(q - p + 1) : u[i] = t[p + i - 1]
    BY <1>2, <2>1, Substring, Zenon
  <2>3. p <= q
    BY <1>1
  <2> HIDE DEF u
  <2> QED
    BY <2>2, <2>3
<1>4. /\ v \in String /\ Len(v) = q - p + 1
      /\ \A i \in 1..(q - p + 1) : v[i] = s[a + p - 1 + i - 1]
  <2> DEFINE x == a + p - 1
             y == a + q - 1
  <2>1. x \in 1..(Len(s) + 1) /\ y \in 0..Len(s) /\ y - x + 1 = q - p + 1 /\ x <= y
    BY <1>1
  <2> HIDE DEF x, y
  <2>2. /\ SubSeq(s, x, y) \in String /\ Len(SubSeq(s, x, y)) = y - x + 1
        /\ \A i \in 1..(y - x + 1) : SubSeq(s, x, y)[i] = s[x + i - 1]
    BY <2>1, Substring
  <2> QED
    BY <2>1, <2>2 DEF x, y
<1>5. \A i \in 1..(q - p + 1) : u[i] = v[i]
  <2> TAKE i \in 1..(q - p + 1)
  <2>1. p + i - 1 \in 1..(b - a + 1) /\ a + (p + i - 1) - 1 = a + p - 1 + i - 1
    BY <1>1
  <2> HIDE DEF u, v
  <2> QED
    BY <1>2, <1>3, <1>4, <2>1
<1> HIDE DEF u, v
<1> QED
  BY <1>3, <1>4, <1>5, SameString DEF u, v, t

-----------------------------------------------------------------------------
(* Split: the pieces between two commas that follow each other, the ends   *)
(* of the string standing for commas.                                      *)
Cuts(s) == {i \in DOMAIN s : s[i] = Comma} \cup {0, Len(s) + 1}

Adjacent(s, a, b) ==
  /\ a \in Cuts(s) /\ b \in Cuts(s) /\ a < b
  /\ \A c \in Cuts(s) : ~(a < c /\ c < b)

Whole(w) == \A i \in 1..Len(w) : w[i] # Comma

LEMMA CutsAreFew ==
  ASSUME NEW s \in String
  PROVE  /\ IsFiniteSet(Cuts(s)) /\ Cuts(s) \in SUBSET (0..(Len(s) + 1))
         /\ 0 \in Cuts(s) /\ Len(s) + 1 \in Cuts(s)
         /\ \A i \in 1..Len(s) : i \in Cuts(s) <=> s[i] = Comma
<1>1. Len(s) \in Nat /\ DOMAIN s = 1..Len(s)
  BY Strings
<1>2. Cuts(s) \in SUBSET (0..(Len(s) + 1)) /\ IsFiniteSet(0..(Len(s) + 1))
  <2>1. Cuts(s) \in SUBSET (0..(Len(s) + 1))
    BY <1>1 DEF Cuts
  <2>2. 0 \in Int /\ Len(s) + 1 \in Int
    BY <1>1
  <2> QED
    BY <2>1, <2>2, FS_Interval
<1>3. IsFiniteSet(Cuts(s))
  BY <1>2, FS_Subset, Zenon
<1> QED
  BY <1>1, <1>2, <1>3 DEF Cuts

(* The cuts next to the stretch i..j of a string that has none.            *)
LEMMA CutsAround ==
  ASSUME NEW s \in String, NEW i \in 1..Len(s), NEW j \in i..Len(s),
         \A k \in i..j : s[k] # Comma
  PROVE  \E a, b \in Int : Adjacent(s, a, b) /\ 0 <= a /\ a < i /\ j < b /\ b <= Len(s) + 1
<1>1. Len(s) \in Nat
  BY Strings
<1> DEFINE L == {c \in Cuts(s) : c < i}
           R == {c \in Cuts(s) : j < c}
<1>2. /\ IsFiniteSet(Cuts(s)) /\ Cuts(s) \in SUBSET (0..(Len(s) + 1))
      /\ 0 \in Cuts(s) /\ Len(s) + 1 \in Cuts(s)
      /\ \A k \in 1..Len(s) : k \in Cuts(s) <=> s[k] = Comma
  BY CutsAreFew
<1>3. L \in SUBSET Int /\ R \in SUBSET Int /\ L # {} /\ R # {}
  BY <1>1, <1>2
<1>4. IsFiniteSet(L) /\ IsFiniteSet(R)
  BY <1>2, FS_Subset
<1>5. /\ Max(L) \in L /\ \A x \in L : x <= Max(L)
      /\ Min(R) \in R /\ \A x \in R : Min(R) <= x
  <2> HIDE DEF L, R
  <2> QED
    BY <1>3, <1>4, Extremes
<1> DEFINE a == Max(L)
           b == Min(R)
<1>6. a \in Cuts(s) /\ b \in Cuts(s) /\ a < i /\ j < b
  BY <1>5
<1>7. ASSUME NEW c \in Cuts(s), a < c, c < b PROVE FALSE
  <2>1. c \in Int /\ a \in Int /\ b \in Int
    BY <1>1, <1>2, <1>6
  <2>2. ~(c < i) /\ ~(j < c)
    <3>1. c \notin L /\ c \notin R
      <4> HIDE DEF L, R
      <4> QED
        BY <1>5, <1>7, <2>1, <1>3
    <3> QED
      BY <3>1
  <2>3. c \in i..j /\ c \in 1..Len(s)
    BY <1>1, <2>1, <2>2
  <2> QED
    BY <1>2, <2>3
<1> HIDE DEF a, b
<1>8. Adjacent(s, a, b) /\ a \in Int /\ b \in Int /\ 0 <= a /\ b <= Len(s) + 1
  BY <1>1, <1>2, <1>6, <1>7 DEF Adjacent
<1> QED
  BY <1>6, <1>8

LEMMA Pieces ==
  ASSUME NEW s \in String
  PROVE  /\ Split(s) \in Seq(String)
         /\ Len(Split(s)) = Cardinality(Cuts(s)) - 1
         /\ \A w \in Range(Split(s)) : \E a, b \in Int :
              Adjacent(s, a, b) /\ w = SubSeq(s, a + 1, b - 1)
         /\ \A a, b \in Int : Adjacent(s, a, b) => SubSeq(s, a + 1, b - 1) \in Range(Split(s))
<1> DEFINE C == Cuts(s)
           cuts == AscendingList(C)
           n == Cardinality(C)
<1>1. Len(s) \in Nat
  BY Strings
<1>2. /\ IsFiniteSet(C) /\ C \in SUBSET (0..(Len(s) + 1))
      /\ 0 \in C /\ Len(s) + 1 \in C
  BY CutsAreFew
<1>3. C \in SUBSET Int
  BY <1>1, <1>2
<1>4. Rises(cuts, C)
  BY <1>2, <1>3, Ascending
<1>5. n \in Nat \ {0}
  BY <1>2, FS_CardinalityType, FS_EmptySet
<1>6. Split(s) = [k \in 1..(n - 1) |-> SubSeq(s, cuts[k] + 1, cuts[k + 1] - 1)]
  <2>1. Listed(C, <) = cuts
    BY DEF Listed, AscendingList
  <2>2. Len(cuts) = n
    BY <1>4, <1>5 DEF Rises
  <2> HIDE DEF cuts
  <2> QED
    BY <2>1, <2>2 DEF Split, Cuts
<1>7. /\ cuts \in [1..n -> C]
      /\ \A x \in C : \E i \in 1..n : cuts[i] = x
      /\ \A i, j \in 1..n : i < j <=> cuts[i] < cuts[j]
  BY <1>4 DEF Rises
<1> HIDE DEF cuts, n, C
<1>8. ASSUME NEW k \in 1..(n - 1)
      PROVE  /\ cuts[k] \in Int /\ cuts[k + 1] \in Int
             /\ cuts[k] \in 0..(Len(s) + 1) /\ cuts[k + 1] \in 0..(Len(s) + 1)
             /\ Adjacent(s, cuts[k], cuts[k + 1])
  <2>1. k \in 1..n /\ k + 1 \in 1..n /\ k < k + 1
    BY <1>5
  <2>2. cuts[k] \in C /\ cuts[k + 1] \in C /\ cuts[k] < cuts[k + 1]
    BY <1>7, <2>1
  <2>3. ASSUME NEW c \in C, cuts[k] < c, c < cuts[k + 1] PROVE FALSE
    <3>1. PICK i \in 1..n : cuts[i] = c
      BY <1>7
    <3>2. k < i /\ i < k + 1
      BY <1>7, <2>1, <2>3, <3>1
    <3> QED
      BY <3>2, <1>5
  <2> QED
    BY <1>1, <1>2, <1>3, <2>2, <2>3 DEF Adjacent, C
<1>9. ASSUME NEW a \in Int, NEW b \in Int, Adjacent(s, a, b)
      PROVE  \E k \in 1..(n - 1) : cuts[k] = a /\ cuts[k + 1] = b
  <2>1. PICK i \in 1..n, j \in 1..n : cuts[i] = a /\ cuts[j] = b
    BY <1>7, <1>9 DEF Adjacent, C
  <2>2. i < j
    BY <1>7, <1>9, <2>1 DEF Adjacent
  <2>3. j = i + 1
    <3>1. SUFFICES ASSUME i + 1 < j PROVE FALSE
      BY <1>5, <2>2
    <3>2. i + 1 \in 1..n /\ i < i + 1
      BY <1>5, <3>1
    <3>3. cuts[i] < cuts[i + 1] /\ cuts[i + 1] < cuts[j] /\ cuts[i + 1] \in C
      BY <1>7, <3>1, <3>2
    <3> QED
      BY <1>9, <2>1, <3>3 DEF Adjacent, C
  <2> QED
    BY <1>5, <2>1, <2>3
<1>10. \A k \in 1..(n - 1) : SubSeq(s, cuts[k] + 1, cuts[k + 1] - 1) \in String
  <2> TAKE k \in 1..(n - 1)
  <2>1. /\ cuts[k] \in 0..(Len(s) + 1) /\ cuts[k + 1] \in 0..(Len(s) + 1)
        /\ cuts[k] < cuts[k + 1]
    BY <1>8 DEF Adjacent
  <2> DEFINE x == cuts[k] + 1
             y == cuts[k + 1] - 1
  <2>2. x \in 1..(Len(s) + 1) /\ y \in 0..Len(s)
    BY <1>1, <2>1
  <2> HIDE DEF x, y
  <2>3. SubSeq(s, x, y) \in String
    BY <2>2, Substring
  <2> QED
    BY <2>3 DEF x, y
<1>11. /\ Split(s) \in Seq(String) /\ Len(Split(s)) = n - 1
       /\ DOMAIN Split(s) = 1..(n - 1)
  BY <1>5, <1>6, <1>10
<1>12. ASSUME NEW w \in Range(Split(s))
       PROVE  \E a, b \in Int : Adjacent(s, a, b) /\ w = SubSeq(s, a + 1, b - 1)
  <2>1. PICK k \in 1..(n - 1) : w = Split(s)[k]
    BY <1>11 DEF Range
  <2> QED
    BY <1>6, <1>8, <2>1
<1>13. ASSUME NEW a \in Int, NEW b \in Int, Adjacent(s, a, b)
       PROVE  SubSeq(s, a + 1, b - 1) \in Range(Split(s))
  <2>1. PICK k \in 1..(n - 1) : cuts[k] = a /\ cuts[k + 1] = b
    BY <1>9, <1>13
  <2>2. Split(s)[k] = SubSeq(s, a + 1, b - 1)
    BY <1>6, <2>1
  <2> QED
    BY <1>11, <2>2 DEF Range
<1> QED
  BY <1>11, <1>12, <1>13 DEF n, C

-----------------------------------------------------------------------------
(* The words of a string: its trimmed pieces that are not blank.  A token  *)
(* is the place of one: only spaces are between it and the commas around.  *)
Token(s, i, j) ==
  /\ s[i] # Space /\ s[j] # Space
  /\ \A k \in i..j : s[k] # Comma
  /\ \A k \in 1..(i - 1) : s[k] # Space => \E c \in k..(i - 1) : s[c] = Comma
  /\ \A k \in (j + 1)..Len(s) : s[k] # Space => \E c \in (j + 1)..k : s[c] = Comma

Tokens(s) ==
  {w \in String : \E i \in 1..Len(s) : \E j \in i..Len(s) :
                    Token(s, i, j) /\ w = SubSeq(s, i, j)}

TrimmedPieces(s) == {TrimSpace(w) : w \in Range(Split(s))} \ {<<>>}

LEMMA CommaIsNoSpace == Comma # Space
BY Zenon DEF Comma, Space

(* A string of the piece between two cuts.                                 *)
LEMMA PieceAt ==
  ASSUME NEW s \in String, NEW a \in Int, NEW b \in Int, Adjacent(s, a, b)
  PROVE  /\ 0 <= a /\ b <= Len(s) + 1 /\ a < b
         /\ SubSeq(s, a + 1, b - 1) \in String
         /\ Len(SubSeq(s, a + 1, b - 1)) = b - a - 1
         /\ \A i \in 1..(b - a - 1) : SubSeq(s, a + 1, b - 1)[i] = s[a + i]
         /\ \A i \in 1..Len(s) : a < i /\ i < b => s[i] # Comma
         /\ a = 0 \/ s[a] = Comma
         /\ b = Len(s) + 1 \/ s[b] = Comma
<1>1. Len(s) \in Nat
  BY Strings
<1>2. /\ Cuts(s) \in SUBSET (0..(Len(s) + 1))
      /\ \A i \in 1..Len(s) : i \in Cuts(s) <=> s[i] = Comma
  BY CutsAreFew
<1>3. 0 <= a /\ b <= Len(s) + 1 /\ a < b /\ a <= Len(s) + 1 /\ 0 <= b
  BY <1>1, <1>2 DEF Adjacent
<1> DEFINE x == a + 1
           y == b - 1
<1>4. x \in 1..(Len(s) + 1) /\ y \in 0..Len(s) /\ y - x + 1 = b - a - 1
  BY <1>1, <1>3
<1>5. \A i \in 1..(b - a - 1) : x + i - 1 = a + i
  OBVIOUS
<1>6. x <= y \/ b - a - 1 = 0
  BY <1>3
<1> HIDE DEF x, y
<1>7. /\ SubSeq(s, x, y) \in String
      /\ Len(SubSeq(s, x, y)) = IF x <= y THEN y - x + 1 ELSE 0
      /\ \A i \in 1..(y - x + 1) : SubSeq(s, x, y)[i] = s[x + i - 1]
  BY <1>4, Substring
<1>8. /\ Len(SubSeq(s, x, y)) = b - a - 1
      /\ \A i \in 1..(b - a - 1) : SubSeq(s, x, y)[i] = s[a + i]
  <2>1. Len(SubSeq(s, x, y)) = b - a - 1
    BY <1>4, <1>6, <1>7, <1>1, <1>3
  <2> QED
    BY <1>4, <1>5, <1>7, <2>1
<1>9. \A i \in 1..Len(s) : a < i /\ i < b => s[i] # Comma
  BY <1>2 DEF Adjacent
<1>10. (a = 0 \/ s[a] = Comma) /\ (b = Len(s) + 1 \/ s[b] = Comma)
  BY <1>1, <1>2, <1>3 DEF Adjacent
<1> QED
  BY <1>3, <1>7, <1>8, <1>9, <1>10 DEF x, y

(* w is the piece between the cuts a and b, p and q its ends without the   *)
(* spaces around it.                                                       *)
LEMMA PlaceOfPiece ==
  ASSUME NEW s \in String, NEW a \in Int, NEW b \in Int, Adjacent(s, a, b),
         NEW w, Len(w) = b - a - 1, \A i \in 1..(b - a - 1) : w[i] = s[a + i],
         NEW p \in Int, NEW q \in Int, Outside(w, p, q)
  PROVE  /\ a + p \in 1..Len(s) /\ a + q \in (a + p)..Len(s)
         /\ Token(s, a + p, a + q)
<1>1. Len(s) \in Nat
  BY Strings
<1>2. /\ 0 <= a /\ b <= Len(s) + 1 /\ a < b
      /\ \A i \in 1..Len(s) : a < i /\ i < b => s[i] # Comma
      /\ a = 0 \/ s[a] = Comma
      /\ b = Len(s) + 1 \/ s[b] = Comma
  BY PieceAt
<1>4. /\ p \in 1..(b - a - 1) /\ q \in p..(b - a - 1)
      /\ w[p] # Space /\ w[q] # Space
      /\ \A k \in 1..(b - a - 1) : w[k] # Space => p <= k /\ k <= q
  BY DEF Outside
<1> DEFINE i == a + p
           j == a + q
<1>5. i \in 1..Len(s) /\ j \in i..Len(s) /\ a < i /\ j < b
  BY <1>1, <1>2, <1>4
<1>7. s[i] # Space /\ s[j] # Space
  <2>1. q \in 1..(b - a - 1)
    BY <1>4
  <2>2. w[p] = s[a + p] /\ w[q] = s[a + q]
    BY <1>4, <2>1
  <2> QED
    BY <1>4, <2>2
<1>8. \A k \in i..j : s[k] # Comma
  <2> SUFFICES ASSUME NEW k \in i..j PROVE s[k] # Comma
    OBVIOUS
  <2>1. k \in 1..Len(s) /\ a < k /\ k < b
    BY <1>1, <1>2, <1>4, <1>5
  <2> QED
    BY <1>2, <2>1
<1>9. ASSUME NEW k \in 1..(i - 1), s[k] # Space
      PROVE  \E c \in k..(i - 1) : s[c] = Comma
  <2>1. CASE k <= a
    <3>1. s[a] = Comma /\ a \in k..(i - 1)
      BY <1>2, <1>4, <2>1
    <3> QED
      BY <3>1
  <2>2. CASE a < k
    <3>1. k - a \in 1..(b - a - 1) /\ a + (k - a) = k /\ k - a < p
      BY <1>2, <1>4, <2>2
    <3>2. w[k - a] = s[k]
      BY <1>2, <3>1
    <3>3. p <= k - a
      BY <1>4, <1>9, <3>1, <3>2
    <3> QED
      BY <3>1, <3>3
  <2> QED
    BY <2>1, <2>2, <1>4
<1>10. ASSUME NEW k \in (j + 1)..Len(s), s[k] # Space
       PROVE  \E c \in (j + 1)..k : s[c] = Comma
  <2>1. CASE b <= k
    <3>1. s[b] = Comma /\ b \in (j + 1)..k
      BY <1>1, <1>2, <1>4, <2>1
    <3> QED
      BY <3>1
  <2>2. CASE k < b
    <3>1. k - a \in 1..(b - a - 1) /\ a + (k - a) = k /\ q < k - a
      BY <1>2, <1>4, <2>2
    <3>2. w[k - a] = s[k]
      BY <1>2, <3>1
    <3>3. k - a <= q
      BY <1>4, <1>10, <3>1, <3>2
    <3> QED
      BY <3>1, <3>3
  <2> QED
    BY <2>1, <2>2, <1>4, <1>1
<1>11. Token(s, i, j)
  <2> HIDE DEF i, j
  <2> QED
    BY <1>7, <1>8, <1>9, <1>10 DEF Token
<1> QED
  BY <1>5, <1>11

LEMMA PieceIsToken ==
  ASSUME NEW s \in String, NEW a \in Int, NEW b \in Int, Adjacent(s, a, b),
         TrimSpace(SubSeq(s, a + 1, b - 1)) # <<>>
  PROVE  TrimSpace(SubSeq(s, a + 1, b - 1)) \in Tokens(s)
<1> DEFINE x == a + 1
           y == b - 1
           w == SubSeq(s, x, y)
<1>1. Len(s) \in Nat
  BY Strings
<1>2. /\ 0 <= a /\ b <= Len(s) + 1 /\ a < b
      /\ w \in String /\ Len(w) = b - a - 1
      /\ \A i \in 1..(b - a - 1) : w[i] = s[a + i]
  BY PieceAt
<1> HIDE DEF w
<1>3. PICK p, q \in 1..Len(w) : Outside(w, p, q) /\ TrimSpace(w) = SubSeq(w, p, q)
  BY <1>2, Trimmed DEF w
<1>4. p \in Int /\ q \in Int /\ p \in 1..(b - a - 1) /\ q \in p..(b - a - 1)
  BY <1>2, <1>3 DEF Outside
<1>5. /\ a + p \in 1..Len(s) /\ a + q \in (a + p)..Len(s)
      /\ Token(s, a + p, a + q)
  BY <1>2, <1>3, <1>4, PlaceOfPiece
<1>6. SubSeq(w, p, q) = SubSeq(s, a + p, a + q)
  <2>1. /\ x \in 1..(Len(s) + 1) /\ y \in 0..Len(s)
        /\ p \in 1..(y - x + 1) /\ q \in p..(y - x + 1)
        /\ x + p - 1 = a + p /\ x + q - 1 = a + q
    BY <1>1, <1>2, <1>4
  <2> HIDE DEF x, y
  <2>2. SubSeq(SubSeq(s, x, y), p, q) = SubSeq(s, x + p - 1, x + q - 1)
    BY <2>1, PartOfPart
  <2> QED
    BY <2>1, <2>2 DEF w
<1>7. TrimSpace(w) \in String
  BY <1>2, Trimmed
<1>8. TrimSpace(w) \in Tokens(s)
  BY <1>3, <1>5, <1>6, <1>7 DEF Tokens
<1> QED
  BY <1>8 DEF w

(* Two ways to name the string without the spaces around it.               *)
LEMMA OutsideIsTrimmed ==
  ASSUME NEW s \in String, NEW p \in Int, NEW q \in Int, Outside(s, p, q)
  PROVE  TrimSpace(s) = SubSeq(s, p, q) /\ TrimSpace(s) # <<>>
<1>1. Len(s) \in Nat
  BY Strings
<1>2. TrimSpace(s) # <<>>
  BY Trimmed DEF Outside
<1>3. PICK x, y \in 1..Len(s) : Outside(s, x, y) /\ TrimSpace(s) = SubSeq(s, x, y)
  BY <1>2, Trimmed
<1>4. x = p /\ y = q
  <2>1. x <= p /\ q <= y /\ p <= x /\ y <= q
    BY <1>3 DEF Outside
  <2> QED
    BY <1>1, <2>1
<1> QED
  BY <1>2, <1>3, <1>4

LEMMA TokenIsPiece ==
  ASSUME NEW s \in String, NEW i \in 1..Len(s), NEW j \in i..Len(s), Token(s, i, j)
  PROVE  SubSeq(s, i, j) \in TrimmedPieces(s)
<1>1. Len(s) \in Nat /\ i \in Int /\ j \in Int
  BY Strings
<1>2. \A k \in i..j : s[k] # Comma
  BY DEF Token
<1>3. PICK a, b \in Int : Adjacent(s, a, b) /\ 0 <= a /\ a < i /\ j < b /\ b <= Len(s) + 1
  BY <1>2, CutsAround
<1> DEFINE x == a + 1
           y == b - 1
           w == SubSeq(s, x, y)
<1>4. /\ w \in String /\ Len(w) = b - a - 1
      /\ \A k \in 1..(b - a - 1) : w[k] = s[a + k]
      /\ \A k \in 1..Len(s) : a < k /\ k < b => s[k] # Comma
  BY <1>3, PieceAt
<1>5. w \in Range(Split(s))
  BY <1>3, Pieces
<1>6. i - a \in 1..(b - a - 1) /\ j - a \in (i - a)..(b - a - 1)
  BY <1>1, <1>3
<1> HIDE DEF w
<1>7. Outside(w, i - a, j - a)
  <2>1. w[i - a] = s[i] /\ w[j - a] = s[j]
    <3>1. a + (i - a) = i /\ a + (j - a) = j /\ j - a \in 1..(b - a - 1)
      BY <1>1, <1>3
    <3> QED
      BY <1>4, <1>6, <3>1
  <2>2. ASSUME NEW k \in 1..(b - a - 1), w[k] # Space
        PROVE  i - a <= k /\ k <= j - a
    <3>1. /\ a + k \in 1..Len(s) /\ a < a + k /\ a + k < b /\ s[a + k] # Space
      BY <1>1, <1>3, <1>4, <2>2
    <3>2. ~(a + k < i)
      <4> SUFFICES ASSUME a + k < i PROVE FALSE
        OBVIOUS
      <4>1. a + k \in 1..(i - 1)
        BY <1>1, <3>1
      <4>2. PICK c \in (a + k)..(i - 1) : s[c] = Comma
        BY <3>1, <4>1 DEF Token
      <4>3. c \in 1..Len(s) /\ a < c /\ c < b
        BY <1>1, <1>3, <3>1
      <4> QED
        BY <1>4, <4>2, <4>3
    <3>3. ~(j < a + k)
      <4> SUFFICES ASSUME j < a + k PROVE FALSE
        OBVIOUS
      <4>1. a + k \in (j + 1)..Len(s)
        BY <1>1, <3>1
      <4>2. PICK c \in (j + 1)..(a + k) : s[c] = Comma
        BY <3>1, <4>1 DEF Token
      <4>3. c \in 1..Len(s) /\ a < c /\ c < b
        BY <1>1, <1>3, <3>1
      <4> QED
        BY <1>4, <4>2, <4>3
    <3> QED
      BY <1>1, <3>2, <3>3
  <2>3. s[i] # Space /\ s[j] # Space
    BY DEF Token
  <2>4. i - a <= j - a /\ j - a \in 1..(b - a - 1)
    BY <1>1, <1>6
  <2> QED
    BY <1>4, <1>6, <2>1, <2>2, <2>3, <2>4 DEF Outside
<1>8. TrimSpace(w) = SubSeq(w, i - a, j - a) /\ TrimSpace(w) # <<>>
  BY <1>1, <1>4, <1>7, OutsideIsTrimmed
<1>9. SubSeq(w, i - a, j - a) = SubSeq(s, i, j)
  <2> DEFINE p == i - a
             q == j - a
  <2>1. /\ x \in 1..(Len(s) + 1) /\ y \in 0..Len(s)
        /\ p \in 1..(y - x + 1) /\ q \in p..(y - x + 1)
        /\ x + p - 1 = i /\ x + q - 1 = j
    BY <1>1, <1>3
  <2> HIDE DEF x, y, p, q
  <2>2. SubSeq(SubSeq(s, x, y), p, q) = SubSeq(s, x + p - 1, x + q - 1)
    BY <2>1, PartOfPart
  <2> QED
    BY <2>1, <2>2 DEF w, p, q
<1> QED
  BY <1>5, <1>8, <1>9 DEF TrimmedPieces

LEMMA PiecesAreTokens ==
  ASSUME NEW s \in String
  PROVE  TrimmedPieces(s) = Tokens(s)
<1>1. ASSUME NEW w \in TrimmedPieces(s) PROVE w \in Tokens(s)
  <2>1. PICK v \in Range(Split(s)) : w = TrimSpace(v) /\ w # <<>>
    BY DEF TrimmedPieces
  <2>2. PICK a, b \in Int : Adjacent(s, a, b) /\ v = SubSeq(s, a + 1, b - 1)
    BY Pieces
  <2> QED
    BY <2>1, <2>2, PieceIsToken
<1>2. ASSUME NEW w \in Tokens(s) PROVE w \in TrimmedPieces(s)
  <2>1. PICK i \in 1..Len(s) : \E j \in i..Len(s) : Token(s, i, j) /\ w = SubSeq(s, i, j)
    BY DEF Tokens
  <2>2. PICK j \in i..Len(s) : Token(s, i, j) /\ w = SubSeq(s, i, j)
    BY <2>1
  <2> QED
    BY <2>2, TokenIsPiece
<1> QED
  BY <1>1, <1>2

-----------------------------------------------------------------------------
(* Trimming keeps the words.                                               *)
LEMMA TrimmedPlaces ==
  ASSUME NEW s \in String, NEW p \in 1..Len(s), NEW q \in p..Len(s), Outside(s, p, q),
         NEW t, Len(t) = q - p + 1, \A i \in 1..(q - p + 1) : t[i] = s[p + i - 1],
         NEW i \in 1..(q - p + 1), NEW j \in i..(q - p + 1)
  PROVE  Token(t, i, j) <=> Token(s, p + i - 1, p + j - 1)
<1>1. Len(s) \in Nat /\ p \in Int /\ q \in Int /\ i \in Int /\ j \in Int
  BY Strings
<1> DEFINE x == p + i - 1
           y == p + j - 1
<1>2. /\ x \in p..q /\ y \in x..q /\ x \in Int /\ y \in Int
      /\ i = x - p + 1 /\ j = y - p + 1 /\ q <= Len(s)
  BY <1>1
<1>3. /\ \A k \in 1..(q - p + 1) : t[k] = s[p + k - 1]
      /\ \A k \in p..q : s[k] = t[k - p + 1]
  <2> SUFFICES ASSUME NEW k \in p..q PROVE s[k] = t[k - p + 1]
    OBVIOUS
  <2>1. k - p + 1 \in 1..(q - p + 1) /\ p + (k - p + 1) - 1 = k
    BY <1>1
  <2> QED
    BY <2>1
<1>4. t[i] = s[x] /\ t[j] = s[y]
  <2>1. j \in 1..(q - p + 1)
    BY <1>1
  <2> QED
    BY <1>3, <2>1
<1>5. (\A k \in i..j : t[k] # Comma) <=> (\A k \in x..y : s[k] # Comma)
  <2>1. \A k \in i..j : k \in 1..(q - p + 1) /\ p + k - 1 \in x..y
    BY <1>1, <1>2
  <2>2. \A k \in x..y : k \in p..q /\ k - p + 1 \in i..j
    BY <1>1, <1>2
  <2>3. \A k \in x..y : s[k] = t[k - p + 1]
    BY <1>3, <2>2
  <2>4. \A k \in i..j : t[k] = s[p + k - 1]
    BY <2>1
  <2> HIDE DEF x, y
  <2>5. ASSUME \A k \in i..j : t[k] # Comma, NEW k \in x..y PROVE s[k] # Comma
    BY <2>2, <2>3, <2>5
  <2>6. ASSUME \A k \in x..y : s[k] # Comma, NEW k \in i..j PROVE t[k] # Comma
    BY <2>1, <2>4, <2>6
  <2> QED
    BY <2>5, <2>6
<1> DEFINE LeftOf(u, m) ==
             \A k \in 1..(m - 1) : u[k] # Space => \E c \in k..(m - 1) : u[c] = Comma
           RightOf(u, m) ==
             \A k \in (m + 1)..Len(u) : u[k] # Space => \E c \in (m + 1)..k : u[c] = Comma
<1>6. LeftOf(t, i) <=> LeftOf(s, x)
  <2>1. ASSUME LeftOf(t, i), NEW k \in 1..(x - 1), s[k] # Space
        PROVE  \E c \in k..(x - 1) : s[c] = Comma
    <3>1. p <= k
      <4>1. k \in 1..Len(s)
        <5> HIDE DEF x
        <5> QED
          BY <1>1, <1>2
      <4> HIDE DEF x
      <4> QED
        BY <2>1, <4>1 DEF Outside
    <3>2. k - p + 1 \in 1..(i - 1) /\ k \in p..q
      BY <1>1, <1>2, <3>1
    <3>3. PICK c \in (k - p + 1)..(i - 1) : t[c] = Comma
      BY <1>3, <2>1, <3>2
    <3>4. c \in 1..(q - p + 1) /\ p + c - 1 \in k..(x - 1)
      BY <1>1, <1>2, <3>1
    <3> QED
      BY <1>3, <3>3, <3>4
  <2>2. ASSUME LeftOf(s, x), NEW k \in 1..(i - 1), t[k] # Space
        PROVE  \E c \in k..(i - 1) : t[c] = Comma
    <3>1. k \in 1..(q - p + 1) /\ p + k - 1 \in 1..(x - 1)
      BY <1>1, <1>2
    <3>2. PICK c \in (p + k - 1)..(x - 1) : s[c] = Comma
      BY <1>3, <2>2, <3>1
    <3>3. c \in p..q /\ c - p + 1 \in k..(i - 1)
      BY <1>1, <1>2
    <3> QED
      BY <1>3, <3>2, <3>3
  <2> HIDE DEF x
  <2> QED
    BY <2>1, <2>2
<1>7. RightOf(t, j) <=> RightOf(s, y)
  <2>1. ASSUME RightOf(t, j), NEW k \in (y + 1)..Len(s), s[k] # Space
        PROVE  \E c \in (y + 1)..k : s[c] = Comma
    <3>1. k <= q
      <4>1. k \in 1..Len(s)
        <5> HIDE DEF y
        <5> QED
          BY <1>1, <1>2
      <4> HIDE DEF y
      <4> QED
        BY <2>1, <4>1 DEF Outside
    <3>2. k - p + 1 \in (j + 1)..Len(t) /\ k \in p..q
      BY <1>1, <1>2, <3>1
    <3>3. PICK c \in (j + 1)..(k - p + 1) : t[c] = Comma
      BY <1>3, <2>1, <3>2
    <3>4. c \in 1..(q - p + 1) /\ p + c - 1 \in (y + 1)..k
      BY <1>1, <1>2, <3>1
    <3> QED
      BY <1>3, <3>3, <3>4
  <2>2. ASSUME RightOf(s, y), NEW k \in (j + 1)..Len(t), t[k] # Space
        PROVE  \E c \in (j + 1)..k : t[c] = Comma
    <3>1. k \in 1..(q - p + 1) /\ p + k - 1 \in (y + 1)..Len(s)
      BY <1>1, <1>2
    <3>2. PICK c \in (y + 1)..(p + k - 1) : s[c] = Comma
      BY <1>3, <2>2, <3>1
    <3>3. c \in p..q /\ c - p + 1 \in (j + 1)..k
      BY <1>1, <1>2
    <3> QED
      BY <1>3, <3>2, <3>3
  <2> HIDE DEF y
  <2> QED
    BY <2>1, <2>2
<1>8. Token(t, i, j) <=> Token(s, x, y)
  <2> HIDE DEF x, y
  <2> QED
    BY <1>4, <1>5, <1>6, <1>7 DEF Token
<1> QED
  BY <1>8

LEMMA TrimmingKeepsTokens ==
  ASSUME NEW s \in String
  PROVE  Tokens(TrimSpace(s)) = Tokens(s)
<1>1. Len(s) \in Nat
  BY Strings
<1>2. CASE TrimSpace(s) = <<>>
  <2>1. \A k \in 1..Len(s) : s[k] = Space
    BY <1>2, Trimmed
  <2>2. Tokens(s) = {}
    BY <2>1 DEF Tokens, Token
  <2>3. Tokens(<<>>) = {}
    BY DEF Tokens
  <2> QED
    BY <1>2, <2>2, <2>3
<1>3. CASE TrimSpace(s) # <<>>
  <2>1. PICK p, q \in 1..Len(s) : Outside(s, p, q) /\ TrimSpace(s) = SubSeq(s, p, q)
    BY <1>3, Trimmed
  <2>2. p \in Int /\ q \in p..Len(s) /\ q \in 0..Len(s) /\ p \in 1..(Len(s) + 1) /\ p <= q
    BY <1>1, <2>1 DEF Outside
  <2> DEFINE t == SubSeq(s, p, q)
  <2>3. /\ t \in String /\ Len(t) = q - p + 1
        /\ \A i \in 1..(q - p + 1) : t[i] = s[p + i - 1]
    BY <2>2, Substring
  <2>4. \A i \in 1..(q - p + 1) : \A j \in i..(q - p + 1) :
          SubSeq(t, i, j) = SubSeq(s, p + i - 1, p + j - 1)
    BY <2>2, PartOfPart
  <2> HIDE DEF t
  <2>5. \A i \in 1..(q - p + 1) : \A j \in i..(q - p + 1) :
          Token(t, i, j) <=> Token(s, p + i - 1, p + j - 1)
    BY <2>1, <2>2, <2>3, TrimmedPlaces
  <2>6. ASSUME NEW w \in Tokens(t) PROVE w \in Tokens(s)
    <3>1. PICK i \in 1..(q - p + 1) : \E j \in i..(q - p + 1) :
                 Token(t, i, j) /\ w = SubSeq(t, i, j)
      BY <2>3 DEF Tokens
    <3>2. PICK j \in i..(q - p + 1) : Token(t, i, j) /\ w = SubSeq(t, i, j)
      BY <3>1
    <3> DEFINE x == p + i - 1
               y == p + j - 1
    <3>3. x \in 1..Len(s) /\ y \in x..Len(s)
      BY <1>1, <2>2
    <3>4. Token(s, x, y) /\ w = SubSeq(s, x, y)
      BY <2>4, <2>5, <3>2
    <3> HIDE DEF x, y
    <3>5. w \in String
      BY DEF Tokens
    <3> QED
      BY <3>3, <3>4, <3>5 DEF Tokens
  <2>7. ASSUME NEW w \in Tokens(s) PROVE w \in Tokens(t)
    <3>1. PICK x \in 1..Len(s) : \E y \in x..Len(s) : Token(s, x, y) /\ w = SubSeq(s, x, y)
      BY DEF Tokens
    <3>2. PICK y \in x..Len(s) : Token(s, x, y) /\ w = SubSeq(s, x, y)
      BY <3>1
    <3>3. p <= x /\ y <= q
      <4>1. s[x] # Space /\ s[y] # Space /\ y \in 1..Len(s)
        BY <1>1, <3>2 DEF Token
      <4> QED
        BY <2>1, <4>1 DEF Outside
    <3> DEFINE i == x - p + 1
               j == y - p + 1
    <3>4. /\ i \in 1..(q - p + 1) /\ j \in i..(q - p + 1)
          /\ p + i - 1 = x /\ p + j - 1 = y
      BY <1>1, <2>2, <3>3
    <3> HIDE DEF i, j
    <3>5. Token(t, i, j) /\ w = SubSeq(t, i, j)
      BY <2>4, <2>5, <3>2, <3>4
    <3>6. w \in String
      BY DEF Tokens
    <3> QED
      BY <2>3, <3>4, <3>5, <3>6 DEF Tokens
  <2>8. Tokens(t) = Tokens(s)
    BY <2>6, <2>7
  <2> QED
    BY <2>1, <2>8 DEF t
<1> QED
  BY <1>2, <1>3

(* A string without a comma is one piece.                                  *)
LEMMA WholeToken ==
  ASSUME NEW w \in String, Whole(w)
  PROVE  Tokens(w) = {TrimSpace(w)} \ {<<>>}
<1>1. Len(w) \in Nat
  BY Strings
<1>2. ASSUME NEW v \in Tokens(w) PROVE v = TrimSpace(w) /\ v # <<>>
  <2>1. PICK i \in 1..Len(w) : \E j \in i..Len(w) : Token(w, i, j) /\ v = SubSeq(w, i, j)
    BY DEF Tokens
  <2>2. PICK j \in i..Len(w) : Token(w, i, j) /\ v = SubSeq(w, i, j)
    BY <2>1
  <2>3. ASSUME NEW k \in 1..Len(w), w[k] # Space PROVE i <= k /\ k <= j
    <3>1. ~(k < i)
      <4> SUFFICES ASSUME k < i PROVE FALSE
        OBVIOUS
      <4>1. k \in 1..(i - 1)
        BY <1>1
      <4>2. PICK c \in k..(i - 1) : w[c] = Comma
        BY <2>2, <2>3, <4>1 DEF Token
      <4> QED
        BY <1>1, <4>2 DEF Whole
    <3>2. ~(j < k)
      <4> SUFFICES ASSUME j < k PROVE FALSE
        OBVIOUS
      <4>1. k \in (j + 1)..Len(w)
        BY <1>1
      <4>2. PICK c \in (j + 1)..k : w[c] = Comma
        BY <2>2, <2>3, <4>1 DEF Token
      <4> QED
        BY <1>1, <4>2 DEF Whole
    <3> QED
      BY <1>1, <3>1, <3>2
  <2>4. Outside(w, i, j) /\ i \in Int /\ j \in Int
    BY <1>1, <2>2, <2>3 DEF Outside, Token
  <2> QED
    BY <2>2, <2>4, OutsideIsTrimmed
<1>3. ASSUME TrimSpace(w) # <<>> PROVE TrimSpace(w) \in Tokens(w)
  <2>1. PICK p, q \in 1..Len(w) : Outside(w, p, q) /\ TrimSpace(w) = SubSeq(w, p, q)
    BY <1>3, Trimmed
  <2>2. q \in p..Len(w) /\ p \in Int /\ q \in Int
    BY <1>1, <2>1 DEF Outside
  <2>3. Token(w, p, q)
    <3>1. w[p] # Space /\ w[q] # Space
      BY <2>1 DEF Outside
    <3>2. \A k \in p..q : w[k] # Comma
      BY <1>1, <2>2 DEF Whole
    <3>3. \A k \in 1..(p - 1) : w[k] = Space
      BY <1>1, <2>1, <2>2 DEF Outside
    <3>4. \A k \in (q + 1)..Len(w) : w[k] = Space
      BY <1>1, <2>1, <2>2 DEF Outside
    <3> QED
      BY <3>1, <3>2, <3>3, <3>4 DEF Token
  <2>4. TrimSpace(w) \in String
    BY Trimmed
  <2> QED
    BY <2>1, <2>2, <2>3, <2>4 DEF Tokens
<1> QED
  BY <1>2, <1>3

-----------------------------------------------------------------------------
(* Two strings joined by a comma: the words are those of both.             *)
Linked(st, s, t) ==
  /\ st \in String /\ Len(st) = Len(s) + 1 + Len(t)
  /\ \A i \in 1..Len(s) : st[i] = s[i]
  /\ st[Len(s) + 1] = Comma
  /\ \A i \in 1..Len(t) : st[Len(s) + 1 + i] = t[i]

LEMMA ChainIsLinked ==
  ASSUME NEW s \in String, NEW t \in String
  PROVE  Linked(s \o <<Comma>> \o t, s, t)
BY Chain DEF Linked

LEMMA FirstPart ==
  ASSUME NEW s \in String, NEW t \in String, NEW st, Linked(st, s, t),
         NEW i \in 1..Len(s), NEW j \in i..Len(s)
  PROVE  /\ Token(st, i, j) <=> Token(s, i, j)
         /\ SubSeq(st, i, j) = SubSeq(s, i, j)
<1>1. Len(s) \in Nat /\ Len(t) \in Nat /\ i \in Int /\ j \in Int
  BY Strings
<1>2. /\ Len(st) = Len(s) + 1 + Len(t) /\ st[Len(s) + 1] = Comma
      /\ \A k \in 1..Len(s) : st[k] = s[k]
  BY DEF Linked
<1>3. st[i] = s[i] /\ st[j] = s[j] /\ \A k \in i..j : st[k] = s[k]
  BY <1>1, <1>2
<1>4. \A k \in 1..(i - 1) : st[k] = s[k]
  BY <1>1, <1>2
<1>5. /\ \A k \in (j + 1)..Len(s) : st[k] = s[k]
      /\ \A k \in (Len(s) + 1)..Len(st) : Len(s) + 1 \in (j + 1)..k
      /\ \A k \in (j + 1)..Len(st) : k \in (j + 1)..Len(s) \/ k \in (Len(s) + 1)..Len(st)
      /\ \A k \in (j + 1)..Len(s) : k \in (j + 1)..Len(st)
  BY <1>1, <1>2
<1> DEFINE LeftOf(u, m) ==
             \A k \in 1..(m - 1) : u[k] # Space => \E c \in k..(m - 1) : u[c] = Comma
           RightOf(u, m) ==
             \A k \in (m + 1)..Len(u) : u[k] # Space => \E c \in (m + 1)..k : u[c] = Comma
<1>6. LeftOf(st, i) <=> LeftOf(s, i)
  <2>1. \A k \in 1..(i - 1) : \A c \in k..(i - 1) : st[c] = s[c] /\ st[k] = s[k]
    BY <1>1, <1>4
  <2> QED
    BY <2>1
<1>7. RightOf(st, j) <=> RightOf(s, j)
  <2>1. \A k \in (j + 1)..Len(s) : \A c \in (j + 1)..k : st[c] = s[c] /\ st[k] = s[k]
    BY <1>1, <1>5
  <2>2. ASSUME RightOf(st, j), NEW k \in (j + 1)..Len(s), s[k] # Space
        PROVE  \E c \in (j + 1)..k : s[c] = Comma
    <3>1. k \in (j + 1)..Len(st) /\ st[k] # Space
      BY <1>5, <2>2
    <3>2. PICK c \in (j + 1)..k : st[c] = Comma
      BY <2>2, <3>1
    <3> QED
      BY <2>1, <3>2
  <2>3. ASSUME RightOf(s, j), NEW k \in (j + 1)..Len(st), st[k] # Space
        PROVE  \E c \in (j + 1)..k : st[c] = Comma
    <3>1. CASE k \in (j + 1)..Len(s)
      <4>1. s[k] # Space
        BY <1>5, <2>3, <3>1
      <4>2. PICK c \in (j + 1)..k : s[c] = Comma
        BY <2>3, <3>1, <4>1
      <4> QED
        BY <2>1, <3>1, <4>2
    <3>2. CASE k \in (Len(s) + 1)..Len(st)
      BY <1>2, <1>5, <3>2
    <3> QED
      BY <1>5, <3>1, <3>2
  <2> QED
    BY <2>2, <2>3
<1>8. Token(st, i, j) <=> Token(s, i, j)
  BY <1>3, <1>6, <1>7 DEF Token
<1>9. SubSeq(st, i, j) = SubSeq(s, i, j)
  <2> DEFINE u == SubSeq(st, i, j)
             v == SubSeq(s, i, j)
  <2>1. /\ i \in 1..(Len(s) + 1) /\ j \in 0..Len(s) /\ i <= j
        /\ i \in 1..(Len(st) + 1) /\ j \in 0..Len(st)
    BY <1>1, <1>2
  <2>2. /\ u \in String /\ Len(u) = j - i + 1
        /\ \A k \in 1..(j - i + 1) : u[k] = st[i + k - 1]
    BY <2>1, Substring DEF Linked
  <2>3. /\ v \in String /\ Len(v) = j - i + 1
        /\ \A k \in 1..(j - i + 1) : v[k] = s[i + k - 1]
    BY <2>1, Substring
  <2>4. \A k \in 1..(j - i + 1) : i + k - 1 \in i..j
    BY <1>1
  <2> HIDE DEF u, v
  <2>5. \A k \in 1..(j - i + 1) : u[k] = v[k]
    BY <1>3, <2>2, <2>3, <2>4
  <2>6. u = v
    BY <2>2, <2>3, <2>5, SameString
  <2> QED
    BY <2>6 DEF u, v
<1> QED
  BY <1>8, <1>9

LEMMA SecondPart ==
  ASSUME NEW s \in String, NEW t \in String, NEW st, Linked(st, s, t),
         NEW i \in 1..Len(t), NEW j \in i..Len(t)
  PROVE  LET n == Len(s) + 1 IN
         /\ Token(st, n + i, n + j) <=> Token(t, i, j)
         /\ SubSeq(st, n + i, n + j) = SubSeq(t, i, j)
<1> DEFINE n == Len(s) + 1
           x == n + i
           y == n + j
<1>1. n \in Nat \ {0} /\ Len(t) \in Nat /\ i \in Int /\ j \in Int
  BY Strings
<1>2. /\ Len(st) = n + Len(t) /\ st[n] = Comma
      /\ \A k \in 1..Len(t) : st[n + k] = t[k]
  BY DEF Linked
<1> HIDE DEF n
<1>3. \A k \in (n + 1)..(n + Len(t)) : k - n \in 1..Len(t) /\ st[k] = t[k - n]
  <2> TAKE k \in (n + 1)..(n + Len(t))
  <2>1. k - n \in 1..Len(t) /\ n + (k - n) = k
    BY <1>1
  <2> QED
    BY <1>2, <2>1
<1>4. /\ x \in (n + 1)..(n + Len(t)) /\ y \in x..(n + Len(t))
      /\ st[x] = t[i] /\ st[y] = t[j]
  <2>1. j \in 1..Len(t)
    BY <1>1
  <2>2. st[x] = t[i] /\ st[y] = t[j]
    BY <1>2, <2>1
  <2> QED
    BY <1>1, <2>1, <2>2
<1>5. (\A k \in x..y : st[k] # Comma) <=> (\A k \in i..j : t[k] # Comma)
  <2>1. \A k \in x..y : k - n \in i..j /\ st[k] = t[k - n]
    BY <1>1, <1>3
  <2>2. ASSUME NEW k \in i..j PROVE n + k \in x..y /\ st[n + k] = t[k]
    <3>1. k \in 1..Len(t) /\ n + k \in x..y
      BY <1>1
    <3> HIDE DEF x, y
    <3> QED
      BY <1>2, <3>1
  <2> HIDE DEF x, y
  <2>3. ASSUME \A k \in x..y : st[k] # Comma, NEW k \in i..j PROVE t[k] # Comma
    BY <2>2, <2>3
  <2>4. ASSUME \A k \in i..j : t[k] # Comma, NEW k \in x..y PROVE st[k] # Comma
    BY <2>1, <2>4
  <2> QED
    BY <2>3, <2>4
<1> DEFINE LeftOf(u, m) ==
             \A k \in 1..(m - 1) : u[k] # Space => \E c \in k..(m - 1) : u[c] = Comma
           RightOf(u, m) ==
             \A k \in (m + 1)..Len(u) : u[k] # Space => \E c \in (m + 1)..k : u[c] = Comma
<1>6. LeftOf(st, x) <=> LeftOf(t, i)
  <2>1. ASSUME LeftOf(st, x), NEW k \in 1..(i - 1), t[k] # Space
        PROVE  \E c \in k..(i - 1) : t[c] = Comma
    <3>1. n + k \in 1..(x - 1) /\ st[n + k] = t[k]
      BY <1>1, <1>2
    <3>2. PICK c \in (n + k)..(x - 1) : st[c] = Comma
      BY <2>1, <3>1
    <3>3. c - n \in k..(i - 1) /\ st[c] = t[c - n]
      BY <1>1, <1>3
    <3> QED
      BY <3>2, <3>3
  <2>2. ASSUME LeftOf(t, i), NEW k \in 1..(x - 1), st[k] # Space
        PROVE  \E c \in k..(x - 1) : st[c] = Comma
    <3>1. CASE k <= n
      <4>1. n \in k..(x - 1)
        BY <1>1, <3>1
      <4> QED
        BY <1>2, <4>1
    <3>2. CASE n < k
      <4>1. k - n \in 1..(i - 1) /\ st[k] = t[k - n]
        BY <1>1, <1>3, <3>2
      <4>2. PICK c \in (k - n)..(i - 1) : t[c] = Comma
        BY <2>2, <4>1
      <4>3. n + c \in k..(x - 1) /\ st[n + c] = t[c]
        BY <1>1, <1>2, <3>2
      <4> QED
        BY <4>2, <4>3
    <3> QED
      BY <1>1, <3>1, <3>2
  <2> HIDE DEF x
  <2> QED
    BY <2>1, <2>2
<1>7. RightOf(st, y) <=> RightOf(t, j)
  <2>1. ASSUME RightOf(st, y), NEW k \in (j + 1)..Len(t), t[k] # Space
        PROVE  \E c \in (j + 1)..k : t[c] = Comma
    <3>1. n + k \in (y + 1)..Len(st) /\ st[n + k] = t[k]
      BY <1>1, <1>2
    <3>2. PICK c \in (y + 1)..(n + k) : st[c] = Comma
      BY <2>1, <3>1
    <3>3. c - n \in (j + 1)..k /\ st[c] = t[c - n]
      BY <1>1, <1>3
    <3> QED
      BY <3>2, <3>3
  <2>2. ASSUME RightOf(t, j), NEW k \in (y + 1)..Len(st), st[k] # Space
        PROVE  \E c \in (y + 1)..k : st[c] = Comma
    <3>1. k - n \in (j + 1)..Len(t) /\ st[k] = t[k - n]
      BY <1>1, <1>2, <1>3
    <3>2. PICK c \in (j + 1)..(k - n) : t[c] = Comma
      BY <2>2, <3>1
    <3>3. n + c \in (y + 1)..k /\ c \in 1..Len(t)
      BY <1>1, <1>2
    <3>4. st[n + c] = t[c]
      BY <1>2, <3>3
    <3> QED
      BY <3>2, <3>3, <3>4
  <2> HIDE DEF y
  <2> QED
    BY <2>1, <2>2
<1>8. Token(st, x, y) <=> Token(t, i, j)
  <2> HIDE DEF x, y
  <2> QED
    BY <1>4, <1>5, <1>6, <1>7 DEF Token
<1>9. SubSeq(st, x, y) = SubSeq(t, i, j)
  <2> DEFINE u == SubSeq(st, x, y)
             v == SubSeq(t, i, j)
  <2>1. /\ x \in 1..(Len(st) + 1) /\ y \in 0..Len(st) /\ x <= y /\ y - x = j - i
        /\ i \in 1..(Len(t) + 1) /\ j \in 0..Len(t) /\ i <= j
    BY <1>1, <1>2
  <2>2. \A k \in 1..(j - i + 1) : x + k - 1 = n + (i + k - 1) /\ i + k - 1 \in 1..Len(t)
    BY <1>1
  <2> HIDE DEF x, y
  <2>3. /\ u \in String /\ Len(u) = y - x + 1
        /\ \A k \in 1..(y - x + 1) : u[k] = st[x + k - 1]
    BY <2>1, Substring DEF Linked
  <2>4. /\ v \in String /\ Len(v) = j - i + 1
        /\ \A k \in 1..(j - i + 1) : v[k] = t[i + k - 1]
    BY <2>1, Substring
  <2> HIDE DEF u, v
  <2>5. \A k \in 1..(j - i + 1) : u[k] = v[k]
    BY <1>2, <2>1, <2>2, <2>3, <2>4
  <2>6. u = v
    BY <2>1, <2>3, <2>4, <2>5, SameString
  <2> QED
    BY <2>6 DEF u, v
<1> QED
  BY <1>8, <1>9 DEF n

LEMMA LinkedTokens ==
  ASSUME NEW s \in String, NEW t \in String, NEW st, Linked(st, s, t)
  PROVE  Tokens(st) = Tokens(s) \cup Tokens(t)
<1> DEFINE n == Len(s) + 1
<1>1. Len(s) \in Nat /\ Len(t) \in Nat /\ n \in Nat /\ Len(st) = n + Len(t)
  BY Strings DEF Linked
<1>2. ASSUME NEW w \in Tokens(s) PROVE w \in Tokens(st)
  <2>1. PICK i \in 1..Len(s) : \E j \in i..Len(s) : Token(s, i, j) /\ w = SubSeq(s, i, j)
    BY DEF Tokens
  <2>2. PICK j \in i..Len(s) : Token(s, i, j) /\ w = SubSeq(s, i, j)
    BY <2>1
  <2>3. Token(st, i, j) /\ w = SubSeq(st, i, j)
    BY <2>2, FirstPart
  <2>4. i \in 1..Len(st) /\ j \in i..Len(st) /\ w \in String
    BY <1>1 DEF Tokens
  <2> QED
    BY <2>3, <2>4 DEF Tokens
<1>3. ASSUME NEW w \in Tokens(t) PROVE w \in Tokens(st)
  <2>1. PICK i \in 1..Len(t) : \E j \in i..Len(t) : Token(t, i, j) /\ w = SubSeq(t, i, j)
    BY DEF Tokens
  <2>2. PICK j \in i..Len(t) : Token(t, i, j) /\ w = SubSeq(t, i, j)
    BY <2>1
  <2> DEFINE x == n + i
             y == n + j
  <2>3. Token(st, x, y) /\ w = SubSeq(st, x, y)
    BY <2>2, SecondPart
  <2>4. x \in 1..Len(st) /\ y \in x..Len(st) /\ w \in String
    BY <1>1 DEF Tokens
  <2> HIDE DEF x, y
  <2> QED
    BY <2>3, <2>4 DEF Tokens
<1>4. ASSUME NEW w \in Tokens(st) PROVE w \in Tokens(s) \cup Tokens(t)
  <2>1. PICK x \in 1..Len(st) : \E y \in x..Len(st) : Token(st, x, y) /\ w = SubSeq(st, x, y)
    BY DEF Tokens
  <2>2. PICK y \in x..Len(st) : Token(st, x, y) /\ w = SubSeq(st, x, y)
    BY <2>1
  <2>3. y <= Len(s) \/ n + 1 <= x
    <3>1. n \notin x..y
      BY <2>2 DEF Linked, Token
    <3> QED
      BY <1>1, <3>1
  <2>4. CASE y <= Len(s)
    <3>1. x \in 1..Len(s) /\ y \in x..Len(s) /\ w \in String
      BY <1>1, <2>4 DEF Tokens
    <3>2. Token(s, x, y) /\ w = SubSeq(s, x, y)
      BY <2>2, <3>1, FirstPart
    <3> QED
      BY <3>1, <3>2 DEF Tokens
  <2>5. CASE n + 1 <= x
    <3> DEFINE i == x - n
               j == y - n
    <3>0. w \in String
      BY DEF Tokens
    <3>1. /\ i \in 1..Len(t) /\ j \in i..Len(t)
          /\ n + i = x /\ n + j = y
      BY <1>1, <2>5
    <3> HIDE DEF i, j
    <3>2. /\ Token(st, n + i, n + j) <=> Token(t, i, j)
          /\ SubSeq(st, n + i, n + j) = SubSeq(t, i, j)
      BY <3>1, SecondPart
    <3> HIDE DEF n
    <3>3. w = SubSeq(t, i, j) /\ Token(t, i, j)
      BY <2>2, <3>1, <3>2
    <3> QED
      BY <3>0, <3>1, <3>3 DEF Tokens
  <2> QED
    BY <2>3, <2>4, <2>5
<1> QED
  BY <1>2, <1>3, <1>4

(* The stretches between any two cuts, and the number of cuts.             *)
Bounded(s, w) ==
  \E a, b \in Int : /\ 0 <= a /\ a < b /\ b <= Len(s) + 1
                    /\ a \in Cuts(s) /\ b \in Cuts(s) /\ w = SubSeq(s, a + 1, b - 1)

LEMMA LinkedCuts ==
  ASSUME NEW s \in String, NEW t \in String, NEW st, Linked(st, s, t)
  PROVE  /\ Cuts(s) \in SUBSET Cuts(st)
         /\ Whole(t) => Cardinality(Cuts(st)) = Cardinality(Cuts(s)) + 1
<1>1. /\ Len(s) \in Nat /\ Len(t) \in Nat /\ st \in String
      /\ Len(st) = Len(s) + 1 + Len(t) /\ st[Len(s) + 1] = Comma
      /\ \A k \in 1..Len(s) : st[k] = s[k]
      /\ \A k \in 1..Len(t) : st[Len(s) + 1 + k] = t[k]
  BY Strings DEF Linked
<1>2. /\ IsFiniteSet(Cuts(s)) /\ Cuts(s) \in SUBSET (0..(Len(s) + 1))
      /\ 0 \in Cuts(s) /\ Len(s) + 1 \in Cuts(s)
      /\ \A i \in 1..Len(s) : i \in Cuts(s) <=> s[i] = Comma
  BY CutsAreFew
<1>3. /\ Cuts(st) \in SUBSET (0..(Len(st) + 1))
      /\ 0 \in Cuts(st) /\ Len(st) + 1 \in Cuts(st)
      /\ \A i \in 1..Len(st) : i \in Cuts(st) <=> st[i] = Comma
  BY <1>1, CutsAreFew
<1>4. ASSUME NEW c \in Cuts(s) PROVE c \in Cuts(st)
  <2>1. c = 0 \/ c = Len(s) + 1 \/ c \in 1..Len(s)
    BY <1>1, <1>2
  <2>2. \A i \in 1..Len(s) : i \in 1..Len(st)
    BY <1>1
  <2>3. Len(s) + 1 \in 1..Len(st)
    BY <1>1
  <2> QED
    BY <1>1, <1>2, <1>3, <2>1, <2>2, <2>3
<1>5. ASSUME Whole(t) PROVE Cuts(st) = Cuts(s) \cup {Len(st) + 1}
  <2>1. ASSUME NEW c \in Cuts(st) PROVE c \in Cuts(s) \cup {Len(st) + 1}
    <3>1. c \in 0..(Len(st) + 1)
      BY <1>3
    <3>2. CASE c \in 1..Len(s)
      <4>1. c \in 1..Len(st)
        BY <1>1, <3>2
      <4> QED
        BY <1>1, <1>2, <1>3, <3>2, <4>1
    <3>3. CASE c \in (Len(s) + 2)..Len(st)
      <4> DEFINE k == c - Len(s) - 1
      <4>1. k \in 1..Len(t) /\ Len(s) + 1 + k = c /\ c \in 1..Len(st)
        BY <1>1, <3>3
      <4>2. st[c] = t[k] /\ t[k] # Comma
        BY <1>1, <1>5, <4>1 DEF Whole
      <4> QED
        BY <1>3, <4>1, <4>2
    <3>4. \/ c = 0 \/ c \in 1..Len(s) \/ c = Len(s) + 1
          \/ c \in (Len(s) + 2)..Len(st) \/ c = Len(st) + 1
      BY <1>1, <3>1
    <3> QED
      BY <1>2, <3>2, <3>3, <3>4
  <2> QED
    BY <1>3, <1>4, <2>1
<1>6. Len(st) + 1 \notin Cuts(s)
  BY <1>1, <1>2
<1>7. Whole(t) => Cardinality(Cuts(st)) = Cardinality(Cuts(s)) + 1
  BY <1>2, <1>5, <1>6, FS_AddElement
<1> QED
  BY <1>4, <1>7

LEMMA LinkedBounds ==
  ASSUME NEW s \in String, NEW t \in String, NEW st, Linked(st, s, t)
  PROVE  /\ Bounded(st, t)
         /\ \A w \in String \ {<<>>} : Bounded(s, w) => Bounded(st, w)
<1>1. /\ Len(s) \in Nat /\ Len(t) \in Nat /\ st \in String
      /\ Len(st) = Len(s) + 1 + Len(t)
      /\ \A k \in 1..Len(t) : st[Len(s) + 1 + k] = t[k]
  BY Strings DEF Linked
<1>2. Cuts(s) \in SUBSET Cuts(st)
  BY LinkedCuts
<1>3. Len(s) + 1 \in Cuts(st) /\ Len(st) + 1 \in Cuts(st)
  BY <1>1, <1>2, CutsAreFew
<1>4. Bounded(st, t)
  <2> DEFINE a == Len(s) + 1
             b == Len(st) + 1
             x == a + 1
             y == b - 1
  <2>1. /\ x \in 1..(Len(st) + 1) /\ y \in 0..Len(st) /\ y - x + 1 = Len(t)
        /\ x <= y \/ Len(t) = 0
    BY <1>1
  <2>2. \A k \in 1..Len(t) : x + k - 1 = Len(s) + 1 + k
    BY <1>1
  <2> HIDE DEF x, y
  <2>3. /\ SubSeq(st, x, y) \in String
        /\ Len(SubSeq(st, x, y)) = IF x <= y THEN y - x + 1 ELSE 0
        /\ \A k \in 1..(y - x + 1) : SubSeq(st, x, y)[k] = st[x + k - 1]
    BY <1>1, <2>1, Substring
  <2> DEFINE u == SubSeq(st, x, y)
  <2>6. Len(u) = Len(t)
    <3>1. ~(x <= y) => Len(t) = 0
      BY <2>1
    <3> HIDE DEF u
    <3> QED
      BY <2>1, <2>3, <3>1 DEF u
  <2>4. u = t
    <3>1. u \in String /\ \A k \in 1..Len(t) : u[k] = t[k]
      BY <1>1, <2>1, <2>2, <2>3
    <3> HIDE DEF u
    <3> QED
      BY <2>6, <3>1, SameString
  <2>5. 0 <= a /\ a < b /\ b <= Len(st) + 1 /\ a \in Int /\ b \in Int
    BY <1>1
  <2> QED
    BY <1>3, <2>4, <2>5 DEF Bounded, x, y
<1>5. ASSUME NEW w \in String \ {<<>>}, Bounded(s, w) PROVE Bounded(st, w)
  <2>1. PICK a, b \in Int : /\ 0 <= a /\ a < b /\ b <= Len(s) + 1
                            /\ a \in Cuts(s) /\ b \in Cuts(s)
                            /\ w = SubSeq(s, a + 1, b - 1)
    BY <1>5 DEF Bounded
  <2> DEFINE x == a + 1
             y == b - 1
  <2>2. x <= y
    <3>1. SUFFICES ASSUME y < x PROVE FALSE
      OBVIOUS
    <3>2. SubSeq(s, x, y) = <<>>
      BY <3>1, SubSeqEmpty
    <3> QED
      BY <2>1, <3>2
  <2>3. x \in 1..Len(s) /\ y \in x..Len(s)
    BY <1>1, <2>1, <2>2
  <2>4. SubSeq(st, x, y) = SubSeq(s, x, y)
    BY <2>3, FirstPart
  <2>5. b <= Len(st) + 1 /\ a \in Cuts(st) /\ b \in Cuts(st)
    BY <1>1, <1>2, <2>1
  <2> QED
    BY <2>1, <2>4, <2>5 DEF Bounded
<1> QED
  BY <1>4, <1>5

-----------------------------------------------------------------------------
(* Cleaned: the trimmed tags that are not blank, each once.                *)
CleanStep ==
  [p \in Seq(String) \X String |->
     IF TrimSpace(p[2]) \in Range(p[1]) \cup {<<>>} THEN p[1]
     ELSE Append(p[1], TrimSpace(p[2]))]

Distinct(list) == \A i, j \in 1..Len(list) : list[i] = list[j] => i = j

TrimmedTags(ts) == {TrimSpace(t) : t \in Range(ts)} \ {<<>>}

LEMMA CleanStepType == CleanStep \in [Seq(String) \X String -> Seq(String)]
<1> SUFFICES ASSUME NEW l \in Seq(String), NEW t \in String
             PROVE  (IF TrimSpace(t) \in Range(l) \cup {<<>>} THEN l
                     ELSE Append(l, TrimSpace(t))) \in Seq(String)
  BY DEF CleanStep
<1>1. TrimSpace(t) \in String
  BY Trimmed
<1> QED
  BY <1>1, AppendProperties

LEMMA CleanedIsARun ==
  ASSUME NEW ts \in Seq(String)
  PROVE  \E g \in [0..Len(ts) -> Seq(String)] :
           /\ g[0] = <<>> /\ g[Len(ts)] = Cleaned(ts)
           /\ \A k \in 0..(Len(ts) - 1) : g[k + 1] = CleanStep[<<g[k], ts[k + 1]>>]
<1> DEFINE n == Len(ts)
           E(f) == [s \in SUBSET DOMAIN ts |->
                      IF s = {} THEN <<>>
                      ELSE IF TrimSpace(ts[Max(s)])
                                \in Range(f[s \ {Max(s)}]) \cup {<<>>}
                           THEN f[s \ {Max(s)}]
                           ELSE Append(f[s \ {Max(s)}], TrimSpace(ts[Max(s)]))]
           h == CHOOSE f : f = E(f)
<1>1. n \in Nat /\ DOMAIN ts = 1..n /\ ts \in [1..n -> String]
  BY LenProperties
<1>9. Foldable(Seq(String), String, <<>>, CleanStep, n, ts)
  <2>1. <<>> \in Seq(String)
    OBVIOUS
  <2> QED
    BY <1>1, <2>1, CleanStepType DEF Foldable
<1>2. Cleaned(ts) = h[DOMAIN ts]
  BY DEF Cleaned, FoldLeft, MapThenFoldSet
<1>3. \E f : f = E(f)
  <2>2. PICK f \in [SUBSET (1..n) -> Seq(String)] : f = Steps(f, n, <<>>, CleanStep, ts)
    <3>1. HasTable(Seq(String), <<>>, CleanStep, n, ts)
      BY <1>9, FoldsExist, Zenon
    <3> QED
      BY <3>1 DEF HasTable
  <2>3. ASSUME NEW s \in SUBSET (1..n), s # {}
        PROVE  CleanStep[<<f[s \ {Max(s)}], ts[Max(s)]>>] =
                 IF TrimSpace(ts[Max(s)]) \in Range(f[s \ {Max(s)}]) \cup {<<>>}
                 THEN f[s \ {Max(s)}]
                 ELSE Append(f[s \ {Max(s)}], TrimSpace(ts[Max(s)]))
    <3>1. Max(s) \in 1..n /\ s \ {Max(s)} \in SUBSET (1..n)
      BY <1>1, <2>3, LastPlace
    <3>2. f[s \ {Max(s)}] \in Seq(String) /\ ts[Max(s)] \in String
      BY <1>1, <3>1
    <3> QED
      BY <3>2 DEF CleanStep
  <2>4. f = E(f)
    BY <1>1, <2>2, <2>3 DEF Steps
  <2> QED
    BY <2>4
<1>4. h = E(h)
  BY <1>3
<1> HIDE DEF h
<1>5. /\ h[{}] = <<>>
      /\ \A s \in SUBSET (1..n) : s # {} =>
           h[s] = IF TrimSpace(ts[Max(s)]) \in Range(h[s \ {Max(s)}]) \cup {<<>>}
                  THEN h[s \ {Max(s)}]
                  ELSE Append(h[s \ {Max(s)}], TrimSpace(ts[Max(s)]))
  BY <1>1, <1>4
<1>6. ASSUME NEW k \in 0..(n - 1), h[1..k] \in Seq(String)
      PROVE  h[1..(k + 1)] = CleanStep[<<h[1..k], ts[k + 1]>>]
  <2>1. /\ 1..(k + 1) # {} /\ Max(1..(k + 1)) = k + 1 /\ (1..(k + 1)) \ {k + 1} = 1..k
    <3>1. k \in Nat
      BY <1>1
    <3> QED
      BY <3>1, LastOfInterval, Zenon
  <2>2. 1..(k + 1) \in SUBSET (1..n) /\ ts[k + 1] \in String
    BY <1>1
  <2>3. h[1..(k + 1)] = IF TrimSpace(ts[k + 1]) \in Range(h[1..k]) \cup {<<>>}
                        THEN h[1..k] ELSE Append(h[1..k], TrimSpace(ts[k + 1]))
    <3> DEFINE P == 1..(k + 1)
    <3>1. P # {} /\ P \in SUBSET (1..n) /\ Max(P) = k + 1 /\ P \ {k + 1} = 1..k
      BY <2>1, <2>2
    <3> HIDE DEF P
    <3>2. h[P] = IF TrimSpace(ts[k + 1]) \in Range(h[1..k]) \cup {<<>>}
                 THEN h[1..k] ELSE Append(h[1..k], TrimSpace(ts[k + 1]))
      BY <1>5, <3>1
    <3> QED
      BY <3>2 DEF P
  <2> QED
    BY <1>6, <2>2, <2>3 DEF CleanStep
<1>7. <<>> \in Seq(String) /\ h[DOMAIN ts] = h[1..n]
  BY <1>1
<1>8. \E g \in [0..n -> Seq(String)] :
        /\ g[0] = <<>> /\ g[n] = h[1..n]
        /\ \A k \in 0..(n - 1) : g[k + 1] = CleanStep[<<g[k], ts[k + 1]>>]
  <2>1. h[{}] = <<>>
    BY <1>5
  <2>2. \A k \in 0..(n - 1) : h[1..k] \in Seq(String) =>
          h[1..(k + 1)] = CleanStep[<<h[1..k], ts[k + 1]>>]
    BY <1>6, Zenon
  <2>3. Follows(h, Seq(String), <<>>, CleanStep, n, ts)
    BY <2>1, <2>2, Zenon DEF Follows
  <2>4. HasRun(Seq(String), <<>>, CleanStep, n, ts, h[1..n])
    BY <1>9, <2>3, FoldIsARun, Zenon
  <2> QED
    BY <2>4, Zenon DEF HasRun
<1> QED
  BY <1>2, <1>7, <1>8

LEMMA RangeOfAppend ==
  ASSUME NEW S, NEW l \in Seq(S), NEW x \in S
  PROVE  Range(Append(l, x)) = Range(l) \cup {x}
<1> DEFINE m == Append(l, x)
<1>1. /\ m \in Seq(S) /\ Len(m) = Len(l) + 1 /\ m[Len(l) + 1] = x
      /\ \A i \in 1..Len(l) : m[i] = l[i]
  BY AppendProperties
<1> HIDE DEF m
<1>2. /\ Len(l) \in Nat /\ DOMAIN l = 1..Len(l) /\ DOMAIN m = 1..(Len(l) + 1)
  BY <1>1, LenProperties
<1>3. Range(m) \in SUBSET (Range(l) \cup {x})
  BY <1>1, <1>2 DEF Range
<1>4. Range(l) \in SUBSET Range(m) /\ x \in Range(m)
  BY <1>1, <1>2 DEF Range
<1> QED
  BY <1>3, <1>4 DEF m

LEMMA CleanedTags ==
  ASSUME NEW ts \in Seq(String)
  PROVE  /\ Cleaned(ts) \in Seq(String \ {<<>>}) /\ Distinct(Cleaned(ts))
         /\ Range(Cleaned(ts)) = TrimmedTags(ts)
<1> DEFINE n == Len(ts)
<1>1. n \in Nat /\ DOMAIN ts = 1..n /\ ts \in [1..n -> String]
  BY LenProperties
<1>2. PICK g \in [0..n -> Seq(String)] :
        /\ g[0] = <<>> /\ g[n] = Cleaned(ts)
        /\ \A k \in 0..(n - 1) : g[k + 1] = CleanStep[<<g[k], ts[k + 1]>>]
  BY CleanedIsARun
<1> DEFINE Upto(k) == {TrimSpace(ts[i]) : i \in 1..k} \ {<<>>}
           T == {k \in Nat : k <= n => /\ Range(g[k]) = Upto(k)
                                       /\ Distinct(g[k])}
<1>3. 0 \in T
  <2>1. Range(<<>>) = {} /\ Upto(0) = {}
    BY DEF Range
  <2>2. Distinct(<<>>)
    BY DEF Distinct
  <2> QED
    BY <1>2, <2>1, <2>2
<1> HIDE DEF Upto
<1>4. ASSUME NEW k \in Nat, k \in T PROVE k + 1 \in T
  <2> SUFFICES ASSUME k + 1 <= n
               PROVE  Range(g[k + 1]) = Upto(k + 1) /\ Distinct(g[k + 1])
    OBVIOUS
  <2> DEFINE l == g[k]
             t == TrimSpace(ts[k + 1])
  <2>1. /\ k \in 0..(n - 1) /\ k + 1 \in 1..n /\ ts[k + 1] \in String /\ l \in Seq(String)
    BY <1>1, <1>2
  <2>2. t \in String
    BY <2>1, Trimmed
  <2>3. Range(l) = Upto(k) /\ Distinct(l)
    BY <1>4, <1>1
  <2>4. g[k + 1] = IF t \in Range(l) \cup {<<>>} THEN l ELSE Append(l, t)
    BY <1>2, <2>1 DEF CleanStep
  <2>5. Upto(k + 1) = (Upto(k) \cup {t}) \ {<<>>}
    <3>1. \A i \in 1..(k + 1) : i \in 1..k \/ i = k + 1
      OBVIOUS
    <3>2. \A i \in 1..k : i \in 1..(k + 1)
      OBVIOUS
    <3>3. k + 1 \in 1..(k + 1)
      OBVIOUS
    <3> QED
      BY <3>1, <3>2, <3>3 DEF Upto
  <2>6. <<>> \notin Upto(k)
    BY DEF Upto
  <2> HIDE DEF l, t
  <2>7. CASE t \in Range(l) \cup {<<>>}
    BY <2>3, <2>4, <2>5, <2>6, <2>7
  <2>8. CASE t \notin Range(l) \cup {<<>>}
    <3> DEFINE m == Append(l, t)
    <3>1. Range(m) = Range(l) \cup {t}
      BY <2>1, <2>2, RangeOfAppend
    <3>2. /\ Len(m) = Len(l) + 1 /\ m[Len(l) + 1] = t
          /\ \A i \in 1..Len(l) : m[i] = l[i]
      BY <2>1, <2>2, AppendProperties
    <3>3. Len(l) \in Nat /\ \A i \in 1..Len(l) : l[i] \in Range(l)
      BY <2>1, LenProperties DEF Range
    <3>4. g[k + 1] = m
      BY <2>4, <2>8
    <3> HIDE DEF m
    <3>5. Distinct(m)
      <4> SUFFICES ASSUME NEW i \in 1..Len(m), NEW j \in 1..Len(m), m[i] = m[j]
                   PROVE  i = j
        BY DEF Distinct
      <4>1. (i \in 1..Len(l) \/ i = Len(l) + 1) /\ (j \in 1..Len(l) \/ j = Len(l) + 1)
        BY <3>2, <3>3
      <4> QED
        BY <2>3, <2>8, <3>2, <3>3, <4>1 DEF Distinct
    <3> QED
      BY <2>3, <2>5, <2>6, <2>8, <3>1, <3>4, <3>5
  <2> QED
    BY <2>7, <2>8
<1>5. \A k \in Nat : k \in T
  <2> HIDE DEF T
  <2> QED
    BY <1>3, <1>4, Induction
<1>6. Range(Cleaned(ts)) = Upto(n) /\ Distinct(Cleaned(ts)) /\ Cleaned(ts) \in Seq(String)
  BY <1>1, <1>2, <1>5
<1>7. Upto(n) = TrimmedTags(ts)
  BY <1>1 DEF TrimmedTags, Range, Upto
<1>8. Cleaned(ts) \in Seq(String \ {<<>>})
  <2> DEFINE l == Cleaned(ts)
  <2>1. /\ Len(l) \in Nat /\ l \in [1..Len(l) -> String] /\ DOMAIN l = 1..Len(l)
    BY <1>6, LenProperties
  <2>2. \A i \in 1..Len(l) : l[i] # <<>>
    <3>1. <<>> \notin Upto(n)
      BY DEF Upto
    <3>2. \A i \in 1..Len(l) : l[i] \in Range(l)
      BY <2>1 DEF Range
    <3> QED
      BY <1>6, <3>1, <3>2
  <2> QED
    BY <1>6, <2>1, <2>2
<1> QED
  BY <1>6, <1>7, <1>8

-----------------------------------------------------------------------------
(* Joined: the strings of a list with commas between them.                 *)
JoinStep ==
  [p \in String \X String |->
     IF p[1] = <<>> THEN p[2] ELSE p[1] \o <<Comma>> \o p[2]]

LEMMA JoinStepType == JoinStep \in [String \X String -> String]
<1> SUFFICES ASSUME NEW s \in String, NEW t \in String
             PROVE  (IF s = <<>> THEN t ELSE s \o <<Comma>> \o t) \in String
  BY DEF JoinStep
<1> QED
  BY ChainIsLinked DEF Linked

LEMMA JoinedIsARun ==
  ASSUME NEW words \in Seq(String)
  PROVE  \E g \in [0..Len(words) -> String] :
           /\ g[0] = <<>> /\ g[Len(words)] = Joined(words)
           /\ \A k \in 0..(Len(words) - 1) : g[k + 1] = JoinStep[<<g[k], words[k + 1]>>]
<1> DEFINE n == Len(words)
           E(f) == [s \in SUBSET DOMAIN words |->
                      IF s = {} THEN <<>>
                      ELSE IF f[s \ {Max(s)}] = <<>> THEN words[Max(s)]
                           ELSE f[s \ {Max(s)}] \o <<Comma>> \o words[Max(s)]]
           h == CHOOSE f : f = E(f)
<1>1. n \in Nat /\ DOMAIN words = 1..n /\ words \in [1..n -> String]
  BY LenProperties
<1>2. Foldable(String, String, <<>>, JoinStep, n, words)
  <2>1. <<>> \in String
    BY DEF String
  <2> QED
    BY <1>1, <2>1, JoinStepType DEF Foldable
<1>3. Joined(words) = h[DOMAIN words]
  BY DEF Joined, FoldLeft, MapThenFoldSet
<1>4. \E f : f = E(f)
  <2>1. PICK f \in [SUBSET (1..n) -> String] : f = Steps(f, n, <<>>, JoinStep, words)
    <3>1. HasTable(String, <<>>, JoinStep, n, words)
      BY <1>2, FoldsExist, Zenon
    <3> QED
      BY <3>1 DEF HasTable
  <2>2. ASSUME NEW s \in SUBSET (1..n), s # {}
        PROVE  JoinStep[<<f[s \ {Max(s)}], words[Max(s)]>>] =
                 IF f[s \ {Max(s)}] = <<>> THEN words[Max(s)]
                 ELSE f[s \ {Max(s)}] \o <<Comma>> \o words[Max(s)]
    <3>1. Max(s) \in 1..n /\ s \ {Max(s)} \in SUBSET (1..n)
      BY <1>1, <2>2, LastPlace
    <3>2. f[s \ {Max(s)}] \in String /\ words[Max(s)] \in String
      BY <1>1, <3>1
    <3> QED
      BY <3>2 DEF JoinStep
  <2>3. f = E(f)
    BY <1>1, <2>1, <2>2 DEF Steps
  <2> QED
    BY <2>3
<1>5. h = E(h)
  BY <1>4
<1> HIDE DEF h
<1>6. /\ h[{}] = <<>>
      /\ \A s \in SUBSET (1..n) : s # {} =>
           h[s] = IF h[s \ {Max(s)}] = <<>> THEN words[Max(s)]
                  ELSE h[s \ {Max(s)}] \o <<Comma>> \o words[Max(s)]
  BY <1>1, <1>5
<1>7. ASSUME NEW k \in 0..(n - 1), h[1..k] \in String
      PROVE  h[1..(k + 1)] = JoinStep[<<h[1..k], words[k + 1]>>]
  <2>1. /\ 1..(k + 1) # {} /\ Max(1..(k + 1)) = k + 1 /\ (1..(k + 1)) \ {k + 1} = 1..k
    <3>1. k \in Nat
      BY <1>1
    <3> QED
      BY <3>1, LastOfInterval, Zenon
  <2>2. 1..(k + 1) \in SUBSET (1..n) /\ words[k + 1] \in String
    BY <1>1
  <2>3. h[1..(k + 1)] = IF h[1..k] = <<>> THEN words[k + 1]
                        ELSE h[1..k] \o <<Comma>> \o words[k + 1]
    <3> DEFINE P == 1..(k + 1)
    <3>1. P # {} /\ P \in SUBSET (1..n) /\ Max(P) = k + 1 /\ P \ {k + 1} = 1..k
      BY <2>1, <2>2
    <3> HIDE DEF P
    <3>2. h[P] = IF h[1..k] = <<>> THEN words[k + 1]
                 ELSE h[1..k] \o <<Comma>> \o words[k + 1]
      BY <1>6, <3>1
    <3> QED
      BY <3>2 DEF P
  <2> QED
    BY <1>7, <2>2, <2>3 DEF JoinStep
<1>8. Follows(h, String, <<>>, JoinStep, n, words)
  <2>1. \A k \in 0..(n - 1) : h[1..k] \in String =>
          h[1..(k + 1)] = JoinStep[<<h[1..k], words[k + 1]>>]
    BY <1>7, Zenon
  <2> QED
    BY <1>6, <2>1, Zenon DEF Follows
<1>9. HasRun(String, <<>>, JoinStep, n, words, h[1..n])
  BY <1>2, <1>8, FoldIsARun, Zenon
<1>10. h[DOMAIN words] = h[1..n]
  BY <1>1
<1> QED
  BY <1>3, <1>9, <1>10 DEF HasRun

(* The words and the bounded stretches of a string of one piece.           *)
LEMMA OneWord ==
  ASSUME NEW w \in String
  PROVE  /\ Bounded(w, w)
         /\ Whole(w) => Cardinality(Cuts(w)) = 2
<1>1. Len(w) \in Nat /\ DOMAIN w = 1..Len(w)
  BY Strings
<1>2. /\ 0 \in Cuts(w) /\ Len(w) + 1 \in Cuts(w)
      /\ Cuts(w) \in SUBSET (0..(Len(w) + 1))
      /\ \A i \in 1..Len(w) : i \in Cuts(w) <=> w[i] = Comma
  BY CutsAreFew
<1>3. Bounded(w, w)
  <2> DEFINE a == 0
             b == Len(w) + 1
  <2>1. SubSeq(w, a + 1, b - 1) = w
    <3>1. SubSeq(w, 1, Len(w)) = w
      BY SubSeqFull DEF String
    <3>2. a + 1 = 1 /\ b - 1 = Len(w)
      BY <1>1
    <3> HIDE DEF a, b
    <3> QED
      BY <3>1, <3>2
  <2>2. /\ a \in Int /\ b \in Int /\ 0 <= a /\ a < b /\ b <= Len(w) + 1
        /\ a \in Cuts(w) /\ b \in Cuts(w)
    BY <1>1, <1>2
  <2> HIDE DEF a, b
  <2> QED
    BY <2>1, <2>2 DEF Bounded
<1>4. ASSUME Whole(w) PROVE Cardinality(Cuts(w)) = 2
  <2> DEFINE Z == {0}
             e == Len(w) + 1
  <2>1. Cuts(w) = Z \cup {e}
    BY <1>1, <1>2, <1>4 DEF Whole
  <2>2. IsFiniteSet(Z) /\ Cardinality(Z) = 1
    BY FS_Singleton, Zenon
  <2>3. e \notin Z
    BY <1>1
  <2> HIDE DEF Z, e
  <2>4. Cardinality(Z \cup {e}) = Cardinality(Z) + 1
    BY <2>2, <2>3, FS_AddElement
  <2> QED
    BY <2>1, <2>2, <2>4
<1> QED
  BY <1>3, <1>4

(* What a column of the words holds.                                       *)
AllWhole(words) == \A i \in 1..Len(words) : Whole(words[i])

LEMMA JoinedWords ==
  ASSUME NEW words \in Seq(String \ {<<>>})
  PROVE  /\ Joined(words) \in String
         /\ Joined(words) = <<>> <=> Len(words) = 0
         /\ Tokens(Joined(words)) = UNION {Tokens(w) : w \in Range(words)}
         /\ \A w \in Range(words) : Bounded(Joined(words), w)
         /\ AllWhole(words) /\ Len(words) # 0 =>
              Cardinality(Cuts(Joined(words))) = Len(words) + 1
<1> DEFINE n == Len(words)
<1>1. n \in Nat /\ DOMAIN words = 1..n /\ words \in [1..n -> String \ {<<>>}]
  BY LenProperties
<1>2. words \in Seq(String)
  BY <1>1
<1>3. PICK g \in [0..n -> String] :
        /\ g[0] = <<>> /\ g[n] = Joined(words)
        /\ \A k \in 0..(n - 1) : g[k + 1] = JoinStep[<<g[k], words[k + 1]>>]
  BY <1>2, JoinedIsARun
<1> DEFINE Upto(k) == UNION {Tokens(words[i]) : i \in 1..k}
           Good(k) ==
             /\ g[k] = <<>> <=> k = 0
             /\ Tokens(g[k]) = Upto(k)
             /\ \A i \in 1..k : Bounded(g[k], words[i])
             /\ AllWhole(words) /\ k # 0 => Cardinality(Cuts(g[k])) = k + 1
           T == {k \in Nat : k <= n => Good(k)}
<1>4. Good(0)
  <2>1. Tokens(<<>>) = {} /\ Upto(0) = {}
    BY DEF Tokens
  <2> QED
    BY <1>3, <2>1
<1>5. ASSUME NEW k \in Nat, Good(k), k + 1 <= n PROVE Good(k + 1)
  <2> DEFINE s == g[k]
             w == words[k + 1]
             st == g[k + 1]
  <2>1. /\ k \in 0..(n - 1) /\ k + 1 \in 1..n /\ s \in String
        /\ w \in String \ {<<>>} /\ k + 1 # 0
    BY <1>1, <1>3, <1>5
  <2>2. st = IF s = <<>> THEN w ELSE s \o <<Comma>> \o w
    BY <1>3, <2>1 DEF JoinStep
  <2>3. Upto(k + 1) = Upto(k) \cup Tokens(w)
    <3>1. \A i \in 1..(k + 1) : i \in 1..k \/ i = k + 1
      OBVIOUS
    <3>2. \A i \in 1..k : i \in 1..(k + 1)
      OBVIOUS
    <3>3. k + 1 \in 1..(k + 1)
      OBVIOUS
    <3> QED
      BY <3>1, <3>2, <3>3
  <2>4. AllWhole(words) => Whole(w)
    BY <2>1 DEF AllWhole
  <2>5. \A i \in 1..k : words[i] \in String \ {<<>>}
    BY <1>1, <2>1
  <2>6. /\ s = <<>> <=> k = 0
        /\ Tokens(s) = Upto(k)
        /\ \A i \in 1..k : Bounded(s, words[i])
        /\ AllWhole(words) /\ k # 0 => Cardinality(Cuts(s)) = k + 1
    BY <1>5
  <2> HIDE DEF s, w, st, Upto
  <2>7. /\ st # <<>>
        /\ Tokens(st) = Upto(k + 1)
        /\ Bounded(st, w) /\ \A i \in 1..k : Bounded(st, words[i])
        /\ AllWhole(words) => Cardinality(Cuts(st)) = k + 2
    <3>1. CASE s = <<>>
      <4>1. st = w /\ k = 0
        BY <2>2, <2>6, <3>1
      <4>2. Tokens(s) = {}
        BY <3>1 DEF Tokens
      <4>3. Upto(k + 1) = Tokens(w)
        BY <2>3, <2>6, <4>2
      <4>4. Bounded(w, w) /\ (Whole(w) => Cardinality(Cuts(w)) = 2)
        BY <2>1, OneWord
      <4> QED
        BY <2>1, <2>4, <4>1, <4>3, <4>4
    <3>2. CASE s # <<>>
      <4>1. Linked(st, s, w)
        BY <2>1, <2>2, <3>2, ChainIsLinked
      <4>2. Tokens(st) = Tokens(s) \cup Tokens(w)
        BY <2>1, <4>1, LinkedTokens
      <4>3. Bounded(st, w) /\ \A v \in String \ {<<>>} : Bounded(s, v) => Bounded(st, v)
        BY <2>1, <4>1, LinkedBounds
      <4>4. Whole(w) => Cardinality(Cuts(st)) = Cardinality(Cuts(s)) + 1
        BY <2>1, <4>1, LinkedCuts
      <4>5. st # <<>>
        <5>1. Len(st) = Len(s) + 1 + Len(w) /\ Len(s) \in Nat /\ Len(w) \in Nat
          BY <2>1, <4>1, Strings DEF Linked
        <5> QED
          BY <5>1
      <4> QED
        BY <2>3, <2>4, <2>5, <2>6, <3>2, <4>2, <4>3, <4>4, <4>5
    <3> QED
      BY <3>1, <3>2
  <2>8. \A i \in 1..(k + 1) : Bounded(st, words[i])
    <3>1. \A i \in 1..(k + 1) : i \in 1..k \/ i = k + 1
      OBVIOUS
    <3> QED
      BY <2>7, <3>1 DEF w
  <2>9. AllWhole(words) => Cardinality(Cuts(st)) = (k + 1) + 1
    BY <2>7
  <2> QED
    BY <2>1, <2>7, <2>8, <2>9 DEF st
<1> HIDE DEF Good
<1>6. 0 \in T /\ \A k \in Nat : k \in T => k + 1 \in T
  <2>1. ASSUME NEW k \in Nat, k \in T, k + 1 <= n PROVE Good(k + 1)
    <3>1. k <= n
      BY <1>1, <2>1
    <3> QED
      BY <1>5, <2>1, <3>1
  <2> QED
    BY <1>4, <2>1
<1>7. \A k \in Nat : k \in T
  <2> HIDE DEF T
  <2> QED
    BY <1>6, Induction
<1>8. Good(n)
  BY <1>1, <1>7
<1>9. Upto(n) = UNION {Tokens(w) : w \in Range(words)}
  BY <1>1 DEF Range
<1>10. \A w \in Range(words) : \E i \in 1..n : w = words[i]
  BY <1>1 DEF Range
<1> QED
  BY <1>1, <1>3, <1>8, <1>9, <1>10 DEF Good

-----------------------------------------------------------------------------
(* The comparisons of LIKE, character by character.                        *)
LEMMA FoldedString ==
  ASSUME NEW s \in String
  PROVE  /\ Len(s) \in Nat /\ DOMAIN s = 1..Len(s)
         /\ DOMAIN Folded(s) = 1..Len(s) /\ Len(Folded(s)) = Len(s)
         /\ Folded(s) = [i \in 1..Len(s) |-> Upper[s[i]]]
         /\ \A i \in 1..Len(s) : Folded(s)[i] = Upper[s[i]]
<1>1. Len(s) \in Nat /\ DOMAIN s = 1..Len(s)
  BY Strings
<1>2. Folded(s) = [i \in 1..Len(s) |-> Upper[s[i]]]
  BY <1>1 DEF Folded
<1>3. Len([i \in 1..Len(s) |-> Upper[s[i]]]) = Len(s)
  BY <1>1
<1> QED
  BY <1>1, <1>2, <1>3

(* p stands in s after place i, up to case.                                *)
At(s, p, i) ==
  /\ i + Len(p) <= Len(s)
  /\ \A k \in 1..Len(p) : Upper[p[k]] = Upper[s[i + k]]

LEMMA PrefixIsAt ==
  ASSUME NEW s \in String, NEW p \in String
  PROVE  LikePrefix(s, p) <=> At(s, p, 0)
<1> DEFINE F == Folded(s)
           G == Folded(p)
           n == Len(p)
<1>1. /\ n \in Nat /\ Len(s) \in Nat /\ Len(F) = Len(s) /\ Len(G) = n
      /\ \A k \in 1..Len(s) : F[k] = Upper[s[k]]
      /\ \A k \in 1..n : G[k] = Upper[p[k]]
  BY FoldedString
<1> HIDE DEF F, G, n
<1>2. SubSeq(G, 1, n) = [k \in 1..n |-> G[k]] /\ SubSeq(F, 1, n) = [k \in 1..n |-> F[k]]
  BY <1>1
<1>3. SubSeq(G, 1, n) = SubSeq(F, 1, n) <=> \A k \in 1..n : G[k] = F[k]
  BY <1>2
<1>4. IsPrefix(G, F) <=> n <= Len(s) /\ \A k \in 1..n : G[k] = F[k]
  BY <1>1, <1>3 DEF IsPrefix
<1>5. n <= Len(s) => \A k \in 1..n : k \in 1..Len(s) /\ 0 + k = k
  BY <1>1
<1> QED
  BY <1>1, <1>4, <1>5 DEF LikePrefix, At, F, G, n

LEMMA SuffixIsAt ==
  ASSUME NEW s \in String, NEW p \in String
  PROVE  LikeSuffix(s, p) <=> Len(p) <= Len(s) /\ At(s, p, Len(s) - Len(p))
<1> DEFINE F == Folded(s)
           G == Folded(p)
           n == Len(p)
           m == Len(s)
           RF == Reverse(F)
           RG == Reverse(G)
<1>1. /\ n \in Nat /\ m \in Nat /\ Len(F) = m /\ Len(G) = n
      /\ \A k \in 1..m : F[k] = Upper[s[k]]
      /\ \A k \in 1..n : G[k] = Upper[p[k]]
  BY FoldedString
<1> HIDE DEF F, G, n, m
<1>2. /\ RF = [k \in 1..m |-> F[(m - k) + 1]] /\ RG = [k \in 1..n |-> G[(n - k) + 1]]
  BY <1>1 DEF Reverse
<1>3. Len(RF) = m /\ Len(RG) = n
  BY <1>1, <1>2
<1>4. /\ \A k \in 1..m : RF[k] = F[(m - k) + 1]
      /\ \A k \in 1..n : RG[k] = G[(n - k) + 1]
  BY <1>2
<1> HIDE DEF RF, RG
<1>5. SubSeq(RG, 1, n) = [k \in 1..n |-> RG[k]] /\ SubSeq(RF, 1, n) = [k \in 1..n |-> RF[k]]
  BY <1>1, <1>3
<1>6. SubSeq(RG, 1, n) = SubSeq(RF, 1, n) <=> \A k \in 1..n : RG[k] = RF[k]
  BY <1>5
<1>7. IsPrefix(RG, RF) <=> n <= m /\ \A k \in 1..n : RG[k] = RF[k]
  BY <1>3, <1>6 DEF IsPrefix
<1>8. ASSUME n <= m
      PROVE  (\A k \in 1..n : RG[k] = RF[k])
               <=> (\A k \in 1..n : Upper[p[k]] = Upper[s[m - n + k]])
  <2>1. \A k \in 1..n :
          /\ (n - k) + 1 \in 1..n /\ m - n + k \in 1..m /\ k \in 1..m
          /\ (m - k) + 1 = m - n + ((n - k) + 1)
          /\ (n - ((n - k) + 1)) + 1 = k
    BY <1>1, <1>8
  <2>2. \A k \in 1..n : (m - k) + 1 \in 1..m
    BY <1>1, <1>8
  <2>3. \A k \in 1..n :
          /\ RG[k] = Upper[p[(n - k) + 1]]
          /\ RF[k] = Upper[s[m - n + ((n - k) + 1)]]
    <3> TAKE k \in 1..n
    <3>1. RG[k] = G[(n - k) + 1] /\ RF[k] = F[(m - k) + 1]
      BY <1>4, <2>1
    <3>2. G[(n - k) + 1] = Upper[p[(n - k) + 1]] /\ F[(m - k) + 1] = Upper[s[(m - k) + 1]]
      BY <1>1, <2>1, <2>2
    <3>3. (m - k) + 1 = m - n + ((n - k) + 1)
      BY <2>1
    <3> QED
      BY <3>1, <3>2, <3>3
  <2>4. ASSUME \A k \in 1..n : RG[k] = RF[k], NEW k \in 1..n
        PROVE  Upper[p[k]] = Upper[s[m - n + k]]
    <3> DEFINE j == (n - k) + 1
    <3>1. j \in 1..n /\ (n - j) + 1 = k
      BY <2>1
    <3> HIDE DEF j
    <3>2. RG[j] = Upper[p[k]] /\ RF[j] = Upper[s[m - n + k]]
      BY <2>3, <3>1
    <3> QED
      BY <2>4, <3>1, <3>2
  <2>5. ASSUME \A k \in 1..n : Upper[p[k]] = Upper[s[m - n + k]], NEW k \in 1..n
        PROVE  RG[k] = RF[k]
    <3> DEFINE j == (n - k) + 1
    <3>1. j \in 1..n
      BY <2>1
    <3>2. RG[k] = Upper[p[j]] /\ RF[k] = Upper[s[m - n + j]]
      BY <2>3
    <3> HIDE DEF j
    <3> QED
      BY <2>5, <3>1, <3>2
  <2> QED
    BY <2>4, <2>5
<1>9. n <= m => (m - n) + n <= m
  BY <1>1
<1> QED
  BY <1>7, <1>8, <1>9 DEF LikeSuffix, IsSuffix, At, F, G, n, m, RF, RG

LEMMA InfixIsAt ==
  ASSUME NEW s \in String, NEW p \in String
  PROVE  LikeInfix(s, p) <=> \E i \in 0..(Len(s) - Len(p)) : At(s, p, i)
<1> DEFINE F == Folded(s)
           G == Folded(p)
           n == Len(p)
           m == Len(s)
<1>1. /\ n \in Nat /\ m \in Nat /\ Len(F) = m
      /\ G = [k \in 1..n |-> Upper[p[k]]]
      /\ \A k \in 1..m : F[k] = Upper[s[k]]
      /\ \A k \in 1..n : G[k] = Upper[p[k]]
  BY FoldedString
<1> HIDE DEF F, n, m
<1>2. ASSUME NEW i \in 0..(m - n)
      PROVE  SubSeq(F, i + 1, i + n) = G
               <=> \A k \in 1..n : Upper[p[k]] = Upper[s[i + k]]
  <2> DEFINE x == i + 1
             y == i + n
             u == SubSeq(F, x, y)
  <2>1. u = [k \in 1..(1 + y - x) |-> F[k + x - 1]]
    <3>1. x \in Int /\ y \in Int
      BY <1>1
    <3> HIDE DEF x, y
    <3> QED
      BY <3>1
  <2>2. 1 + y - x = n /\ \A k \in 1..n : k + x - 1 = i + k /\ i + k \in 1..m
    BY <1>1
  <2> HIDE DEF x, y
  <2>3. u = [k \in 1..n |-> Upper[s[i + k]]]
    <3>1. \A k \in 1..n : F[k + x - 1] = Upper[s[i + k]]
      BY <1>1, <2>2
    <3> QED
      BY <2>1, <2>2, <3>1
  <2> HIDE DEF u, G
  <2>4. u = G <=> \A k \in 1..n : Upper[p[k]] = Upper[s[i + k]]
    BY <1>1, <2>3
  <2> QED
    BY <2>4 DEF u, x, y
<1>3. \A i \in 0..(m - n) : i + n <= m
  BY <1>1
<1> HIDE DEF G
<1> QED
  BY <1>2, <1>3 DEF LikeInfix, At, F, G, n, m

(* The condition of ListTasks: the tag stands, up to case, in the column   *)
(* between two commas or ends.                                             *)
Carried(s, tag, i) ==
  /\ At(s, tag, i)
  /\ i = 0 \/ s[i] = Comma
  /\ i + Len(tag) = Len(s) \/ s[i + Len(tag) + 1] = Comma

LEMMA CommaEnds ==
  ASSUME NEW t \in String
  PROVE  LET c == <<Comma>> IN
         /\ t \o c \in String /\ Len(t \o c) = Len(t) + 1
         /\ \A k \in 1..Len(t) : (t \o c)[k] = t[k]
         /\ (t \o c)[Len(t) + 1] = Comma
         /\ c \o t \in String /\ Len(c \o t) = Len(t) + 1
         /\ \A k \in 1..Len(t) : (c \o t)[1 + k] = t[k]
         /\ (c \o t)[1] = Comma
<1> DEFINE c == <<Comma>>
           p == t \o c
           q == c \o t
<1>1. c \in String /\ Len(c) = 1 /\ c[1] = Comma /\ Len(t) \in Nat
  BY TagsAssumption, Strings DEF String
<1> HIDE DEF c
<1>2. /\ p \in String /\ Len(p) = Len(t) + Len(c)
      /\ \A i \in 1..Len(t) : p[i] = t[i]
      /\ \A i \in 1..Len(c) : p[Len(t) + i] = c[i]
  BY <1>1, Chained
<1>3. /\ q \in String /\ Len(q) = Len(c) + Len(t)
      /\ \A i \in 1..Len(c) : q[i] = c[i]
      /\ \A i \in 1..Len(t) : q[Len(c) + i] = t[i]
  BY <1>1, Chained
<1> HIDE DEF p, q
<1>4. 1 \in 1..Len(c)
  BY <1>1
<1>5. /\ p \in String /\ Len(p) = Len(t) + 1 /\ p[Len(t) + 1] = Comma
      /\ q \in String /\ Len(q) = Len(t) + 1 /\ q[1] = Comma
      /\ \A k \in 1..Len(t) : q[1 + k] = t[k]
  BY <1>1, <1>2, <1>3, <1>4
<1> QED
  BY <1>2, <1>5 DEF p, q, c

LEMMA UpperComma ==
  ASSUME NEW s \in String, NEW i \in 1..Len(s)
  PROVE  Upper[s[i]] = Upper[Comma] <=> s[i] = Comma
<1>1. s[i] \in DOMAIN Upper /\ Comma \in DOMAIN Upper
  BY Strings, TagsAssumption DEF Char
<1> QED
  BY <1>1, TagsAssumption

LEMMA BoundedIsFound ==
  ASSUME NEW s \in String, NEW tag \in String \ {<<>>}, Bounded(s, tag)
  PROVE  HasTag(s, tag)
<1>1. PICK a, b \in Int : /\ 0 <= a /\ a < b /\ b <= Len(s) + 1
                          /\ a \in Cuts(s) /\ b \in Cuts(s)
                          /\ tag = SubSeq(s, a + 1, b - 1)
  BY DEF Bounded
<1> DEFINE n == Len(tag)
           m == Len(s)
<1>2. m \in Nat /\ n \in Nat
  BY Strings
<1>3. n = b - a - 1 /\ \A k \in 1..n : tag[k] = s[a + k]
  <2> DEFINE x == a + 1
             y == b - 1
  <2>1. x \in 1..(Len(s) + 1) /\ y \in 0..Len(s) /\ (x <= y \/ b - a - 1 = 0)
    BY <1>1, <1>2
  <2>2. y - x + 1 = b - a - 1 /\ \A k \in 1..(b - a - 1) : x + k - 1 = a + k
    OBVIOUS
  <2>3. b - a - 1 >= 0 /\ (x <= y => y - x + 1 = b - a - 1)
    BY <1>1
  <2>4. ~(x <= y) => b - a - 1 = 0
    BY <2>1
  <2> HIDE DEF x, y, n
  <2>5. tag = SubSeq(s, x, y)
    BY <1>1 DEF x, y
  <2>6. Len(tag) = IF x <= y THEN y - x + 1 ELSE 0
    BY <2>1, <2>5, Substring
  <2>7. \A k \in 1..(y - x + 1) : tag[k] = s[x + k - 1]
    BY <2>1, <2>5, Substring
  <2>8. Len(tag) = b - a - 1
    BY <2>2, <2>4, <2>6
  <2> QED
    BY <2>2, <2>7, <2>8 DEF n
<1>4. (a = 0 \/ (a \in 1..m /\ s[a] = Comma)) /\ (b = m + 1 \/ (b \in 1..m /\ s[b] = Comma))
  <2>1. (a = 0 \/ a \in 1..m) /\ (b = m + 1 \/ b \in 1..m)
    BY <1>1, <1>2
  <2> QED
    BY <1>1, <2>1, CutsAreFew
<1> HIDE DEF n, m
<1>5. CASE a = 0 /\ b = m + 1
  <2>1. n = m /\ \A k \in 1..n : tag[k] = s[k]
    BY <1>2, <1>3, <1>5
  <2>2. tag = s
    BY <2>1, SameString DEF n, m
  <2> QED
    BY <2>2 DEF HasTag
<1>6. CASE a = 0 /\ b \in 1..m /\ s[b] = Comma
  <2> DEFINE p == tag \o <<Comma>>
  <2>1. /\ p \in String /\ Len(p) = n + 1 /\ p[n + 1] = Comma
        /\ \A k \in 1..n : p[k] = tag[k]
    BY CommaEnds DEF n
  <2> HIDE DEF p
  <2>2. \A k \in 1..(n + 1) : p[k] = s[0 + k]
    <3> TAKE k \in 1..(n + 1)
    <3>1. CASE k \in 1..n
      <4>1. a + k = 0 + k
        BY <1>6
      <4> QED
        BY <1>3, <2>1, <3>1, <4>1
    <3>2. CASE k = n + 1
      BY <1>2, <1>3, <1>6, <2>1, <3>2
    <3> QED
      BY <1>2, <3>1, <3>2
  <2>3. At(s, p, 0)
    BY <1>2, <1>3, <1>6, <2>1, <2>2 DEF At, m
  <2>4. LikePrefix(s, p)
    BY <2>1, <2>3, PrefixIsAt
  <2> QED
    BY <2>4 DEF HasTag, p
<1>7. CASE a \in 1..m /\ s[a] = Comma /\ b = m + 1
  <2> DEFINE p == <<Comma>> \o tag
  <2>1. /\ p \in String /\ Len(p) = n + 1 /\ p[1] = Comma
        /\ \A k \in 1..n : p[1 + k] = tag[k]
    BY CommaEnds DEF n
  <2> HIDE DEF p
  <2>2. m - (n + 1) = a - 1 /\ n + 1 <= m
    BY <1>2, <1>3, <1>7
  <2>3. \A k \in 1..(n + 1) : p[k] = s[(a - 1) + k]
    <3> TAKE k \in 1..(n + 1)
    <3>1. CASE k = 1
      BY <1>7, <2>1, <3>1
    <3>2. CASE k \in 2..(n + 1)
      <4> DEFINE j == k - 1
      <4>1. j \in 1..n /\ 1 + j = k /\ (a - 1) + k = a + j
        BY <1>2, <3>2
      <4> HIDE DEF j
      <4> QED
        BY <1>3, <2>1, <4>1
    <3> QED
      BY <1>2, <3>1, <3>2
  <2>4. At(s, p, m - (n + 1))
    <3>1. At(s, p, a - 1)
      BY <1>2, <2>1, <2>2, <2>3 DEF At, m
    <3> QED
      BY <2>2, <3>1
  <2>5. LikeSuffix(s, p)
    BY <2>1, <2>2, <2>4, SuffixIsAt DEF m
  <2> QED
    BY <2>5 DEF HasTag, p
<1>8. CASE a \in 1..m /\ s[a] = Comma /\ b \in 1..m /\ s[b] = Comma
  <2> DEFINE q == <<Comma>> \o tag
             p == q \o <<Comma>>
  <2>1. /\ q \in String /\ Len(q) = n + 1 /\ q[1] = Comma
        /\ \A k \in 1..n : q[1 + k] = tag[k]
    BY CommaEnds DEF n
  <2> HIDE DEF q
  <2>2. /\ p \in String /\ Len(p) = (n + 1) + 1 /\ p[(n + 1) + 1] = Comma
        /\ \A k \in 1..(n + 1) : p[k] = q[k]
    BY <2>1, CommaEnds
  <2> HIDE DEF p
  <2>3. Len(p) = n + 2 /\ p[n + 2] = Comma
    BY <1>2, <2>2
  <2>4. \A k \in 1..(n + 2) : p[k] = s[(a - 1) + k]
    <3> TAKE k \in 1..(n + 2)
    <3>1. CASE k = 1
      <4>1. p[1] = q[1]
        BY <1>2, <2>2
      <4> QED
        BY <1>8, <2>1, <3>1, <4>1
    <3>2. CASE k \in 2..(n + 1)
      <4> DEFINE j == k - 1
      <4>1. j \in 1..n /\ 1 + j = k /\ (a - 1) + k = a + j /\ k \in 1..(n + 1)
        BY <1>2, <3>2
      <4> HIDE DEF j
      <4> QED
        BY <1>3, <2>1, <2>2, <4>1
    <3>3. CASE k = n + 2
      <4>1. (a - 1) + k = b
        BY <1>2, <1>3, <3>3
      <4> QED
        BY <1>8, <2>3, <3>3, <4>1
    <3> QED
      BY <1>2, <3>1, <3>2, <3>3
  <2>5. a - 1 \in 0..(m - (n + 2)) /\ (a - 1) + (n + 2) <= m
    BY <1>2, <1>3, <1>8
  <2>6. At(s, p, a - 1)
    BY <2>3, <2>4, <2>5 DEF At, m
  <2>7. LikeInfix(s, p)
    BY <2>2, <2>3, <2>5, <2>6, InfixIsAt DEF m
  <2> QED
    BY <2>7 DEF HasTag, p, q
<1> QED
  BY <1>4, <1>5, <1>6, <1>7, <1>8

LEMMA FoundIsCarried ==
  ASSUME NEW s \in String, NEW tag \in String, HasTag(s, tag)
  PROVE  \E i \in Nat : Carried(s, tag, i)
<1> DEFINE n == Len(tag)
           m == Len(s)
<1>1. m \in Nat /\ n \in Nat
  BY Strings
<1>2. CASE s = tag
  <2>1. At(s, tag, 0) /\ 0 + n = m
    BY <1>1, <1>2 DEF At
  <2> QED
    BY <2>1 DEF Carried
<1>3. CASE LikePrefix(s, tag \o <<Comma>>)
  <2> DEFINE p == tag \o <<Comma>>
  <2>1. /\ p \in String /\ Len(p) = n + 1 /\ p[n + 1] = Comma
        /\ \A k \in 1..n : p[k] = tag[k]
    BY CommaEnds
  <2> HIDE DEF p, n, m
  <2>2. At(s, p, 0)
    BY <1>3, <2>1, PrefixIsAt DEF p
  <2>3. n + 1 <= m /\ \A k \in 1..(n + 1) : Upper[p[k]] = Upper[s[0 + k]]
    BY <1>1, <2>1, <2>2 DEF At, m
  <2>4. \A k \in 1..n : k \in 1..(n + 1) /\ Upper[tag[k]] = Upper[s[0 + k]]
    BY <1>1, <2>1, <2>3
  <2>5. n + 1 \in 1..m /\ n + 1 \in 1..(n + 1) /\ 0 + (n + 1) = n + 1 /\ 0 + n + 1 = n + 1
    BY <1>1, <2>3
  <2>6. s[n + 1] = Comma
    <3>1. Upper[s[n + 1]] = Upper[Comma]
      BY <2>1, <2>3, <2>5
    <3> QED
      BY <2>5, <3>1, UpperComma DEF m
  <2>7. At(s, tag, 0)
    BY <1>1, <2>3, <2>4 DEF At, n, m
  <2> QED
    BY <2>5, <2>6, <2>7 DEF Carried, n
<1>4. CASE LikeSuffix(s, <<Comma>> \o tag)
  <2> DEFINE p == <<Comma>> \o tag
  <2>1. /\ p \in String /\ Len(p) = n + 1 /\ p[1] = Comma
        /\ \A k \in 1..n : p[1 + k] = tag[k]
    BY CommaEnds
  <2> HIDE DEF p, n, m
  <2> DEFINE i == m - (n + 1)
  <2>2. n + 1 <= m /\ At(s, p, i)
    BY <1>4, <2>1, SuffixIsAt DEF p, m
  <2>3. i \in Nat /\ i + 1 \in 1..m /\ (i + 1) + n = m
    BY <1>1, <2>2
  <2>4. \A k \in 1..(n + 1) : Upper[p[k]] = Upper[s[i + k]]
    BY <2>1, <2>2 DEF At
  <2> HIDE DEF i
  <2>5. \A k \in 1..n : 1 + k \in 1..(n + 1) /\ i + (1 + k) = (i + 1) + k
    BY <1>1, <2>3
  <2>6. \A k \in 1..n : Upper[tag[k]] = Upper[s[(i + 1) + k]]
    BY <2>1, <2>4, <2>5
  <2>7. s[i + 1] = Comma
    <3>1. 1 \in 1..(n + 1)
      BY <1>1
    <3>2. Upper[s[i + 1]] = Upper[Comma]
      BY <2>1, <2>4, <3>1
    <3> QED
      BY <2>3, <3>2, UpperComma DEF m
  <2>8. At(s, tag, i + 1)
    <3>1. (i + 1) + n <= m
      BY <1>1, <2>3
    <3> QED
      BY <2>6, <3>1 DEF At, n, m
  <2> QED
    BY <2>3, <2>7, <2>8 DEF Carried, n, m
<1>5. CASE LikeInfix(s, <<Comma>> \o tag \o <<Comma>>)
  <2> DEFINE q == <<Comma>> \o tag
             p == q \o <<Comma>>
  <2>1. /\ q \in String /\ Len(q) = n + 1 /\ q[1] = Comma
        /\ \A k \in 1..n : q[1 + k] = tag[k]
    BY CommaEnds
  <2> HIDE DEF q, n, m
  <2>2. /\ p \in String /\ Len(p) = (n + 1) + 1 /\ p[(n + 1) + 1] = Comma
        /\ \A k \in 1..(n + 1) : p[k] = q[k]
    BY <2>1, CommaEnds
  <2> HIDE DEF p
  <2>3. Len(p) = n + 2 /\ p[n + 2] = Comma
    BY <1>1, <2>2
  <2>4. PICK i \in 0..(m - (n + 2)) : At(s, p, i)
    BY <1>5, <2>2, <2>3, InfixIsAt DEF p, q, m
  <2>5. /\ i \in Nat /\ i + 1 \in 1..m /\ (i + 1) + n <= m
        /\ i + n + 2 \in 1..m /\ i + (n + 2) = i + n + 2 /\ (i + 1) + n + 1 = i + n + 2
    BY <1>1, <2>4
  <2>6. \A k \in 1..(n + 2) : Upper[p[k]] = Upper[s[i + k]]
    BY <2>3, <2>4 DEF At
  <2>7. /\ \A k \in 1..n : /\ 1 + k \in 1..(n + 1) /\ 1 + k \in 1..(n + 2)
                           /\ i + (1 + k) = (i + 1) + k
        /\ 1 \in 1..(n + 1) /\ 1 \in 1..(n + 2) /\ n + 2 \in 1..(n + 2)
    BY <1>1, <2>5
  <2>8. \A k \in 1..n : Upper[tag[k]] = Upper[s[(i + 1) + k]]
    BY <2>1, <2>2, <2>6, <2>7
  <2>9. s[i + 1] = Comma /\ s[i + n + 2] = Comma
    <3>1. Upper[s[i + 1]] = Upper[Comma]
      BY <2>1, <2>2, <2>6, <2>7
    <3>2. Upper[s[i + n + 2]] = Upper[Comma]
      BY <2>3, <2>5, <2>6, <2>7
    <3> QED
      BY <2>5, <3>1, <3>2, UpperComma DEF m
  <2>10. At(s, tag, i + 1)
    BY <2>5, <2>8 DEF At, n, m
  <2> QED
    BY <2>5, <2>9, <2>10 DEF Carried, n, m
<1> QED
  BY <1>2, <1>3, <1>4, <1>5 DEF HasTag

(* A tag without a comma that is carried is a piece of the column.         *)
LEMMA CarriedIsPiece ==
  ASSUME NEW s \in String, NEW tag \in String, Whole(tag), tag # <<>>,
         NEW i \in Nat, Carried(s, tag, i)
  PROVE  \E w \in Range(Split(s)) : Folded(w) = Folded(tag)
<1> DEFINE n == Len(tag)
           m == Len(s)
           b == i + n + 1
<1>1. m \in Nat /\ n \in Nat
  BY Strings
<1>2. /\ i + n <= m /\ \A k \in 1..n : Upper[tag[k]] = Upper[s[i + k]]
      /\ i = 0 \/ s[i] = Comma
      /\ i + n = m \/ s[b] = Comma
  BY DEF Carried, At
<1>3. i \in Int /\ b \in Int /\ i < b /\ b <= m + 1 /\ b - i - 1 = n
  BY <1>1, <1>2
<1>4. i \in Cuts(s) /\ b \in Cuts(s)
  <2>0. i + n <= m
    BY <1>2
  <2>1. (i = 0 \/ i \in 1..m) /\ (b = m + 1 \/ b \in 1..m)
    BY <1>1, <2>0
  <2>2. b \in 1..m => i + n # m
    BY <1>1
  <2> HIDE DEF b
  <2> QED
    BY <1>2, <2>1, <2>2, CutsAreFew
<1>5. ASSUME NEW c \in Cuts(s), i < c, c < b PROVE FALSE
  <2> DEFINE k == c - i
  <2>1. c \in 1..m /\ k \in 1..n /\ i + k = c
    <3>1. c \in 0..(m + 1)
      BY CutsAreFew
    <3> QED
      BY <1>1, <1>2, <1>5, <3>1
  <2> HIDE DEF k
  <2>2. s[c] = Comma
    BY <2>1, CutsAreFew
  <2>3. Upper[tag[k]] = Upper[Comma]
    BY <1>2, <2>1, <2>2
  <2>4. tag[k] = Comma
    BY <2>1, <2>3, UpperComma
  <2> QED
    BY <2>1, <2>4 DEF Whole
<1>6. Adjacent(s, i, b)
  BY <1>3, <1>4, <1>5 DEF Adjacent
<1> DEFINE w == SubSeq(s, i + 1, b - 1)
<1>7. w \in Range(Split(s))
  BY <1>3, <1>6, Pieces
<1>8. w \in String /\ Len(w) = b - i - 1 /\ \A k \in 1..(b - i - 1) : w[k] = s[i + k]
  BY <1>3, <1>6, PieceAt
<1> HIDE DEF w, b, n
<1>9. \A k \in 1..n : w[k] = s[i + k] /\ Upper[tag[k]] = Upper[w[k]]
  BY <1>2, <1>3, <1>8
<1>10. Folded(w) = [k \in 1..n |-> Upper[w[k]]]
  BY <1>3, <1>8, FoldedString
<1>11. Folded(tag) = [k \in 1..n |-> Upper[tag[k]]]
  BY FoldedString DEF n
<1>12. Folded(w) = Folded(tag)
  BY <1>9, <1>10, <1>11
<1> QED
  BY <1>7, <1>12

-----------------------------------------------------------------------------
(* What is trimmed is trimmed once and for all.                            *)
LEMMA TrimmedTwice ==
  ASSUME NEW s \in String
  PROVE  TrimSpace(TrimSpace(s)) = TrimSpace(s)
<1> DEFINE t == TrimSpace(s)
<1>1. Len(s) \in Nat /\ t \in String /\ Len(t) \in Nat
  BY Trimmed, Strings
<1>2. CASE t = <<>>
  <2>1. Len(t) = 0
    BY <1>2
  <2>2. \A k \in 1..Len(t) : t[k] = Space
    BY <2>1
  <2>3. TrimSpace(t) = <<>>
    BY <1>1, <2>2, Trimmed
  <2> QED
    BY <1>2, <2>3
<1>3. CASE t # <<>>
  <2>1. PICK p, q \in 1..Len(s) : Outside(s, p, q) /\ t = SubSeq(s, p, q)
    BY <1>3, Trimmed
  <2>2. p <= q /\ p \in 1..Len(s) /\ q \in 1..Len(s) /\ s[p] # Space /\ s[q] # Space
    BY <2>1 DEF Outside
  <2>3. Len(SubSeq(s, p, q)) = q - p + 1
        /\ \A k \in 1..(q - p + 1) : SubSeq(s, p, q)[k] = s[p + k - 1]
    BY <1>1, <2>2
  <2>4. Len(t) = q - p + 1 /\ \A k \in 1..(q - p + 1) : t[k] = s[p + k - 1]
    BY <2>1, <2>3
  <2> HIDE DEF t
  <2>5. 1 \in 1..(q - p + 1) /\ q - p + 1 \in 1..(q - p + 1)
        /\ p + 1 - 1 = p /\ p + (q - p + 1) - 1 = q
    BY <1>1, <2>2
  <2>6. t[1] = s[p] /\ t[q - p + 1] = s[q]
    BY <2>4, <2>5
  <2>7. 1 \in 1..Len(t) /\ Len(t) \in 1..Len(t) /\ 1 <= Len(t)
        /\ \A k \in 1..Len(t) : 1 <= k /\ k <= Len(t)
    BY <1>1, <2>4, <2>5
  <2>8. Outside(t, 1, Len(t))
    BY <2>2, <2>4, <2>6, <2>7 DEF Outside
  <2>9. TrimSpace(t) = SubSeq(t, 1, Len(t))
    BY <1>1, <2>8, OutsideIsTrimmed
  <2>10. SubSeq(t, 1, Len(t)) = t
    <3>1. Len(SubSeq(t, 1, Len(t))) = Len(t) /\ SubSeq(t, 1, Len(t)) \in String
          /\ \A k \in 1..Len(t) : SubSeq(t, 1, Len(t))[k] = t[k]
      BY <1>1, <2>7, Substring
    <3> QED
      BY <1>1, <3>1, SameString
  <2> QED
    BY <2>9, <2>10 DEF t
<1> QED
  BY <1>2, <1>3

LEMMA InRange ==
  ASSUME NEW S, NEW ts \in Seq(S)
  PROVE  /\ Len(ts) \in Nat /\ DOMAIN ts = 1..Len(ts)
         /\ \A t \in Range(ts) : t \in S /\ \E i \in 1..Len(ts) : ts[i] = t
         /\ \A i \in 1..Len(ts) : ts[i] \in Range(ts) /\ ts[i] \in S
<1>1. Len(ts) \in Nat /\ DOMAIN ts = 1..Len(ts) /\ ts \in [1..Len(ts) -> S]
  BY LenProperties
<1> QED
  BY <1>1 DEF Range

(* Words: those of the tags, each taken by itself.                         *)
LEMMA GivenWords ==
  ASSUME NEW ts \in Seq(String)
  PROVE  Words(ts) = UNION {Tokens(t) : t \in Range(ts)}
<1>1. \A t \in Range(ts) : t \in String
  BY InRange
<1>2. \A t \in Range(ts) : Tokens(t) = {TrimSpace(w) : w \in Range(Split(t))} \ {<<>>}
  BY <1>1, PiecesAreTokens DEF TrimmedPieces
<1>3. ASSUME NEW v \in Words(ts) PROVE v \in UNION {Tokens(t) : t \in Range(ts)}
  <2>1. PICK t \in Range(ts) : \E w \in Range(Split(t)) : v = TrimSpace(w) /\ v # <<>>
    BY DEF Words
  <2>2. v \in Tokens(t)
    BY <1>2, <2>1
  <2> QED
    BY <2>2
<1>4. ASSUME NEW v \in UNION {Tokens(t) : t \in Range(ts)} PROVE v \in Words(ts)
  <2>1. PICK t \in Range(ts) : v \in Tokens(t)
    BY <1>4
  <2>2. PICK w \in Range(Split(t)) : v = TrimSpace(w) /\ v # <<>>
    BY <1>2, <2>1
  <2> QED
    BY <2>1, <2>2 DEF Words
<1> QED
  BY <1>3, <1>4

LEMMA WholePieces ==
  ASSUME NEW s \in String
  PROVE  /\ \A w \in Range(Split(s)) : w \in String /\ Whole(w)
         /\ \A w \in Tokens(s) : w \in String \ {<<>>} /\ Whole(w) /\ TrimSpace(w) = w
<1>1. ASSUME NEW w \in Range(Split(s)) PROVE w \in String /\ Whole(w)
  <2>1. PICK a, b \in Int : Adjacent(s, a, b) /\ w = SubSeq(s, a + 1, b - 1)
    BY <1>1, Pieces
  <2>2. /\ 0 <= a /\ b <= Len(s) + 1 /\ a < b /\ w \in String /\ Len(w) = b - a - 1
        /\ \A i \in 1..(b - a - 1) : w[i] = s[a + i]
        /\ \A i \in 1..Len(s) : a < i /\ i < b => s[i] # Comma
    BY <2>1, PieceAt
  <2>3. Len(s) \in Nat
    BY Strings
  <2> HIDE <2>1
  <2>4. \A i \in 1..Len(w) : w[i] # Comma
    <3> TAKE i \in 1..Len(w)
    <3>1. i \in 1..(b - a - 1) /\ a + i \in 1..Len(s) /\ a < a + i /\ a + i < b
      BY <2>2, <2>3
    <3> QED
      BY <2>2, <3>1
  <2> QED
    BY <2>2, <2>4 DEF Whole
<1>2. ASSUME NEW w \in Tokens(s)
      PROVE  w \in String \ {<<>>} /\ Whole(w) /\ TrimSpace(w) = w
  <2>1. w \in TrimmedPieces(s)
    BY PiecesAreTokens
  <2>2. PICK v \in Range(Split(s)) : w = TrimSpace(v) /\ w # <<>>
    BY <2>1 DEF TrimmedPieces
  <2>3. v \in String /\ Whole(v)
    BY <1>1
  <2>4. w \in String /\ TrimSpace(w) = w
    BY <2>2, <2>3, Trimmed, TrimmedTwice
  <2>5. PICK i \in 1..Len(s) : \E j \in i..Len(s) : Token(s, i, j) /\ w = SubSeq(s, i, j)
    BY DEF Tokens
  <2>6. PICK j \in i..Len(s) : Token(s, i, j) /\ w = SubSeq(s, i, j)
    BY <2>5
  <2>7. \A k \in i..j : s[k] # Comma
    BY <2>6 DEF Token
  <2>8. Len(s) \in Nat /\ i \in Int /\ j \in Int /\ i <= j /\ j <= Len(s)
        /\ i \in 1..(Len(s) + 1) /\ j \in 0..Len(s)
    BY Strings
  <2>9. /\ Len(SubSeq(s, i, j)) = j - i + 1
        /\ \A k \in 1..(j - i + 1) : SubSeq(s, i, j)[k] = s[i + k - 1]
    BY <2>8, Substring
  <2>10. Len(w) = j - i + 1 /\ \A k \in 1..(j - i + 1) : w[k] = s[i + k - 1]
    BY <2>6, <2>9
  <2> HIDE <2>6, <2>5
  <2>11. \A k \in 1..Len(w) : w[k] # Comma
    <3> TAKE k \in 1..Len(w)
    <3>1. k \in 1..(j - i + 1) /\ i + k - 1 \in i..j
      BY <2>8, <2>10
    <3> QED
      BY <2>7, <2>10, <3>1
  <2> QED
    BY <2>2, <2>4, <2>11 DEF Whole
<1> QED
  BY <1>1, <1>2

(* Blanks have no words: trimming the tags and leaving out those that are  *)
(* blank loses none.                                                       *)
LEMMA NoWords == Tokens(<<>>) = {}
<1>1. Len(<<>>) = 0 /\ ~ \E i \in 1..0 : TRUE
  OBVIOUS
<1> QED
  BY <1>1 DEF Tokens

LEMMA TrimmedTagsKeepWords ==
  ASSUME NEW ts \in Seq(String)
  PROVE  /\ TrimmedTags(ts) \subseteq String \ {<<>>}
         /\ UNION {Tokens(w) : w \in TrimmedTags(ts)} = Words(ts)
<1>1. \A t \in Range(ts) : /\ t \in String /\ TrimSpace(t) \in String
                           /\ Tokens(TrimSpace(t)) = Tokens(t)
  BY InRange, Trimmed, TrimmingKeepsTokens
<1>2. TrimmedTags(ts) \subseteq String \ {<<>>}
  BY <1>1 DEF TrimmedTags
<1>3. ASSUME NEW v \in UNION {Tokens(w) : w \in TrimmedTags(ts)}
      PROVE  v \in UNION {Tokens(t) : t \in Range(ts)}
  <2>1. PICK w \in TrimmedTags(ts) : v \in Tokens(w)
    BY <1>3
  <2>2. PICK t \in Range(ts) : w = TrimSpace(t)
    BY DEF TrimmedTags
  <2> QED
    BY <1>1, <2>1, <2>2
<1>4. ASSUME NEW v \in UNION {Tokens(t) : t \in Range(ts)}
      PROVE  v \in UNION {Tokens(w) : w \in TrimmedTags(ts)}
  <2>1. PICK t \in Range(ts) : v \in Tokens(t)
    BY <1>4
  <2>2. v \in Tokens(TrimSpace(t))
    BY <1>1, <2>1
  <2>3. TrimSpace(t) # <<>>
    BY <2>2, NoWords
  <2>4. TrimSpace(t) \in TrimmedTags(ts)
    BY <2>3 DEF TrimmedTags
  <2> QED
    BY <2>2, <2>4
<1>5. Words(ts) = UNION {Tokens(t) : t \in Range(ts)}
  BY GivenWords
<1>6. UNION {Tokens(w) : w \in TrimmedTags(ts)} = UNION {Tokens(t) : t \in Range(ts)}
  BY <1>3, <1>4
<1> QED
  BY <1>2, <1>5, <1>6

(* The tags of a task as it is read carry the words of its column.         *)
LEMMA ReadWords ==
  ASSUME NEW s \in String
  PROVE  /\ Read(s) \in Seq(String)
         /\ TrimmedTags(Read(s)) = Tokens(s)
         /\ Words(Read(s)) = Tokens(s)
<1>1. CASE s = <<>>
  <2>1. Read(s) = <<>> /\ Range(Read(s)) = {}
    BY <1>1 DEF Read, Range
  <2>2. TrimmedTags(Read(s)) = {} /\ Words(Read(s)) = {}
    BY <2>1 DEF TrimmedTags, Words
  <2>3. Read(s) \in Seq(String)
    BY <2>1
  <2> QED
    BY <1>1, <2>2, <2>3, NoWords
<1>2. CASE s # <<>>
  <2>1. Read(s) = Split(s) /\ Split(s) \in Seq(String)
    BY <1>2, Pieces DEF Read
  <2>2. TrimmedTags(Split(s)) = Tokens(s)
    BY PiecesAreTokens DEF TrimmedTags, TrimmedPieces
  <2>3. UNION {Tokens(w) : w \in TrimmedTags(Split(s))} = Words(Split(s))
    BY <2>1, TrimmedTagsKeepWords
  <2>4. \A w \in Tokens(s) : Tokens(w) = {w}
    <3> TAKE w \in Tokens(s)
    <3>1. w \in String \ {<<>>} /\ Whole(w) /\ TrimSpace(w) = w
      BY WholePieces
    <3>2. Tokens(w) = {TrimSpace(w)} \ {<<>>}
      BY <3>1, WholeToken
    <3> QED
      BY <3>1, <3>2
  <2>5. UNION {Tokens(w) : w \in Tokens(s)} = Tokens(s)
    BY <2>4
  <2> QED
    BY <2>1, <2>2, <2>3, <2>5
<1> QED
  BY <1>1, <1>2

(* What the column of a row is made of, and what it has kept: the words    *)
(* that are joined in it are the trimmed tags as they were given, or after *)
(* a rewrite single words without commas.                                  *)
Made(words, row) ==
  /\ words \in Seq(String \ {<<>>}) /\ Distinct(words)
  /\ row.column = Joined(words)
  /\ row.rewritten => AllWhole(words) /\ Range(words) = Words(row.given)
  /\ ~row.rewritten => Range(words) = TrimmedTags(row.given)

Kept(row) ==
  /\ row.given \in Seq(String)
  /\ row.column \in String
  /\ Tokens(row.column) = Words(row.given)
  /\ \E words : Made(words, row)

LEMMA CleanedWords ==
  ASSUME NEW ts \in Seq(String)
  PROVE  /\ TagsCSV(ts) \in String
         /\ Tokens(TagsCSV(ts)) = Words(ts)
<1>1. /\ Cleaned(ts) \in Seq(String \ {<<>>})
      /\ Range(Cleaned(ts)) = TrimmedTags(ts)
  BY CleanedTags
<1>2. /\ Joined(Cleaned(ts)) \in String
      /\ Tokens(Joined(Cleaned(ts))) = UNION {Tokens(w) : w \in Range(Cleaned(ts))}
  BY <1>1, JoinedWords
<1>3. UNION {Tokens(w) : w \in Range(Cleaned(ts))} = Words(ts)
  BY <1>1, TrimmedTagsKeepWords
<1> QED
  BY <1>2, <1>3 DEF TagsCSV

LEMMA GivenIsKept ==
  ASSUME NEW row, NEW ts \in Seq(String), row.given = ts,
         row.column = TagsCSV(ts), row.rewritten = FALSE
  PROVE  Kept(row)
<1>1. /\ Cleaned(ts) \in Seq(String \ {<<>>}) /\ Distinct(Cleaned(ts))
      /\ Range(Cleaned(ts)) = TrimmedTags(ts)
  BY CleanedTags
<1>2. Made(Cleaned(ts), row)
  BY <1>1 DEF Made, TagsCSV
<1>3. row.column \in String /\ Tokens(row.column) = Words(row.given)
  BY CleanedWords
<1> QED
  BY <1>2, <1>3 DEF Kept

LEMMA RewrittenIsKept ==
  ASSUME NEW row, NEW new, Kept(row), new.given = row.given,
         new.column = TagsCSV(Read(row.column)), new.rewritten = TRUE
  PROVE  Kept(new)
<1> DEFINE s == row.column
           words == Cleaned(Read(s))
<1>1. s \in String /\ row.given \in Seq(String) /\ Tokens(s) = Words(row.given)
  BY DEF Kept
<1>2. /\ Read(s) \in Seq(String) /\ TrimmedTags(Read(s)) = Tokens(s)
      /\ Words(Read(s)) = Tokens(s)
  BY <1>1, ReadWords
<1>3. /\ words \in Seq(String \ {<<>>}) /\ Distinct(words)
      /\ Range(words) = Tokens(s)
  BY <1>2, CleanedTags
<1>4. AllWhole(words)
  <2>1. \A w \in Tokens(s) : Whole(w)
    BY <1>1, WholePieces
  <2>2. \A i \in 1..Len(words) : words[i] \in Range(words)
    BY <1>3, InRange
  <2> QED
    BY <1>3, <2>1, <2>2 DEF AllWhole
<1>5. Made(words, new)
  BY <1>1, <1>3, <1>4 DEF Made, TagsCSV
<1>6. new.column \in String /\ Tokens(new.column) = Words(new.given)
  BY <1>1, <1>2, CleanedWords
<1> QED
  BY <1>1, <1>5, <1>6 DEF Kept

(* What a row that is kept shows: its words, one piece for each once it is *)
(* rewritten, and every tag by which it was given between two commas.      *)
LEMMA KeptShowsWords ==
  ASSUME NEW row, Kept(row)
  PROVE  /\ Words(Read(row.column)) = Words(row.given)
         /\ row.rewritten => Len(Read(row.column)) = Cardinality(Words(row.given))
<1> DEFINE s == row.column
<1>1. s \in String /\ row.given \in Seq(String) /\ Tokens(s) = Words(row.given)
  BY DEF Kept
<1>2. Words(Read(s)) = Tokens(s)
  BY <1>1, ReadWords
<1>3. ASSUME row.rewritten PROVE Len(Read(s)) = Cardinality(Words(row.given))
  <2>1. PICK words : Made(words, row)
    BY DEF Kept
  <2>2. /\ words \in Seq(String \ {<<>>}) /\ Distinct(words) /\ s = Joined(words)
        /\ AllWhole(words) /\ Range(words) = Words(row.given)
    BY <1>3, <2>1 DEF Made
  <2>3. Len(words) \in Nat /\ DOMAIN words = 1..Len(words)
    BY <2>2, LenProperties
  <2>4. Cardinality(Range(words)) = Len(words)
    <3> DEFINE P == 1..Len(words)
    <3>1. words \in Bijection(P, Range(words))
      BY <2>2, <2>3 DEF Distinct, Bijection, Injection, Surjection, IsInjective, Range
    <3>2. ExistsBijection(P, Range(words))
      BY <3>1 DEF ExistsBijection
    <3>3. IsFiniteSet(P) /\ Cardinality(P) = Len(words)
      <4> DEFINE n == Len(words)
      <4>1. n \in Nat
        BY <2>3
      <4> HIDE DEF n
      <4>2. IsFiniteSet(1..n) /\ Cardinality(1..n) = n
        BY <4>1, FS_Interval
      <4> QED
        BY <4>2 DEF n
    <3> HIDE DEF P
    <3> QED
      BY <3>2, <3>3, FS_Bijection
  <2>5. CASE s = <<>>
    <3>1. Len(words) = 0
      BY <2>2, <2>5, JoinedWords
    <3>2. Len(Read(s)) = 0
      BY <2>5 DEF Read
    <3> QED
      BY <2>2, <2>4, <3>1, <3>2
  <2>6. CASE s # <<>>
    <3>1. Len(words) # 0 /\ Cardinality(Cuts(s)) = Len(words) + 1
      BY <2>2, <2>6, JoinedWords
    <3>2. Len(Split(s)) = Cardinality(Cuts(s)) - 1
      BY <1>1, Pieces
    <3>3. Read(s) = Split(s)
      BY <2>6 DEF Read
    <3> QED
      BY <2>2, <2>3, <2>4, <3>1, <3>2, <3>3
  <2> QED
    BY <2>5, <2>6
<1> QED
  BY <1>1, <1>2, <1>3

LEMMA KeptIsFound ==
  ASSUME NEW row, Kept(row), NEW t \in Range(row.given), TrimSpace(t) # <<>>,
         row.rewritten => Comma \notin Range(TrimSpace(t))
  PROVE  HasTag(row.column, TrimSpace(t))
<1> DEFINE s == row.column
           tag == TrimSpace(t)
<1>1. s \in String /\ row.given \in Seq(String)
  BY DEF Kept
<1>2. t \in String /\ tag \in String
  BY <1>1, InRange, Trimmed
<1>3. PICK words : Made(words, row)
  BY DEF Kept
<1>4. words \in Seq(String \ {<<>>}) /\ s = Joined(words)
  BY <1>3 DEF Made
<1>5. tag \in Range(words)
  <2>1. CASE ~row.rewritten
    BY <1>3, <2>1 DEF Made, TrimmedTags
  <2>2. CASE row.rewritten
    <3>1. DOMAIN tag = 1..Len(tag)
      BY <1>2, Strings
    <3>2. Whole(tag)
      BY <2>2, <3>1 DEF Whole, Range
    <3>3. Tokens(tag) = {TrimSpace(tag)} \ {<<>>} /\ TrimSpace(tag) = tag
      BY <1>2, <3>2, WholeToken, TrimmedTwice
    <3>4. Tokens(t) = Tokens(tag)
      BY <1>2, TrimmingKeepsTokens
    <3>5. tag \in Words(row.given)
      BY <1>1, <3>3, <3>4, GivenWords
    <3> QED
      BY <1>3, <2>2, <3>5 DEF Made
  <2> QED
    BY <2>1, <2>2
<1>6. Bounded(s, tag)
  BY <1>4, <1>5, JoinedWords
<1> QED
  BY <1>1, <1>2, <1>6, BoundedIsFound

(* And what it shows a search for a tag without a comma.                   *)
LEMMA FoundHasPiece ==
  ASSUME NEW s \in String, NEW tag \in String \ {<<>>}, Comma \notin Range(tag),
         HasTag(s, tag)
  PROVE  Folded(tag) \in {Folded(w) : w \in Range(Read(s))}
<1>1. Len(s) \in Nat /\ Len(tag) \in Nat /\ DOMAIN tag = 1..Len(tag)
  BY Strings
<1>2. Whole(tag)
  BY <1>1 DEF Whole, Range
<1>3. PICK i \in Nat : Carried(s, tag, i)
  BY FoundIsCarried
<1>4. i + Len(tag) <= Len(s)
  BY <1>3 DEF Carried, At
<1>5. PICK w \in Range(Split(s)) : Folded(w) = Folded(tag)
  BY <1>2, <1>3, CarriedIsPiece
<1>6. s # <<>>
  <2>1. Len(tag) # 0
    BY EmptySeq DEF String
  <2>2. Len(s) # 0
    BY <1>1, <1>4, <2>1
  <2> QED
    BY <2>2
<1> QED
  BY <1>5, <1>6 DEF Read

-----------------------------------------------------------------------------
(* Pages.  The rows a filter selects, and how many of a set come before x  *)
(* where the greatest is first.                                            *)
Shown(tbl, f) == {id \in TaskId : tbl[id] # NoRow /\ Selected(f, tbl[id])}

Before(S, x) == Cardinality({y \in S : y > x})

LEMMA ShownRows ==
  ASSUME NEW tbl, NEW f
  PROVE  /\ Shown(tbl, f) \in SUBSET TaskId /\ IsFiniteSet(Shown(tbl, f))
         /\ Shown(tbl, f) \in SUBSET Int
         /\ Cardinality(Shown(tbl, f)) \in 0..MaxTasks
         /\ ListTasks(tbl, f) = DescendingList(Shown(tbl, f))
<1>1. MaxTasks \in Nat
  BY TagsAssumption
<1>2. IsFiniteSet(TaskId) /\ Cardinality(TaskId) = MaxTasks
  BY <1>1, FS_Interval DEF TaskId
<1>3. Shown(tbl, f) \in SUBSET TaskId
  BY DEF Shown
<1>4. /\ IsFiniteSet(Shown(tbl, f)) /\ Cardinality(Shown(tbl, f)) <= MaxTasks
      /\ Cardinality(Shown(tbl, f)) \in Nat
  BY <1>2, <1>3, FS_Subset, FS_CardinalityType
<1>5. Shown(tbl, f) \in SUBSET Int
  BY <1>3 DEF TaskId
<1>6. ListTasks(tbl, f) = DescendingList(Shown(tbl, f))
  BY Zenon DEF ListTasks, Listed, DescendingList, Shown
<1> QED
  BY <1>1, <1>3, <1>4, <1>5, <1>6

(* Places: x comes at the place after those before it.                     *)
LEMMA Places ==
  ASSUME NEW S \in SUBSET Int, IsFiniteSet(S)
  PROVE  LET list == DescendingList(S)
             n == Cardinality(S)
         IN  /\ n \in Nat /\ DOMAIN list = 1..n /\ Len(list) = n
             /\ \A i \in 1..n : list[i] \in S
             /\ \A x \in S : /\ Before(S, x) \in Nat /\ Before(S, x) + 1 \in 1..n
                             /\ list[Before(S, x) + 1] = x
             /\ Range(list) = S
<1> DEFINE list == DescendingList(S)
           n == Cardinality(S)
<1>1. /\ n \in Nat /\ list \in [1..n -> S]
      /\ \A x \in S : \E i \in 1..n : list[i] = x /\ Before(S, x) = i - 1
  BY Descending DEF Falls, Before
<1> HIDE DEF list, n
<1>2. DOMAIN list = 1..n /\ Len(list) = n /\ \A i \in 1..n : list[i] \in S
  BY <1>1
<1>3. ASSUME NEW x \in S
      PROVE  Before(S, x) \in Nat /\ Before(S, x) + 1 \in 1..n /\ list[Before(S, x) + 1] = x
  <2>1. PICK i \in 1..n : list[i] = x /\ Before(S, x) = i - 1
    BY <1>1
  <2>2. i - 1 \in Nat /\ (i - 1) + 1 = i
    BY <1>1
  <2> QED
    BY <2>1, <2>2
<1>4. Range(list) = S
  BY <1>2, <1>3 DEF Range
<1> QED
  BY <1>1, <1>2, <1>3, <1>4 DEF list, n

(* A page shows whoever's place is on it, and only rows of the list; one   *)
(* that is not full is the last.                                           *)
LEMMA PageShows ==
  ASSUME NEW S \in SUBSET Int, IsFiniteSet(S), NEW limit \in Nat \ {0}, NEW offset \in Nat
  PROVE  LET page == Page(DescendingList(S), limit, offset)
         IN  /\ Range(page) \subseteq S
             /\ \A x \in S : offset <= Before(S, x) /\ Before(S, x) < offset + limit =>
                  x \in Range(page)
             /\ Len(page) < limit => \A x \in S : Before(S, x) < offset + limit
<1> DEFINE list == DescendingList(S)
           n == Cardinality(S)
           a == offset + 1
           b == IF offset + limit <= n THEN offset + limit ELSE n
           page == SubSeq(list, a, b)
<1>1. /\ n \in Nat /\ DOMAIN list = 1..n /\ Len(list) = n
      /\ \A i \in 1..n : list[i] \in S
      /\ \A x \in S : /\ Before(S, x) \in Nat /\ Before(S, x) + 1 \in 1..n
                      /\ list[Before(S, x) + 1] = x
  BY Places
<1>2. Page(list, limit, offset) = page
  <2>1. Min({offset + limit, n}) = b
    BY <1>1, MinOfTwo
  <2>2. ~(limit <= 0) /\ Len(list) = n
    BY <1>1
  <2> HIDE DEF b, n, list
  <2> QED
    BY <2>1, <2>2 DEF Page
<1> HIDE DEF list, n
<1>3. a \in Nat \ {0} /\ b \in 0..n /\ b <= offset + limit
  BY <1>1
<1>4. CASE offset <= n
  <2>1. a \in 1..(n + 1)
    BY <1>1, <1>4
  <2>2. Range(page) = Part(list, a, b)
    BY <1>1, <1>3, <2>1, RangeOfPart
  <2>3. \A i \in a..b : i \in 1..n
    BY <1>1, <1>3
  <2>4. Range(page) \subseteq S
    BY <1>1, <2>2, <2>3 DEF Part
  <2>5. ASSUME NEW x \in S, offset <= Before(S, x), Before(S, x) < offset + limit
        PROVE  x \in Range(page)
    <3>1. /\ Before(S, x) \in Nat /\ Before(S, x) + 1 \in 1..n
          /\ list[Before(S, x) + 1] = x
      BY <1>1
    <3> DEFINE i == Before(S, x) + 1
    <3>2. i \in a..b
      BY <1>1, <2>5, <3>1
    <3> HIDE DEF i, a, b
    <3>3. list[i] \in Part(list, a, b)
      BY <3>2 DEF Part
    <3> QED
      BY <2>2, <3>1, <3>3 DEF i
  <2>6. ASSUME Len(page) < limit, NEW x \in S PROVE Before(S, x) < offset + limit
    <3>1. Before(S, x) \in Nat /\ Before(S, x) + 1 \in 1..n
      BY <1>1
    <3>2. Len(page) = IF a <= b THEN b - a + 1 ELSE 0
      <4>1. a \in Int /\ b \in Int
        BY <1>3
      <4> HIDE DEF a, b
      <4> QED
        BY <4>1
    <3> HIDE DEF page
    <3>3. Len(page) < limit
      BY <2>6
    <3> QED
      BY <1>1, <1>3, <3>1, <3>2, <3>3
  <2> HIDE DEF page
  <2> QED
    BY <1>2, <2>4, <2>5, <2>6 DEF list
<1>5. CASE ~(offset <= n)
  <2>1. b = n /\ b < a
    BY <1>1, <1>5
  <2>2. DOMAIN page = {}
    <3>1. a \in Int /\ b \in Int /\ b < a
      BY <1>1, <1>3, <2>1
    <3> HIDE DEF a, b
    <3>2. page = [i \in 1..(1 + b - a) |-> list[i + a - 1]]
      BY <3>1
    <3> QED
      BY <3>1, <3>2
  <2> HIDE DEF page, a, b
  <2>3. Range(page) = {}
    BY <2>2 DEF Range
  <2>4. \A x \in S : ~(offset <= Before(S, x)) /\ Before(S, x) < offset + limit
    <3> TAKE x \in S
    <3>1. Before(S, x) \in Nat /\ Before(S, x) + 1 \in 1..n
      BY <1>1
    <3> QED
      BY <1>1, <1>5, <3>1
  <2> QED
    BY <1>2, <2>3, <2>4 DEF list
<1> QED
  BY <1>4, <1>5

(* As S becomes T, no more come to be among the first n than left S: those *)
(* of A that are in S and among the first n of it are Ahead.               *)
Ahead(A, S, n) == {x \in A : Before(S, x) < n}

LEMMA FewMoveAhead ==
  ASSUME NEW S \in SUBSET Int, IsFiniteSet(S), NEW T \in SUBSET Int, IsFiniteSet(T),
         NEW A \in SUBSET S, NEW n \in Nat
  PROVE  /\ Cardinality(S \ T) \in Nat /\ Cardinality(Ahead(A, S, n)) \in Nat
         /\ Cardinality(Ahead(A \cap T, T, n)) <=
              Cardinality(Ahead(A, S, n)) + Cardinality(S \ T)
<1> DEFINE k == Cardinality(S \ T)
           M == Ahead(A, S, n)
           N == {x \in S : n <= Before(S, x) /\ Before(S, x) < n + k}
           New == Ahead(A \cap T, T, n)
<1>1. IsFiniteSet(S \ T) /\ k \in Nat
  BY FS_Difference, FS_CardinalityType
<1>2. \A x \in S : Before(S, x) \in Nat
  BY Places
<1>3. \A x \in T : Before(T, x) \in Nat
  BY Places
<1>4. M \in SUBSET S /\ N \in SUBSET S
  BY DEF Ahead
<1>5. IsFiniteSet(M) /\ IsFiniteSet(N) /\ Cardinality(M) \in Nat /\ Cardinality(N) \in Nat
  BY <1>4, FS_Subset, FS_CardinalityType
<1>6. ASSUME NEW x \in Int
      PROVE  Cardinality({y \in S : y > x}) <= Cardinality({y \in T : y > x}) + k
  <2> DEFINE U == {y \in S : y > x}
             V == {y \in T : y > x}
  <2>1. U \in SUBSET S /\ V \in SUBSET T /\ U \in SUBSET (V \cup (S \ T))
    OBVIOUS
  <2>2. IsFiniteSet(V) /\ Cardinality(V) \in Nat
    BY <2>1, FS_Subset, FS_CardinalityType
  <2> HIDE DEF U, V
  <2>3. /\ IsFiniteSet(V \cup (S \ T))
        /\ Cardinality(V \cup (S \ T)) = Cardinality(V) + k - Cardinality(V \cap (S \ T))
    BY <1>1, <2>2, FS_Union
  <2>4. Cardinality(V \cap (S \ T)) \in Nat
    BY <2>2, FS_Intersection, FS_CardinalityType
  <2>5. Cardinality(U) <= Cardinality(V \cup (S \ T))
    BY <2>1, <2>3, FS_Subset
  <2>6. IsFiniteSet(U) /\ Cardinality(U) \in Nat
    BY <2>1, FS_Subset, FS_CardinalityType
  <2>7. Cardinality(U) <= Cardinality(V) + k
    BY <1>1, <2>2, <2>3, <2>4, <2>5, <2>6
  <2> QED
    BY <2>7 DEF U, V
<1>7. New \in SUBSET (M \cup N)
  <2> SUFFICES ASSUME NEW x \in New PROVE x \in M \cup N
    OBVIOUS
  <2>1. x \in A /\ x \in T /\ x \in S /\ x \in Int /\ Before(T, x) < n
    BY DEF Ahead
  <2>2. Before(S, x) <= Before(T, x) + k
    BY <1>6, <2>1 DEF Before
  <2>3. Before(S, x) \in Nat /\ Before(T, x) \in Nat
    BY <1>2, <1>3, <2>1
  <2>4. Before(S, x) < n + k
    BY <1>1, <2>1, <2>2, <2>3
  <2>5. Before(S, x) < n \/ n <= Before(S, x)
    BY <2>3
  <2> QED
    BY <2>1, <2>4, <2>5 DEF Ahead
<1>8. Cardinality(N) <= k
  <2> DEFINE P == n..(n + k - 1)
             f == [x \in N |-> Before(S, x)]
  <2>1. \A x \in N : f[x] \in P
    BY <1>1, <1>2
  <2>2. \A x, y \in N : f[x] = f[y] => x = y
    <3> TAKE x, y \in N
    <3>1. x \in S /\ y \in S
      OBVIOUS
    <3>2. DescendingList(S)[Before(S, x) + 1] = x /\ DescendingList(S)[Before(S, y) + 1] = y
      BY <3>1, Places
    <3>3. f[x] = Before(S, x) /\ f[y] = Before(S, y)
      OBVIOUS
    <3> HIDE DEF f
    <3> QED
      BY <3>2, <3>3
  <2>3. IsFiniteSet(P) /\ Cardinality(P) = k
    <3>1. n \in Int /\ n + k - 1 \in Int /\ (n > n + k - 1 <=> k = 0)
          /\ (n + k - 1) - n + 1 = k
      BY <1>1
    <3> HIDE DEF k
    <3> QED
      BY <3>1, FS_Interval
  <2>4. f \in [N -> P]
    BY <2>1
  <2> HIDE DEF f, P, N
  <2>5. f \in Injection(N, P)
    BY <2>2, <2>4 DEF Injection, IsInjective
  <2>6. Cardinality(N) <= Cardinality(P)
    BY <2>3, <2>5, FS_Injection
  <2> QED
    BY <2>3, <2>6
<1> HIDE DEF M, N, New, k
<1>9. IsFiniteSet(M \cup N) /\ Cardinality(M \cup N) <= Cardinality(M) + Cardinality(N)
  <2>1. /\ IsFiniteSet(M \cup N)
        /\ Cardinality(M \cup N) = Cardinality(M) + Cardinality(N) - Cardinality(M \cap N)
    BY <1>5, FS_Union
  <2>2. Cardinality(M \cap N) \in Nat
    BY <1>5, FS_Intersection, FS_CardinalityType
  <2> QED
    BY <1>5, <2>1, <2>2
<1>10. /\ Cardinality(New) <= Cardinality(M \cup N)
       /\ IsFiniteSet(New) /\ Cardinality(New) \in Nat /\ Cardinality(M \cup N) \in Nat
  BY <1>7, <1>9, FS_Subset, FS_CardinalityType
<1>11. Cardinality(New) <= Cardinality(M) + k
  BY <1>1, <1>5, <1>8, <1>9, <1>10
<1> QED
  BY <1>1, <1>5, <1>11 DEF M, New, k

-----------------------------------------------------------------------------
(* The inductive invariant: the types, with tasks a function; every row is *)
(* kept; and of those that have been listed since a client began to page   *)
(* and that it has not seen, no more come before its next page than have   *)
(* left the list.                                                          *)
Table(tbl) ==
  /\ tbl \in [TaskId -> Row \cup {NoRow}]
  /\ \A id \in TaskId : tbl[id] # NoRow => Kept(tbl[id])

PagerStates == [filter : Filters \cup {NoFilter}, state : {"off", "on", "done"},
                pages : 0..MaxPages, seen : SUBSET TaskId,
                stayed : SUBSET TaskId, gone : Nat]

Watched ==
  pager.state = "on" =>
    /\ pager.stayed \subseteq Shown(tasks, pager.filter)
    /\ Cardinality(Ahead(pager.stayed \ pager.seen, Shown(tasks, pager.filter),
                         PageSize * pager.pages)) <= pager.gone

Inv ==
  /\ TypeOK /\ Table(tasks) /\ TidyTagsAreListed
  /\ Watched /\ PagesMissNothing

LEMMA Bounds ==
  /\ MaxTasks \in Nat /\ MaxEdits \in Nat /\ MaxPages \in Nat /\ PageSize \in Nat \ {0}
  /\ TagLists \in SUBSET Seq(String) /\ Names \in SUBSET String
  /\ Nil \notin String
BY Zenon, TagsAssumption

(* Setting one row of a table, or removing it.                             *)
Fits(row) == row \in Row \cup {NoRow} /\ (row # NoRow => Kept(row))

Replaced(new, tbl, id, row) ==
  /\ Table(new) /\ new[id] = row
  /\ \A other \in TaskId \ {id} : new[other] = tbl[other]

LEMMA SetRow ==
  ASSUME NEW tbl, Table(tbl), NEW id, id \in TaskId, NEW row, Fits(row),
         NEW new, new = [tbl EXCEPT ![id] = row]
  PROVE  Replaced(new, tbl, id, row)
<1>1. tbl \in [TaskId -> Row \cup {NoRow}]
  BY DEF Table
<1>2. /\ new \in [TaskId -> Row \cup {NoRow}] /\ new[id] = row
      /\ \A other \in TaskId \ {id} : new[other] = tbl[other]
  BY <1>1 DEF Fits
<1>3. Table(new)
  BY <1>2 DEF Table, Fits
<1> QED
  BY <1>2, <1>3 DEF Replaced

(* The row a task is created with, and the row an update leaves.           *)
LEMMA CreatedRow ==
  ASSUME NEW ts \in TagLists, NEW active \in BOOLEAN
  PROVE  LET row == [column |-> TagsCSV(ts), active |-> active, given |-> ts,
                     origin |-> "create", rewritten |-> FALSE]
         IN  row \in Row /\ Kept(row)
<1> DEFINE row == [column |-> TagsCSV(ts), active |-> active, given |-> ts,
                   origin |-> "create", rewritten |-> FALSE]
<1>1. ts \in Seq(String)
  BY Bounds
<1>2. TagsCSV(ts) \in String
  BY <1>1, CleanedWords
<1>3. row \in Row
  BY <1>1, <1>2 DEF Row
<1>4. row.given = ts /\ row.column = TagsCSV(ts) /\ row.rewritten = FALSE
  OBVIOUS
<1> HIDE DEF row
<1>5. Kept(row)
  BY <1>1, <1>4, GivenIsKept
<1> QED
  BY <1>3, <1>5 DEF row

LEMMA UpdatedRow ==
  ASSUME NEW row \in Row, Kept(row), NEW ts \in TagLists \cup {Nil}, NEW active \in BOOLEAN
  PROVE  LET new == [Updated(row, ts) EXCEPT !.active = active]
         IN  /\ new \in Row /\ Kept(new)
             /\ new.origin = "create" => row.origin = "create" /\ new.given = row.given
<1> DEFINE new == [Updated(row, ts) EXCEPT !.active = active]
<1>1. row.column \in String /\ row.given \in Seq(String)
  BY DEF Kept
<1>2. CASE ts = Nil
  <2> DEFINE col == TagsCSV(Read(row.column))
  <2>1. col \in String
    BY <1>1, ReadWords, CleanedWords
  <2> HIDE DEF col
  <2>2. Updated(row, ts) = [row EXCEPT !.column = col, !.rewritten = TRUE]
    BY <1>2 DEF Updated, col
  <2>3. new = [[row EXCEPT !.column = col, !.rewritten = TRUE] EXCEPT !.active = active]
    BY <2>2
  <2> HIDE DEF new
  <2>4. /\ new \in Row /\ new.given = row.given /\ new.column = col
        /\ new.rewritten = TRUE /\ new.origin = row.origin
    BY <2>1, <2>3 DEF Row
  <2>5. Kept(new)
    BY <2>4, RewrittenIsKept DEF col
  <2> QED
    BY <2>4, <2>5 DEF new
<1>3. CASE ts # Nil
  <2>1. ts \in TagLists /\ ts \in Seq(String)
    BY <1>3, Bounds
  <2> DEFINE col == TagsCSV(ts)
  <2>2. col \in String
    BY <2>1, CleanedWords
  <2> HIDE DEF col
  <2>3. Updated(row, ts) = [row EXCEPT !.column = col, !.given = ts, !.origin = "update",
                                       !.rewritten = FALSE]
    BY <1>3 DEF Updated, col
  <2>4. new = [[row EXCEPT !.column = col, !.given = ts, !.origin = "update",
                           !.rewritten = FALSE] EXCEPT !.active = active]
    BY <2>3
  <2> HIDE DEF new
  <2>5. /\ new \in Row /\ new.given = ts /\ new.column = col
        /\ new.rewritten = FALSE /\ new.origin = "update"
    BY <2>1, <2>2, <2>4 DEF Row
  <2>6. Kept(new)
    BY <2>1, <2>5, GivenIsKept DEF col
  <2> QED
    BY <2>5, <2>6 DEF new
<1> QED
  BY <1>2, <1>3

LEMMA FlaggedRow ==
  ASSUME NEW row \in Row, Kept(row), NEW active \in BOOLEAN
  PROVE  LET new == [row EXCEPT !.active = active]
         IN  /\ new \in Row /\ Kept(new)
             /\ new.origin = row.origin /\ new.given = row.given
<1> DEFINE new == [row EXCEPT !.active = active]
<1>1. /\ new \in Row /\ new.given = row.given /\ new.column = row.column
      /\ new.rewritten = row.rewritten /\ new.origin = row.origin
  BY DEF Row
<1> HIDE DEF new
<1>2. PICK words : Made(words, row)
  BY DEF Kept
<1>3. Made(words, new)
  BY <1>1, <1>2 DEF Made
<1>4. Kept(new)
  BY <1>1, <1>3 DEF Kept
<1> QED
  BY <1>1, <1>4 DEF new

(* Whatever changes the tasks, a client that pages keeps its account.      *)
LEMMA WatchKeeps ==
  ASSUME pager \in PagerStates, Watched, PagesMissNothing, Watch
  PROVE  pager' \in PagerStates /\ Watched' /\ PagesMissNothing'
<1>1. CASE pager.state # "on"
  <2>1. pager' = pager
    BY <1>1 DEF Watch
  <2> QED
    BY <1>1, <2>1 DEF Watched, PagesMissNothing
<1>2. CASE pager.state = "on"
  <2> DEFINE S == Shown(tasks, pager.filter)
             T == Shown(tasks', pager.filter)
             A == pager.stayed \ pager.seen
             n == PageSize * pager.pages
             k == Cardinality(S \ T)
             left == Range(ListTasks(tasks, pager.filter))
                       \ Range(ListTasks(tasks', pager.filter))
  <2>1. /\ S \in SUBSET Int /\ IsFiniteSet(S) /\ S \in SUBSET TaskId
        /\ T \in SUBSET Int /\ IsFiniteSet(T)
        /\ ListTasks(tasks, pager.filter) = DescendingList(S)
        /\ ListTasks(tasks', pager.filter) = DescendingList(T)
    BY ShownRows
  <2>2. left = S \ T
    BY <2>1, Places
  <2>3. pager' = [pager EXCEPT !.stayed = @ \ left, !.gone = @ + Cardinality(left)]
    BY <1>2 DEF Watch
  <2> HIDE DEF left
  <2>4. /\ pager.stayed \in SUBSET S /\ Cardinality(Ahead(A, S, n)) <= pager.gone
    BY <1>2 DEF Watched
  <2>5. /\ pager.stayed \in SUBSET TaskId /\ pager.gone \in Nat /\ pager.pages \in Nat
    BY Bounds DEF PagerStates
  <2>6. n \in Nat
    BY <2>5, Bounds
  <2>7. A \in SUBSET S
    BY <2>4
  <2> HIDE DEF S, T, A, n
  <2>8. /\ k \in Nat /\ Cardinality(Ahead(A, S, n)) \in Nat
        /\ Cardinality(Ahead(A \cap T, T, n)) <= Cardinality(Ahead(A, S, n)) + k
    BY <2>1, <2>6, <2>7, FewMoveAhead
  <2>9. Cardinality(left) = k
    BY <2>2
  <2> HIDE DEF k
  <2>10. pager' = [pager EXCEPT !.stayed = @ \ (S \ T), !.gone = @ + k]
    BY <2>2, <2>3, <2>9
  <2>11. /\ pager' \in PagerStates /\ pager'.filter = pager.filter
         /\ pager'.state = "on" /\ pager'.pages = pager.pages /\ pager'.seen = pager.seen
         /\ pager'.stayed = pager.stayed \ (S \ T) /\ pager'.gone = pager.gone + k
    <3> DEFINE st == pager.stayed \ (S \ T)
               g == pager.gone + k
    <3>1. st \in SUBSET TaskId /\ g \in Nat
      BY <2>5, <2>8
    <3> HIDE DEF st, g
    <3>2. pager' = [pager EXCEPT !.stayed = st, !.gone = g]
      BY <2>10 DEF st, g
    <3>3. /\ pager' \in PagerStates /\ pager'.filter = pager.filter
          /\ pager'.state = pager.state /\ pager'.pages = pager.pages
          /\ pager'.seen = pager.seen /\ pager'.stayed = st /\ pager'.gone = g
      BY <3>1, <3>2 DEF PagerStates
    <3> QED
      BY <1>2, <3>3 DEF st, g
  <2>12. pager'.stayed \subseteq T /\ pager'.stayed \ pager'.seen = A \cap T
    BY <2>4, <2>11 DEF A
  <2>13. T = Shown(tasks', pager'.filter) /\ n = PageSize * pager'.pages
    BY <2>11 DEF T, n
  <2>14. Cardinality(Ahead(A \cap T, T, n)) <= pager'.gone
    <3>1. Cardinality(Ahead(A \cap T, T, n)) \in Nat
      <4>1. A \cap T \in SUBSET T
        OBVIOUS
      <4> QED
        BY <2>1, <2>6, <4>1, FewMoveAhead
    <3> QED
      BY <2>4, <2>5, <2>8, <2>11, <3>1
  <2>15. Watched'
    BY <2>11, <2>12, <2>13, <2>14 DEF Watched
  <2>16. PagesMissNothing'
    BY <2>11 DEF PagesMissNothing
  <2> QED
    BY <2>11, <2>15, <2>16
<1> QED
  BY <1>1, <1>2

-----------------------------------------------------------------------------
(* Every operation preserves the invariant.                                *)
LEMMA InitInv == Init => Inv
<1> SUFFICES ASSUME Init PROVE Inv
  OBVIOUS
<1>1. /\ tasks = [id \in TaskId |-> NoRow] /\ tags = {} /\ births = 0 /\ edits = 0
      /\ bulk = Nil /\ pager = NoPager
  BY DEF Init
<1>2. \A id \in TaskId : tasks[id] = NoRow
  BY <1>1
<1>3. NoPager \in PagerStates /\ NoPager.state = "off"
  BY Bounds DEF NoPager, PagerStates
<1>4. TypeOK
  <2>1. \A id \in (births + 1)..MaxTasks : id \in TaskId
    BY <1>1, Bounds DEF TaskId
  <2> QED
    BY <1>1, <1>2, <1>3, <2>1, Bounds DEF TypeOK, PagerStates
<1>5. Table(tasks)
  BY <1>1, <1>2 DEF Table
<1>6. Tasks = {}
  BY <1>2 DEF Tasks
<1>7. TidyTagsAreListed
  BY <1>6 DEF TidyTagsAreListed
<1>8. Watched /\ PagesMissNothing
  BY <1>1, <1>3 DEF Watched, PagesMissNothing
<1> QED
  BY <1>4, <1>5, <1>7, <1>8 DEF Inv

(* TypeOK in parts, and what it says of the table.                         *)
LEMMA Typed ==
  ASSUME Inv
  PROVE  /\ births \in 0..MaxTasks /\ edits \in 0..MaxEdits
         /\ \A id \in TaskId : tasks[id] # NoRow => tasks[id] \in Row /\ Kept(tasks[id])
         /\ \A id \in (births + 1)..MaxTasks : tasks[id] = NoRow
         /\ tags \subseteq String \ {<<>>}
         /\ bulk = Nil \/ bulk \in [tag : String \ {<<>>}, paused : 0..MaxTasks]
         /\ pager \in PagerStates
BY DEF Inv, TypeOK, Table, PagerStates

(* A request that leaves the tags and the births alone and after which     *)
(* every row is gone or has what it was created with.                      *)
LEMMA TableStep ==
  ASSUME Inv, Edit, Watch, births' = births,
         Table(tasks'), tags \subseteq tags', tags' \subseteq String \ {<<>>},
         \A id \in (births + 1)..MaxTasks : tasks'[id] = NoRow,
         \A id \in TaskId :
           tasks'[id] # NoRow /\ tasks'[id].origin = "create" =>
             /\ tasks[id] # NoRow /\ tasks[id].origin = "create"
             /\ tasks'[id].given = tasks[id].given
  PROVE  Inv'
<1>1. /\ births \in 0..MaxTasks /\ edits \in 0..MaxEdits /\ pager \in PagerStates
  BY Typed
<1>2. edits' \in 0..MaxEdits /\ bulk' = Nil
  BY <1>1, Bounds DEF Edit
<1>3. pager' \in PagerStates /\ Watched' /\ PagesMissNothing'
  BY <1>1, WatchKeeps DEF Inv
<1>4. \A id \in TaskId : tasks'[id] = NoRow \/ tasks'[id] \in Row
  BY DEF Table
<1>5. TypeOK'
  BY <1>1, <1>2, <1>3, <1>4 DEF TypeOK, PagerStates, TaskId, Row
<1>6. TidyTagsAreListed'
  <2> SUFFICES ASSUME NEW id \in Tasks', tasks'[id].origin = "create",
                      NEW t \in Range(tasks'[id].given), t # <<>>, TrimSpace(t) = t
               PROVE  t \in tags'
    BY DEF TidyTagsAreListed
  <2>1. id \in TaskId /\ tasks'[id] # NoRow
    BY DEF Tasks
  <2>2. /\ tasks[id] # NoRow /\ tasks[id].origin = "create"
        /\ tasks'[id].given = tasks[id].given
    BY <2>1
  <2>3. t \in tags
    BY <2>1, <2>2 DEF Inv, TidyTagsAreListed, Tasks
  <2> QED
    BY <2>3
<1> QED
  BY <1>3, <1>5, <1>6 DEF Inv

LEMMA CreateStep ==
  ASSUME Inv, handleCreateTask
  PROVE  Inv'
<1>1. PICK ts \in TagLists, active \in BOOLEAN :
        /\ \A i \in DOMAIN ts : ~Panics(ts[i])
        /\ tags' = tags \cup ({cleanTag(t) : t \in Range(ts)} \ {<<>>})
        /\ tasks' = [tasks EXCEPT ![births + 1] =
                       [column |-> TagsCSV(ts), active |-> active, given |-> ts,
                        origin |-> "create", rewritten |-> FALSE]]
  BY DEF handleCreateTask
<1> DEFINE row == [column |-> TagsCSV(ts), active |-> active, given |-> ts,
                   origin |-> "create", rewritten |-> FALSE]
           new == births + 1
<1>2. births < MaxTasks /\ births' = births + 1 /\ bulk' = Nil /\ Watch /\ UNCHANGED edits
  BY DEF handleCreateTask
<1>3. /\ births \in 0..MaxTasks /\ edits \in 0..MaxEdits /\ pager \in PagerStates
      /\ \A id \in (births + 1)..MaxTasks : tasks[id] = NoRow
      /\ tags \subseteq String \ {<<>>}
  BY Typed
<1>4. row \in Row /\ Kept(row) /\ row.given = ts
  BY CreatedRow
<1>5. tasks' = [tasks EXCEPT ![new] = row]
  BY <1>1
<1> HIDE DEF row
<1>6. new \in TaskId /\ \A id \in (new + 1)..MaxTasks :
                           id \in TaskId \ {new} /\ id \in (births + 1)..MaxTasks
  BY <1>2, <1>3, Bounds DEF TaskId
<1> HIDE DEF new
<1>7. /\ Table(tasks') /\ tasks'[new] = row
      /\ \A other \in TaskId \ {new} : tasks'[other] = tasks[other]
  <2>1. Table(tasks) /\ Fits(row)
    BY <1>4 DEF Inv, Fits
  <2>2. Replaced(tasks', tasks, new, row)
    BY <1>5, <1>6, <2>1, SetRow, Zenon
  <2> QED
    BY <2>2 DEF Replaced
<1>8. pager' \in PagerStates /\ Watched' /\ PagesMissNothing'
  BY <1>2, <1>3, WatchKeeps DEF Inv
<1>9. ts \in Seq(String) /\ \A t \in Range(ts) : t \in String /\ ~Panics(t)
  <2>1. ts \in Seq(String)
    BY Bounds
  <2> QED
    BY <1>1, <2>1, InRange
<1>10. tags \subseteq tags' /\ tags' \subseteq String \ {<<>>}
  <2>1. \A t \in Range(ts) : cleanTag(t) \in String
    BY <1>9, Tidied
  <2> QED
    BY <1>1, <1>3, <2>1
<1>11. TypeOK'
  <2>1. \A id \in TaskId : tasks'[id] = NoRow \/ tasks'[id] \in Row
    BY <1>7 DEF Table
  <2>2. \A id \in (births' + 1)..MaxTasks : tasks'[id] = NoRow
    BY <1>2, <1>3, <1>6, <1>7 DEF new
  <2>3. births' \in 0..MaxTasks /\ edits' \in 0..MaxEdits
    BY <1>2, <1>3, Bounds
  <2> QED
    BY <1>2, <1>8, <1>10, <2>1, <2>2, <2>3 DEF TypeOK, PagerStates, TaskId, Row
<1>12. TidyTagsAreListed'
  <2> SUFFICES ASSUME NEW id \in Tasks', tasks'[id].origin = "create",
                      NEW t \in Range(tasks'[id].given), t # <<>>, TrimSpace(t) = t
               PROVE  t \in tags'
    BY DEF TidyTagsAreListed
  <2>1. CASE id = new
    <3>1. t \in Range(ts)
      BY <1>4, <1>7, <2>1
    <3>2. cleanTag(t) = t
      BY <1>9, <3>1, Tidied
    <3> QED
      BY <1>1, <3>1, <3>2
  <2>2. CASE id # new
    <3>1. id \in TaskId \ {new} /\ tasks[id] # NoRow /\ tasks'[id] = tasks[id]
      BY <1>7, <2>2 DEF Tasks
    <3>2. t \in tags
      BY <3>1 DEF Inv, TidyTagsAreListed, Tasks
    <3> QED
      BY <1>10, <3>2
  <2> QED
    BY <2>1, <2>2
<1> QED
  BY <1>7, <1>8, <1>11, <1>12 DEF Inv

LEMMA UpdateStep ==
  ASSUME Inv, handleUpdateTask
  PROVE  Inv'
<1>1. PICK id \in Tasks, ts \in TagLists \cup {Nil}, active \in BOOLEAN :
        tasks' = [tasks EXCEPT ![id] = [Updated(tasks[id], ts) EXCEPT !.active = active]]
  BY DEF handleUpdateTask
<1> DEFINE new == [Updated(tasks[id], ts) EXCEPT !.active = active]
<1>2. Edit /\ Watch /\ UNCHANGED <<tags, births>>
  BY DEF handleUpdateTask
<1>3. id \in TaskId /\ tasks[id] # NoRow
  BY DEF Tasks
<1>4. /\ tasks[id] \in Row /\ Kept(tasks[id]) /\ births \in 0..MaxTasks
      /\ \A other \in (births + 1)..MaxTasks : tasks[other] = NoRow
      /\ tags \subseteq String \ {<<>>}
  BY <1>3, Typed
<1>5. /\ new \in Row /\ Kept(new)
      /\ new.origin = "create" => tasks[id].origin = "create" /\ new.given = tasks[id].given
  BY <1>4, UpdatedRow
<1> HIDE DEF new
<1>6. /\ Table(tasks') /\ tasks'[id] = new
      /\ \A other \in TaskId \ {id} : tasks'[other] = tasks[other]
  <2>1. Table(tasks) /\ Fits(new)
    BY <1>5 DEF Inv, Fits
  <2>2. tasks' = [tasks EXCEPT ![id] = new]
    BY <1>1 DEF new
  <2>3. Replaced(tasks', tasks, id, new)
    BY <1>3, <2>1, <2>2, SetRow, Zenon
  <2> QED
    BY <2>3 DEF Replaced
<1>7. \A other \in (births + 1)..MaxTasks : tasks'[other] = NoRow
  <2>1. \A other \in (births + 1)..MaxTasks : other \in TaskId \ {id}
    BY <1>3, <1>4 DEF TaskId
  <2> QED
    BY <1>4, <1>6, <2>1
<1>8. \A other \in TaskId :
        tasks'[other] # NoRow /\ tasks'[other].origin = "create" =>
          /\ tasks[other] # NoRow /\ tasks[other].origin = "create"
          /\ tasks'[other].given = tasks[other].given
  BY <1>3, <1>5, <1>6
<1>9. /\ Edit /\ Watch /\ births' = births
      /\ tags \subseteq tags' /\ tags' \subseteq String \ {<<>>}
  BY <1>2, <1>4
<1> QED
  BY <1>6, <1>7, <1>8, <1>9, TableStep

LEMMA FlagStep ==
  ASSUME Inv, setTaskFlag
  PROVE  Inv'
<1>1. PICK id \in Tasks, active \in BOOLEAN : tasks' = [tasks EXCEPT ![id].active = active]
  BY DEF setTaskFlag
<1> DEFINE new == [tasks[id] EXCEPT !.active = active]
<1>2. Edit /\ Watch /\ UNCHANGED <<tags, births>>
  BY DEF setTaskFlag
<1>3. id \in TaskId /\ tasks[id] # NoRow
  BY DEF Tasks
<1>4. /\ tasks[id] \in Row /\ Kept(tasks[id]) /\ births \in 0..MaxTasks
      /\ \A other \in (births + 1)..MaxTasks : tasks[other] = NoRow
      /\ tags \subseteq String \ {<<>>}
  BY <1>3, Typed
<1>5. /\ new \in Row /\ Kept(new)
      /\ new.origin = tasks[id].origin /\ new.given = tasks[id].given
  BY <1>4, FlaggedRow
<1>6. tasks' = [tasks EXCEPT ![id] = new]
  BY <1>1
<1> HIDE DEF new
<1>7. /\ Table(tasks') /\ tasks'[id] = new
      /\ \A other \in TaskId \ {id} : tasks'[other] = tasks[other]
  <2>1. Table(tasks) /\ Fits(new)
    BY <1>5 DEF Inv, Fits
  <2>2. Replaced(tasks', tasks, id, new)
    BY <1>3, <1>6, <2>1, SetRow, Zenon
  <2> QED
    BY <2>2 DEF Replaced
<1>8. \A other \in (births + 1)..MaxTasks : tasks'[other] = NoRow
  <2>1. \A other \in (births + 1)..MaxTasks : other \in TaskId \ {id}
    BY <1>3, <1>4 DEF TaskId
  <2> QED
    BY <1>4, <1>7, <2>1
<1>9. \A other \in TaskId :
        tasks'[other] # NoRow /\ tasks'[other].origin = "create" =>
          /\ tasks[other] # NoRow /\ tasks[other].origin = "create"
          /\ tasks'[other].given = tasks[other].given
  BY <1>3, <1>5, <1>7
<1>10. /\ Edit /\ Watch /\ births' = births
      /\ tags \subseteq tags' /\ tags' \subseteq String \ {<<>>}
  BY <1>2, <1>4
<1> QED
  BY <1>7, <1>8, <1>9, <1>10, TableStep

LEMMA DeleteStep ==
  ASSUME Inv, handleDeleteTask
  PROVE  Inv'
<1>1. PICK id \in Tasks : tasks' = [tasks EXCEPT ![id] = NoRow]
  BY DEF handleDeleteTask
<1>2. Edit /\ Watch /\ UNCHANGED <<tags, births>>
  BY DEF handleDeleteTask
<1>3. id \in TaskId /\ tasks[id] # NoRow
  BY DEF Tasks
<1>4. /\ births \in 0..MaxTasks /\ tags \subseteq String \ {<<>>}
      /\ \A other \in (births + 1)..MaxTasks : tasks[other] = NoRow
  BY Typed
<1>5. /\ Table(tasks') /\ tasks'[id] = NoRow
      /\ \A other \in TaskId \ {id} : tasks'[other] = tasks[other]
  <2>1. Table(tasks) /\ Fits(NoRow)
    BY DEF Inv, Fits
  <2>2. Replaced(tasks', tasks, id, NoRow)
    BY <1>1, <1>3, <2>1, SetRow, Zenon
  <2> QED
    BY <2>2 DEF Replaced
<1>6. \A other \in (births + 1)..MaxTasks : tasks'[other] = NoRow
  <2>1. \A other \in (births + 1)..MaxTasks : other \in TaskId \ {id}
    BY <1>3, <1>4 DEF TaskId
  <2> QED
    BY <1>4, <1>5, <2>1
<1>7. \A other \in TaskId :
        tasks'[other] # NoRow /\ tasks'[other].origin = "create" =>
          /\ tasks[other] # NoRow /\ tasks[other].origin = "create"
          /\ tasks'[other].given = tasks[other].given
  BY <1>3, <1>5
<1>8. /\ Edit /\ Watch /\ births' = births
      /\ tags \subseteq tags' /\ tags' \subseteq String \ {<<>>}
  BY <1>2, <1>4
<1> QED
  BY <1>5, <1>6, <1>7, <1>8, TableStep

LEMMA CreateTagStep ==
  ASSUME Inv, handleCreateTag
  PROVE  Inv'
<1>1. PICK name \in Names : TrimSpace(name) # <<>> /\ tags' = tags \cup {TrimSpace(name)}
  BY DEF handleCreateTag
<1>2. /\ edits < MaxEdits /\ edits' = edits + 1 /\ bulk' = Nil
      /\ tasks' = tasks /\ births' = births /\ pager' = pager
  BY DEF handleCreateTag, Edit
<1>3. /\ births \in 0..MaxTasks /\ edits \in 0..MaxEdits /\ tags \subseteq String \ {<<>>}
  BY Typed
<1>4. tags \subseteq tags' /\ tags' \subseteq String \ {<<>>}
  <2>1. TrimSpace(name) \in String
    BY Bounds, Trimmed
  <2> QED
    BY <1>1, <1>3, <2>1
<1>5. TypeOK'
  <2>1. edits' \in 0..MaxEdits
    BY <1>2, <1>3, Bounds
  <2> QED
    BY <1>2, <1>4, <2>1 DEF Inv, TypeOK, TaskId
<1>6. TidyTagsAreListed'
  BY <1>2, <1>4 DEF Inv, TidyTagsAreListed, Tasks
<1>7. Table(tasks') /\ Watched' /\ PagesMissNothing'
  BY <1>2 DEF Inv, Watched, PagesMissNothing
<1> QED
  BY <1>5, <1>6, <1>7 DEF Inv

LEMMA BulkPauseStep ==
  ASSUME Inv, handleBulkPause
  PROVE  Inv'
<1>1. PICK name \in Names :
        /\ TrimSpace(name) # <<>>
        /\ bulk' = [tag |-> TrimSpace(name), paused |-> Cardinality(Pausable(TrimSpace(name)))]
  BY Zenon DEF handleBulkPause
<1> DEFINE tag == TrimSpace(name)
<1>2. /\ tasks' = tasks /\ tags' = tags /\ births' = births /\ edits' = edits
      /\ pager' = pager
  BY DEF handleBulkPause
<1>3. Cardinality(Pausable(tag)) \in 0..MaxTasks
  <2>1. Pausable(tag) \in SUBSET TaskId
    BY Zenon DEF Pausable, Tasks
  <2>2. IsFiniteSet(TaskId) /\ Cardinality(TaskId) = MaxTasks
    BY Bounds, FS_Interval DEF TaskId
  <2>3. Cardinality(Pausable(tag)) \in Nat /\ Cardinality(Pausable(tag)) <= MaxTasks
    BY <2>1, <2>2, FS_Subset, FS_CardinalityType
  <2> QED
    BY <2>3, Bounds
<1>4. tag \in String \ {<<>>}
  BY <1>1, Bounds, Trimmed
<1> HIDE DEF tag
<1>5. bulk' \in [tag : String \ {<<>>}, paused : 0..MaxTasks]
  BY <1>1, <1>3, <1>4 DEF tag
<1>6. TypeOK'
  BY <1>2, <1>5 DEF Inv, TypeOK, TaskId
<1>7. Table(tasks') /\ TidyTagsAreListed' /\ Watched' /\ PagesMissNothing'
  BY <1>2 DEF Inv, TidyTagsAreListed, Tasks, Watched, PagesMissNothing
<1> QED
  BY <1>6, <1>7 DEF Inv

(* The steps of the client leave the tables alone.                         *)
LEMMA PagerStep ==
  ASSUME Inv, UNCHANGED <<tasks, tags, births, edits, bulk>>,
         pager' \in PagerStates, Watched', PagesMissNothing'
  PROVE  Inv'
<1>1. tasks' = tasks /\ tags' = tags /\ births' = births /\ edits' = edits /\ bulk' = bulk
  OBVIOUS
<1>2. TypeOK'
  BY <1>1 DEF Inv, TypeOK, TaskId, PagerStates
<1>3. Table(tasks') /\ TidyTagsAreListed'
  BY <1>1 DEF Inv, TidyTagsAreListed, Tasks
<1> QED
  BY <1>2, <1>3 DEF Inv

LEMMA OpenStep ==
  ASSUME Inv, OpenPager
  PROVE  Inv'
<1>1. PICK f \in Filters :
        pager' = [NoPager EXCEPT !.filter = f, !.state = "on",
                                 !.stayed = Range(ListTasks(tasks, f))]
  BY DEF OpenPager
<1>2. UNCHANGED <<tasks, tags, births, edits, bulk>>
  BY DEF OpenPager
<1> DEFINE S == Shown(tasks, f)
<1>3. /\ S \in SUBSET TaskId /\ S \in SUBSET Int /\ IsFiniteSet(S)
      /\ ListTasks(tasks, f) = DescendingList(S)
  BY ShownRows
<1>4. Range(ListTasks(tasks, f)) = S
  BY <1>3, Places
<1> HIDE DEF S
<1>5. pager' = [NoPager EXCEPT !.filter = f, !.state = "on", !.stayed = S]
  BY <1>1, <1>4
<1>6. /\ pager' \in PagerStates /\ pager'.state = "on" /\ pager'.filter = f
      /\ pager'.stayed = S /\ pager'.seen = {} /\ pager'.pages = 0 /\ pager'.gone = 0
  <2>1. pager' = [filter |-> f, state |-> "on", pages |-> 0, seen |-> {},
                  stayed |-> S, gone |-> 0]
    BY <1>5 DEF NoPager
  <2>2. 0 \in 0..MaxPages /\ {} \in SUBSET TaskId /\ f \in Filters \cup {NoFilter}
    BY Bounds
  <2> QED
    BY <1>3, <2>1, <2>2 DEF PagerStates
<1>7. Watched'
  <2>1. S = Shown(tasks', pager'.filter) /\ PageSize * pager'.pages = 0
    BY <1>2, <1>6, Bounds DEF S
  <2>2. Ahead(pager'.stayed \ pager'.seen, S, 0) = {}
    <3>1. \A x \in S : Before(S, x) \in Nat
      BY <1>3, Places
    <3>2. \A x \in S : ~(Before(S, x) < 0)
      BY <3>1
    <3> QED
      BY <1>6, <3>2 DEF Ahead
  <2>3. Cardinality(Ahead(pager'.stayed \ pager'.seen, S, 0)) <= 0
    BY <2>2, FS_EmptySet
  <2> QED
    BY <1>6, <2>1, <2>3 DEF Watched
<1>8. PagesMissNothing'
  BY <1>6 DEF PagesMissNothing
<1> QED
  BY <1>2, <1>6, <1>7, <1>8, PagerStep

LEMMA ListStep ==
  ASSUME Inv, handleListTasks
  PROVE  Inv'
<1> DEFINE S == Shown(tasks, pager.filter)
           n == PageSize * pager.pages
           page == Page(ListTasks(tasks, pager.filter), PageSize, n)
           A == pager.stayed \ pager.seen
           B == A \ Range(page)
<1>1. /\ pager.state = "on" /\ pager.pages < MaxPages
      /\ pager' = [pager EXCEPT !.pages = @ + 1, !.seen = @ \cup Range(page),
                                !.state = IF Len(page) < PageSize THEN "done" ELSE "on"]
      /\ UNCHANGED <<tasks, tags, births, edits, bulk>>
  BY Zenon DEF handleListTasks
<1>2. pager \in PagerStates /\ pager.pages \in 0..MaxPages /\ pager.gone \in Nat
      /\ pager.seen \in SUBSET TaskId
  BY Typed DEF PagerStates
<1>3. n \in Nat
  BY <1>2, Bounds
<1>4. /\ S \in SUBSET TaskId /\ S \in SUBSET Int /\ IsFiniteSet(S)
      /\ ListTasks(tasks, pager.filter) = DescendingList(S)
  BY ShownRows
<1>5. /\ pager.stayed \in SUBSET S
      /\ Cardinality(Ahead(A, S, n)) <= pager.gone
  BY <1>1 DEF Inv, Watched
<1> HIDE DEF S, n
<1>6. /\ Range(page) \subseteq S
      /\ \A x \in S : n <= Before(S, x) /\ Before(S, x) < n + PageSize => x \in Range(page)
      /\ Len(page) < PageSize => \A x \in S : Before(S, x) < n + PageSize
  BY <1>3, <1>4, PageShows, Bounds
<1> HIDE DEF page
<1>7. \A x \in S : Before(S, x) \in Nat
  BY <1>4, Places
<1>8. Ahead(B, S, n + PageSize) \in SUBSET Ahead(A, S, n)
  <2> SUFFICES ASSUME NEW x \in Ahead(B, S, n + PageSize) PROVE x \in Ahead(A, S, n)
    OBVIOUS
  <2>1. x \in A /\ x \notin Range(page) /\ x \in S /\ Before(S, x) < n + PageSize
    BY <1>5 DEF Ahead
  <2>2. Before(S, x) < n
    BY <1>3, <1>6, <1>7, <2>1
  <2> QED
    BY <2>1, <2>2 DEF Ahead
<1>9. Cardinality(Ahead(B, S, n + PageSize)) <= pager.gone
      /\ IsFiniteSet(Ahead(B, S, n + PageSize))
  <2>1. Ahead(A, S, n) \in SUBSET S
    BY <1>5 DEF Ahead
  <2>2. IsFiniteSet(Ahead(A, S, n)) /\ Cardinality(Ahead(A, S, n)) \in Nat
    BY <1>4, <2>1, FS_Subset, FS_CardinalityType
  <2>3. /\ IsFiniteSet(Ahead(B, S, n + PageSize))
        /\ Cardinality(Ahead(B, S, n + PageSize)) <= Cardinality(Ahead(A, S, n))
    BY <1>8, <2>2, FS_Subset
  <2>4. Cardinality(Ahead(B, S, n + PageSize)) \in Nat
    BY <2>3, FS_CardinalityType
  <2> QED
    BY <1>2, <1>5, <2>2, <2>3, <2>4
<1>10. /\ pager' \in PagerStates /\ pager'.filter = pager.filter
       /\ pager'.pages = pager.pages + 1 /\ pager'.seen = pager.seen \cup Range(page)
       /\ pager'.stayed = pager.stayed /\ pager'.gone = pager.gone
       /\ pager'.state = IF Len(page) < PageSize THEN "done" ELSE "on"
  <2> DEFINE seen == pager.seen \cup Range(page)
             state == IF Len(page) < PageSize THEN "done" ELSE "on"
             pages == pager.pages + 1
  <2>1. seen \in SUBSET TaskId /\ state \in {"off", "on", "done"} /\ pages \in 0..MaxPages
    BY <1>1, <1>2, <1>4, <1>6, Bounds
  <2>2. pager' = [pager EXCEPT !.pages = pages, !.seen = seen, !.state = state]
    BY <1>1
  <2> HIDE DEF seen, state, pages
  <2>3. /\ pager' \in PagerStates /\ pager'.filter = pager.filter
        /\ pager'.pages = pages /\ pager'.seen = seen /\ pager'.stayed = pager.stayed
        /\ pager'.gone = pager.gone /\ pager'.state = state
    BY <1>2, <2>1, <2>2 DEF PagerStates
  <2> QED
    BY <2>3 DEF seen, state, pages
<1>11. pager'.stayed \ pager'.seen = B
  BY <1>10
<1>12. Watched'
  <2>1. PageSize * pager'.pages = n + PageSize
    BY <1>2, <1>10, Bounds DEF n
  <2>2. S = Shown(tasks', pager'.filter)
    BY <1>1, <1>10 DEF S
  <2>3. pager'.stayed \subseteq S
    BY <1>5, <1>10
  <2> HIDE DEF B
  <2> QED
    BY <1>9, <1>10, <1>11, <2>1, <2>2, <2>3 DEF Watched
<1>13. PagesMissNothing'
  <2> SUFFICES ASSUME pager'.state = "done"
               PROVE  Cardinality(pager'.stayed \ pager'.seen) <= pager'.gone
    BY DEF PagesMissNothing
  <2>1. Len(page) < PageSize
    BY <1>10
  <2>2. \A x \in S : Before(S, x) < n + PageSize
    BY <1>6, <2>1
  <2>3. B \in SUBSET S
    BY <1>5
  <2>4. Ahead(B, S, n + PageSize) = B
    BY <2>2, <2>3 DEF Ahead
  <2> HIDE DEF B
  <2> QED
    BY <1>9, <1>10, <1>11, <2>4
<1> QED
  BY <1>1, <1>10, <1>12, <1>13, PagerStep

LEMMA CloseStep ==
  ASSUME Inv, ClosePager
  PROVE  Inv'
<1>1. pager' = NoPager /\ UNCHANGED <<tasks, tags, births, edits, bulk>>
  BY DEF ClosePager
<1>2. pager' \in PagerStates /\ pager'.state = "off"
  BY <1>1, Bounds DEF NoPager, PagerStates
<1>3. Watched' /\ PagesMissNothing'
  BY <1>2 DEF Watched, PagesMissNothing
<1> QED
  BY <1>1, <1>2, <1>3, PagerStep

LEMMA NextInv == Inv /\ [Next]_vars => Inv'
<1> SUFFICES ASSUME Inv, [Next]_vars PROVE Inv'
  OBVIOUS
<1>1. CASE handleCreateTask
  BY <1>1, CreateStep
<1>2. CASE handleUpdateTask
  BY <1>2, UpdateStep
<1>3. CASE handleDeleteTask
  BY <1>3, DeleteStep
<1>4. CASE setTaskFlag
  BY <1>4, FlagStep
<1>5. CASE handleCreateTag
  BY <1>5, CreateTagStep
<1>6. CASE handleBulkPause
  BY <1>6, BulkPauseStep
<1>7. CASE OpenPager
  BY <1>7, OpenStep
<1>8. CASE handleListTasks
  BY <1>8, ListStep
<1>9. CASE ClosePager
  BY <1>9, CloseStep
<1>10. CASE UNCHANGED vars
  <2>1. UNCHANGED <<tasks, tags, births, edits, bulk>> /\ pager' = pager
    BY <1>10 DEF vars
  <2>2. pager' \in PagerStates
    BY <2>1, Typed
  <2>3. Watched' /\ PagesMissNothing'
    BY <2>1 DEF Inv, Watched, PagesMissNothing, Shown
  <2> QED
    BY <2>1, <2>2, <2>3, PagerStep
<1> QED
  BY <1>1, <1>2, <1>3, <1>4, <1>5, <1>6, <1>7, <1>8, <1>9, <1>10, Zenon DEF Next

LEMMA Invariance == Spec => []Inv
<1>1. Init => Inv
  BY InitInv
<1>2. Inv /\ [Next]_vars => Inv'
  BY NextInv
<1> QED
  BY <1>1, <1>2, PTL DEF Spec

-----------------------------------------------------------------------------
(* Every request leaves well-formed rows, tags, answers and pages, however *)
(* many tasks, edits, tags and characters there are: in particular no      *)
(* blank name ever enters the table tags (handleCreateTag, UpsertTag) and  *)
(* a bulk pause never counts more rows than there are tasks.               *)
THEOREM TypeCorrect == Spec => []TypeOK
<1>1. Inv => TypeOK
  BY DEF Inv
<1> QED
  BY <1>1, Invariance, PTL

(* A task carries the words it was given: whatever tags clients send,      *)
(* trimming, joining (TagsCSV), splitting (scanTaskRow) and joining again  *)
(* on every later update neither lose nor invent one, and after a rewrite  *)
(* there is one piece for each word.                                       *)
THEOREM WordsSurvive == Spec => []KeepsTheWords
<1>1. Inv => KeepsTheWords
  <2> SUFFICES ASSUME Inv, NEW id \in Tasks
               PROVE  /\ Words(Read(tasks[id].column)) = Words(tasks[id].given)
                      /\ tasks[id].rewritten =>
                           Len(Read(tasks[id].column)) = Cardinality(Words(tasks[id].given))
    BY DEF KeepsTheWords
  <2>1. Kept(tasks[id])
    BY Typed DEF Tasks
  <2> QED
    BY <2>1, KeptShowsWords
<1> QED
  BY <1>1, Invariance, PTL

(* A search by tag (ListTasks) finds every task that was given the tag,    *)
(* whatever stands around it in the column and however often the column    *)
(* was rewritten; a tag with a comma is found until the first rewrite.     *)
THEOREM CarriersAreFound == Spec => []FoundByTag
<1>1. Inv => FoundByTag
  <2> SUFFICES ASSUME Inv, NEW id \in Tasks, NEW t \in Range(tasks[id].given),
                      TrimSpace(t) # <<>>,
                      tasks[id].rewritten => Comma \notin Range(TrimSpace(t))
               PROVE  id \in Range(TasksByTag(TrimSpace(t)))
    BY DEF FoundByTag
  <2> DEFINE tag == TrimSpace(t)
             f == [NoFilter EXCEPT !.tag = tag]
             S == Shown(tasks, f)
  <2>1. id \in TaskId /\ tasks[id] # NoRow
    BY DEF Tasks
  <2>2. HasTag(tasks[id].column, tag)
    BY <2>1, Typed, KeptIsFound
  <2>3. f.tag = tag /\ f.active = FALSE
    BY DEF NoFilter
  <2> HIDE DEF f
  <2>4. Selected(f, tasks[id])
    BY <2>2, <2>3 DEF Selected
  <2>5. id \in S
    BY <2>1, <2>4 DEF Shown
  <2>6. Range(ListTasks(tasks, f)) = S
    BY ShownRows, Places
  <2> QED
    BY <2>5, <2>6 DEF f, TasksByTag
<1> QED
  BY <1>1, Invariance, PTL

(* And nothing else: a task a search lists has the tag, up to case, as one *)
(* of the pieces of its column, never as a part of a piece or as one that  *)
(* reaches over a comma.                                                   *)
THEOREM OnlyCarriersAreFound == Spec => []FindsOnlyCarriers
<1>1. Inv => FindsOnlyCarriers
  <2> SUFFICES ASSUME Inv, NEW name \in Names, TrimSpace(name) # <<>>,
                      Comma \notin Range(TrimSpace(name)),
                      NEW id \in Range(TasksByTag(TrimSpace(name)))
               PROVE  Folded(TrimSpace(name)) \in
                        {Folded(w) : w \in Range(Read(tasks[id].column))}
    BY DEF FindsOnlyCarriers
  <2> DEFINE tag == TrimSpace(name)
             f == [NoFilter EXCEPT !.tag = tag]
             S == Shown(tasks, f)
  <2>1. tag \in String \ {<<>>}
    BY Bounds, Trimmed
  <2>2. f.tag = tag /\ tag # Nil
    BY <2>1, Bounds DEF NoFilter
  <2> HIDE DEF f
  <2>3. Range(ListTasks(tasks, f)) = S
    BY ShownRows, Places
  <2>4. id \in S
    BY <2>3 DEF f, TasksByTag
  <2>5. id \in TaskId /\ tasks[id] # NoRow /\ HasTag(tasks[id].column, tag)
    BY <2>2, <2>4 DEF Shown, Selected
  <2>6. tasks[id].column \in String
    BY <2>5, Typed DEF Kept
  <2> HIDE DEF tag
  <2>7. Comma \notin Range(tag)
    BY DEF tag
  <2>8. Folded(tag) \in {Folded(w) : w \in Range(Read(tasks[id].column))}
    BY <2>1, <2>5, <2>6, <2>7, FoundHasPiece
  <2> QED
    BY <2>8 DEF tag
<1> QED
  BY <1>1, Invariance, PTL

(* Every tag a task was created with is in the table tags, unless it came  *)
(* with spaces around it (handleCreateTask, cleanTag): no operation takes  *)
(* a tag out.                                                              *)
THEOREM CreatedTagsAreListed == Spec => []TidyTagsAreListed
<1>1. Inv => TidyTagsAreListed
  BY DEF Inv
<1> QED
  BY <1>1, Invariance, PTL

(* Paging by limit and offset (handleListTasks) while others create,       *)
(* change and delete tasks misses at most one task for each that left the  *)
(* list meanwhile, whatever the filter, the page size and the number of    *)
(* pages.                                                                  *)
THEOREM PagesMissFew == Spec => []PagesMissNothing
<1>1. Inv => PagesMissNothing
  BY DEF Inv
<1> QED
  BY <1>1, Invariance, PTL
=============================================================================
