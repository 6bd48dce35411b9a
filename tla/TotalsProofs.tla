---------------------------- MODULE TotalsProofs ----------------------------
(***************************************************************************)
(* Lemmas about Total.  Induction is done with least counterexamples: the  *)
(* library's order on finite subsets is well founded, so that a non-empty  *)
(* set of naturals has a least element.                                    *)
(***************************************************************************)
EXTENDS Totals, FiniteSetTheorems, TLAPS

\* Every non-empty set of naturals has a least element.
LEMMA LeastNatural ==
    ASSUME NEW S \in SUBSET Nat, S # {}
    PROVE  \E m \in S : \A k \in S : m <= k
<1> DEFINE T == {1..m : m \in S}
<1>1. T \subseteq FiniteSubsetsOf(Nat)
  BY FS_Interval DEF FiniteSubsetsOf
<1>2. T # {}
  OBVIOUS
<1>3. \E x \in T : \A y \in T : ~(<<y, x>> \in StrictSubsetOrdering(Nat))
  <2> HIDE DEF T
  <2> QED
    BY <1>1, <1>2, WFMin, FS_StrictSubsetOrderingWellFounded
<1>4. PICK x \in S : \A y \in S : ~(<<1..y, 1..x>> \in StrictSubsetOrdering(Nat))
  BY <1>3
<1>5. ASSUME NEW y \in S, y < x PROVE FALSE
  <2>1. 1..y \subseteq 1..x /\ x \in 1..x /\ x \notin 1..y
    BY <1>5
  <2>2. <<1..y, 1..x>> \in (SUBSET Nat) \X (SUBSET Nat)
    OBVIOUS
  <2> QED
    BY <2>1, <2>2, <1>4 DEF StrictSubsetOrdering
<1> QED
  BY <1>5

\* g holds the sums of the first numbers of a, up to the m-th.
SumsTo(m, a, g) ==
    /\ g \in [0..m -> Int]
    /\ g[0] = 0
    /\ \A i \in 1..m : g[i] = g[i - 1] + a[i]

\* Such a g exists: extend one for m - 1 where m is the least without.
LEMMA SumsExist ==
    ASSUME NEW n \in Nat, NEW a \in [1..n -> Int]
    PROVE  \E g : SumsTo(n, a, g)
<1> DEFINE Bad == {m \in 0..n : ~\E g : SumsTo(m, a, g)}
<1> SUFFICES ASSUME ~\E g : SumsTo(n, a, g) PROVE FALSE
  OBVIOUS
<1>0. n \in Bad
  OBVIOUS
<1>1. PICK m \in Bad : \A k \in Bad : m <= k
  <2>1. Bad \in SUBSET Nat
    OBVIOUS
  <2> HIDE DEF Bad
  <2> QED
    BY <1>0, <2>1, LeastNatural
<1>2. CASE m = 0
  <2>1. SumsTo(0, a, [i \in 0..0 |-> 0])
    BY DEF SumsTo
  <2> QED
    BY <1>1, <1>2, <2>1
<1>3. CASE m # 0
  <2>1. m \in 1..n /\ m - 1 \in 0..n
    BY <1>1, <1>3
  <2>2. m - 1 \notin Bad
    BY <1>1, <2>1
  <2>3. PICK g : SumsTo(m - 1, a, g)
    BY <2>1, <2>2
  <2> DEFINE h == [i \in 0..m |-> IF i = m THEN g[m - 1] + a[m] ELSE g[i]]
  <2>4. g \in [0..(m - 1) -> Int] /\ a[m] \in Int
    BY <2>1, <2>3 DEF SumsTo
  <2>5. h \in [0..m -> Int] /\ h[0] = 0
    BY <2>1, <2>3, <2>4 DEF SumsTo
  <2>6. ASSUME NEW i \in 1..m PROVE h[i] = h[i - 1] + a[i]
    <3>1. m \in Nat /\ i \in 0..m /\ i - 1 \in 0..m /\ i - 1 # m
      BY <2>1
    <3>2. h[i - 1] = g[i - 1]
      BY <3>1
    <3>3. CASE i = m
      BY <3>1, <3>2, <3>3
    <3>4. CASE i # m
      <4>1. i \in 1..(m - 1)
        BY <3>1, <3>4
      <4>2. h[i] = g[i] /\ g[i] = g[i - 1] + a[i]
        BY <2>3, <3>1, <3>4, <4>1 DEF SumsTo
      <4> QED
        BY <3>2, <4>2
    <3> QED
      BY <3>3, <3>4
  <2>7. SumsTo(m, a, h)
    BY <2>5, <2>6 DEF SumsTo
  <2> QED
    BY <1>1, <2>7
<1> QED
  BY <1>2, <1>3

\* The recursive definition has the values it says.
LEMMA PartialSumsRule ==
    ASSUME NEW n \in Nat, NEW a \in [1..n -> Int]
    PROVE  SumsTo(n, a, PartialSums(n, a))
<1> DEFINE IsSum(s) == s = [i \in 0..n |-> IF i = 0 THEN 0 ELSE s[i - 1] + a[i]]
<1>1. PICK g : SumsTo(n, a, g)
  BY SumsExist
<1>2. IsSum(g)
  BY <1>1 DEF SumsTo
<1>3. IsSum(PartialSums(n, a))
  BY <1>2 DEF PartialSums
<1> DEFINE s == PartialSums(n, a)
           Bad == {i \in 0..n : s[i] \notin Int}
<1>4. /\ s = [i \in 0..n |-> s[i]]
      /\ s[0] = 0
      /\ \A i \in 1..n : s[i] = s[i - 1] + a[i]
  <2> HIDE DEF s
  <2>1. s = [i \in 0..n |-> IF i = 0 THEN 0 ELSE s[i - 1] + a[i]]
    BY <1>3 DEF s
  <2> QED
    BY <2>1
<1>5. Bad = {}
  <2> HIDE DEF s
  <2>1. SUFFICES ASSUME Bad # {} PROVE FALSE
    OBVIOUS
  <2>2. PICK m \in Bad : \A k \in Bad : m <= k
    <3>1. Bad \in SUBSET Nat
      OBVIOUS
    <3> HIDE DEF Bad
    <3> QED
      BY <2>1, <3>1, LeastNatural
  <2>3. m # 0 /\ m \in 1..n /\ m - 1 \in 0..n
    BY <1>4, <2>2
  <2>4. s[m - 1] \in Int
    BY <2>2, <2>3
  <2>5. a[m] \in Int /\ s[m] = s[m - 1] + a[m]
    BY <1>4, <2>3
  <2>6. s[m] \in Int
    BY <2>4, <2>5
  <2> QED
    BY <2>2, <2>6
<1> QED
  <2> HIDE DEF s
  <2>1. s \in [0..n -> Int]
    BY <1>4, <1>5
  <2>2. SumsTo(n, a, s)
    BY <1>4, <2>1 DEF SumsTo
  <2> QED
    BY <2>2 DEF s

\* A total is a number.
LEMMA TotalType ==
    ASSUME NEW n \in Nat, NEW a \in [1..n -> Int]
    PROVE  Total(n, a) \in Int
  BY PartialSumsRule DEF Total, SumsTo

\* Changing one number changes the total by as much.
LEMMA TotalChange ==
    ASSUME NEW n \in Nat, NEW a \in [1..n -> Int], NEW b \in [1..n -> Int],
           NEW l \in 1..n, \A k \in 1..n \ {l} : b[k] = a[k]
    PROVE  Total(n, b) = Total(n, a) - a[l] + b[l]
<1> DEFINE s == PartialSums(n, a)
           t == PartialSums(n, b)
           Bad == {i \in 0..n : t[i] # IF i < l THEN s[i] ELSE s[i] - a[l] + b[l]}
<1>1. SumsTo(n, a, s) /\ SumsTo(n, b, t)
  BY PartialSumsRule
<1> HIDE DEF s, t
<1>2. Bad = {}
  <2>1. SUFFICES ASSUME Bad # {} PROVE FALSE
    OBVIOUS
  <2>2. PICK m \in Bad : \A k \in Bad : m <= k
    <3>1. Bad \in SUBSET Nat
      OBVIOUS
    <3> HIDE DEF Bad
    <3> QED
      BY <2>1, <3>1, LeastNatural
  <2>3. m \in 1..n /\ m - 1 \in 0..n
    BY <1>1, <2>2 DEF SumsTo
  <2>4. m - 1 \notin Bad
    BY <2>2, <2>3
  <2>5. t[m] = t[m - 1] + b[m] /\ s[m] = s[m - 1] + a[m]
    BY <1>1, <2>3 DEF SumsTo
  <2>6. /\ s[m - 1] \in Int /\ t[m - 1] \in Int /\ a[m] \in Int /\ b[m] \in Int
        /\ a[l] \in Int /\ b[l] \in Int
    BY <1>1, <2>3 DEF SumsTo
  <2>7. CASE m < l
    BY <2>2, <2>3, <2>4, <2>5, <2>6, <2>7
  <2>8. CASE m = l
    BY <2>2, <2>3, <2>4, <2>5, <2>6, <2>8
  <2>9. CASE m > l
    BY <2>2, <2>3, <2>4, <2>5, <2>6, <2>9, SMTT(20)
  <2> QED
    BY <2>3, <2>7, <2>8, <2>9
<1>3. n \in 0..n /\ ~(n < l)
  OBVIOUS
<1> QED
  BY <1>2, <1>3 DEF Total, s, t

\* Numbers that are not negative have a total that none of them exceeds.
LEMMA TotalBounds ==
    ASSUME NEW n \in Nat, NEW a \in [1..n -> Nat]
    PROVE  \A l \in 1..n : a[l] <= Total(n, a)
<1> SUFFICES ASSUME NEW l \in 1..n PROVE a[l] <= Total(n, a)
  OBVIOUS
<1> DEFINE s == PartialSums(n, a)
           Bad == {i \in 0..n : ~(0 <= s[i] /\ (l <= i => a[l] <= s[i]))}
<1>1. SumsTo(n, a, s)
  BY PartialSumsRule
<1> HIDE DEF s
<1>2. Bad = {}
  <2>1. SUFFICES ASSUME Bad # {} PROVE FALSE
    OBVIOUS
  <2>2. PICK m \in Bad : \A k \in Bad : m <= k
    <3>1. Bad \in SUBSET Nat
      OBVIOUS
    <3> HIDE DEF Bad
    <3> QED
      BY <2>1, <3>1, LeastNatural
  <2>3. m \in 1..n /\ m - 1 \in 0..n
    BY <1>1, <2>2 DEF SumsTo
  <2>4. m - 1 \notin Bad
    BY <2>2, <2>3
  <2>5. s[m] = s[m - 1] + a[m] /\ s[m - 1] \in Int /\ a[m] \in Nat /\ a[l] \in Nat
    BY <1>1, <2>3 DEF SumsTo
  <2>6. s[m] >= s[m - 1] /\ s[m] >= a[m]
    BY <2>3, <2>4, <2>5
  <2>7. CASE m = l
    BY <2>2, <2>3, <2>4, <2>5, <2>6, <2>7
  <2>8. CASE m # l
    BY <2>2, <2>3, <2>4, <2>5, <2>6, <2>8
  <2> QED
    BY <2>7, <2>8
<1>3. n \in 0..n /\ l <= n
  OBVIOUS
<1> QED
  BY <1>2, <1>3 DEF Total, s

\* Smaller numbers have a smaller total.
LEMMA TotalMonotone ==
    ASSUME NEW n \in Nat, NEW a \in [1..n -> Nat], NEW b \in [1..n -> Nat],
           \A l \in 1..n : a[l] <= b[l]
    PROVE  0 <= Total(n, a) /\ Total(n, a) <= Total(n, b)
<1> DEFINE s == PartialSums(n, a)
           t == PartialSums(n, b)
           Bad == {i \in 0..n : ~(0 <= s[i] /\ s[i] <= t[i])}
<1>1. SumsTo(n, a, s) /\ SumsTo(n, b, t)
  BY PartialSumsRule
<1> HIDE DEF s, t
<1>2. Bad = {}
  <2>1. SUFFICES ASSUME Bad # {} PROVE FALSE
    OBVIOUS
  <2>2. PICK m \in Bad : \A k \in Bad : m <= k
    <3>1. Bad \in SUBSET Nat
      OBVIOUS
    <3> HIDE DEF Bad
    <3> QED
      BY <2>1, <3>1, LeastNatural
  <2>3. m \in 1..n /\ m - 1 \in 0..n
    BY <1>1, <2>2 DEF SumsTo
  <2>4. m - 1 \notin Bad
    BY <2>2, <2>3
  <2>5. /\ s[m] = s[m - 1] + a[m] /\ t[m] = t[m - 1] + b[m]
        /\ s[m - 1] \in Int /\ t[m - 1] \in Int
        /\ a[m] \in Nat /\ b[m] \in Nat /\ a[m] <= b[m]
    BY <1>1, <2>3 DEF SumsTo
  <2> QED
    BY <2>2, <2>3, <2>4, <2>5
<1> QED
  BY <1>2 DEF Total, s, t

\* The total of zeros is zero.
LEMMA TotalOfZeros ==
    ASSUME NEW n \in Nat, NEW a \in [1..n -> Int], \A l \in 1..n : a[l] = 0
    PROVE  Total(n, a) = 0
<1> DEFINE s == PartialSums(n, a)
           Bad == {i \in 0..n : s[i] # 0}
<1>1. SumsTo(n, a, s)
  BY PartialSumsRule
<1> HIDE DEF s
<1>2. Bad = {}
  <2>1. SUFFICES ASSUME Bad # {} PROVE FALSE
    OBVIOUS
  <2>2. PICK m \in Bad : \A k \in Bad : m <= k
    <3>1. Bad \in SUBSET Nat
      OBVIOUS
    <3> HIDE DEF Bad
    <3> QED
      BY <2>1, <3>1, LeastNatural
  <2>3. m \in 1..n /\ m - 1 \in 0..n
    BY <1>1, <2>2 DEF SumsTo
  <2>4. m - 1 \notin Bad
    BY <2>2, <2>3
  <2> QED
    BY <1>1, <2>2, <2>3, <2>4 DEF SumsTo
<1> QED
  BY <1>2 DEF Total, s
=============================================================================
