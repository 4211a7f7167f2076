-------------------------- MODULE FoldPlanProofs --------------------------
(***************************************************************************)
(* The compaction planner, for every factor, percentage, limit and every   *)
(* sequence of pushes.                                                     *)
(***************************************************************************)
EXTENDS FoldPlan, Integers, TLAPS, WellFoundedInduction

\* Positive sizes, ascending.
Ladder(s) ==
  /\ s \in Seq(Nat \ {0})
  /\ \A i, j \in 1..Len(s) : i <= j => s[i] <= s[j]

-----------------------------------------------------------------------------
(* Numbers. *)

\* Every nonempty set of numbers has a least one: the induction used here.
LEMMA LeastNumber ==
  ASSUME NEW T \in SUBSET Nat, T # {}
  PROVE  \E n \in T : \A m \in T : n <= m
<1> DEFINE R == OpToRel(<, Nat)
<1>1. PICK x \in T : \A y \in T : ~ (<<y, x>> \in R)
  <2>1. IsWellFoundedOn(R, Nat)
    BY NatLessThanWellFounded, Zenon
  <2> HIDE DEF R
  <2> QED
    BY <2>1, WFMin
<1>2. \A y \in T : ~ (y < x)
  BY <1>1, Zenon DEF OpToRel
<1> QED
  BY <1>2

LEMMA GreatestNumber ==
  ASSUME NEW m \in Nat, NEW T \in SUBSET (0..m), T # {}
  PROVE  \E n \in T : \A j \in T : j <= n
<1> DEFINE U == {k \in 0..m : m - k \in T}
<1>1. U \in SUBSET Nat
  OBVIOUS
<1>2. U # {}
  <2>1. PICK j \in T : TRUE
    OBVIOUS
  <2>2. m - j \in 0..m /\ m - (m - j) = j
    BY <2>1
  <2>3. m - j \in U
    BY <2>1, <2>2
  <2> QED
    BY <2>3
<1> HIDE DEF U
<1>3. PICK k \in U : \A j \in U : k <= j
  BY <1>1, <1>2, LeastNumber
<1>4. k \in 0..m /\ m - k \in T
  BY <1>3 DEF U
<1>5. ASSUME NEW j \in T PROVE j <= m - k
  <2>1. j \in 0..m
    OBVIOUS
  <2>2. m - j \in 0..m /\ m - (m - j) = j
    BY <2>1
  <2>3. m - j \in U
    BY <2>2 DEF U
  <2>4. k <= m - j
    BY <1>3, <2>3
  <2> QED
    BY <1>4, <2>1, <2>4
<1> QED
  BY <1>4, <1>5

-----------------------------------------------------------------------------
(* Sums of sizes. *)

\* f are the sums of the first sizes of s, up to the m-th.
IsSum(s, m, f) == f = [i \in 0..m |-> IF i = 0 THEN 0 ELSE s[i] + f[i - 1]]

LEMMA IsSumSteps ==
  ASSUME NEW s, NEW m \in Nat, NEW f, IsSum(s, m, f)
  PROVE  /\ DOMAIN f = 0..m /\ f[0] = 0
         /\ \A i \in 1..m : f[i] = s[i] + f[i - 1]
  BY DEF IsSum

LEMMA SumExists ==
  ASSUME NEW s, NEW m \in Nat
  PROVE  \E f : IsSum(s, m, f)
<1> DEFINE T == {k \in Nat : ~ \E f : IsSum(s, k, f)}
<1> SUFFICES ASSUME T # {} PROVE FALSE
  OBVIOUS
<1>1. PICK k \in T : \A j \in T : k <= j
  BY LeastNumber
<1>2. k # 0
  <2> DEFINE g == [n \in 0..0 |-> 0]
  <2>1. IsSum(s, 0, g)
    BY DEF IsSum
  <2> QED
    BY <2>1
<1>3. k \in Nat /\ k - 1 \in Nat /\ ~ (k - 1 \in T)
  BY <1>1, <1>2
<1>4. PICK f : IsSum(s, k - 1, f)
  BY <1>3
<1> HIDE DEF T
<1> DEFINE g == [n \in 0..k |-> IF n = k THEN s[k] + f[k - 1] ELSE f[n]]
<1>5. f[0] = 0 /\ \A n \in 1..(k - 1) : f[n] = s[n] + f[n - 1]
  BY <1>3, <1>4, IsSumSteps
<1>6. ASSUME NEW n \in 0..k
      PROVE  g[n] = IF n = 0 THEN 0 ELSE s[n] + g[n - 1]
  <2>1. CASE n = k
    BY <2>1, <1>2, <1>3
  <2>2. CASE n # k
    BY <2>2, <1>3, <1>5
  <2> QED
    BY <2>1, <2>2
<1>7. IsSum(s, k, g)
  BY <1>6 DEF IsSum
<1> QED
  BY <1>7, <1>1 DEF T

\* What SumUpTo computes, step by step.
LEMMA SumSteps ==
  ASSUME NEW s \in Seq(Nat)
  PROVE  /\ SumUpTo(s)[0] = 0
         /\ \A i \in 1..Len(s) : SumUpTo(s)[i] = s[i] + SumUpTo(s)[i - 1]
<1>1. Len(s) \in Nat
  OBVIOUS
<1>2. \E f : IsSum(s, Len(s), f)
  BY <1>1, SumExists
<1>3. IsSum(s, Len(s), SumUpTo(s))
  BY <1>2 DEF IsSum, SumUpTo
<1> QED
  BY <1>1, <1>3, IsSumSteps

LEMMA SumsAreNumbers ==
  ASSUME NEW s \in Seq(Nat)
  PROVE  \A j \in 0..Len(s) : SumUpTo(s)[j] \in Nat
<1> DEFINE T == {j \in 0..Len(s) : SumUpTo(s)[j] \notin Nat}
<1> SUFFICES ASSUME T # {} PROVE FALSE
  OBVIOUS
<1>0. Len(s) \in Nat
  OBVIOUS
<1>1. PICK j \in T : \A m \in T : j <= m
  <2>1. T \in SUBSET Nat
    BY <1>0
  <2> QED
    BY <2>1, LeastNumber
<1>2. j # 0
  BY SumSteps
<1>3. j \in 1..Len(s) /\ j - 1 \in 0..Len(s) /\ ~ (j - 1 \in T)
  BY <1>0, <1>1, <1>2
<1>4. SumUpTo(s)[j - 1] \in Nat /\ s[j] \in Nat
  BY <1>3
<1>5. SumUpTo(s)[j] = s[j] + SumUpTo(s)[j - 1]
  BY <1>3, SumSteps
<1> QED
  BY <1>1, <1>4, <1>5

\* Packs of at least m bytes come to that many times m.
LEMMA SumAtLeast ==
  ASSUME NEW s \in Seq(Nat), NEW m \in Nat, NEW n \in 0..Len(s),
         \A i \in (n + 1)..Len(s) : s[i] >= m
  PROVE  \A j \in n..Len(s) : SumUpTo(s)[j] >= (j - n) * m
<1> DEFINE T == {j \in n..Len(s) : ~ (SumUpTo(s)[j] >= (j - n) * m)}
<1> SUFFICES ASSUME T # {} PROVE FALSE
  OBVIOUS
<1>0. Len(s) \in Nat /\ n \in Nat
  OBVIOUS
<1>1. PICK j \in T : \A k \in T : j <= k
  <2>1. T \in SUBSET Nat
    BY <1>0
  <2> QED
    BY <2>1, LeastNumber
<1>2. j # n
  <2>1. SumUpTo(s)[n] \in Nat
    BY SumsAreNumbers
  <2>2. (n - n) * m = 0
    BY <1>0
  <2> QED
    BY <1>1, <2>1, <2>2
<1>3. j \in (n + 1)..Len(s) /\ j \in 1..Len(s) /\ j - 1 \in n..Len(s)
      /\ j - 1 \in 0..Len(s) /\ ~ (j - 1 \in T) /\ j \in Nat
  BY <1>0, <1>1, <1>2
<1>4. SumUpTo(s)[j - 1] >= (j - 1 - n) * m /\ s[j] >= m
  BY <1>3
<1>5. SumUpTo(s)[j] = s[j] + SumUpTo(s)[j - 1]
  BY <1>3, SumSteps
<1>6. SumUpTo(s)[j - 1] \in Nat /\ s[j] \in Nat
  <2>1. SumUpTo(s)[j - 1] \in Nat
    BY <1>3, SumsAreNumbers
  <2> QED
    BY <1>3, <2>1
<1>7. (j - n) * m = (j - 1 - n) * m + m
  BY <1>0, <1>3
<1>8. (j - 1 - n) * m \in Int
  BY <1>0, <1>3
<1> QED
  BY <1>1, <1>4, <1>5, <1>6, <1>7, <1>8

LEMMA SumIsPositive ==
  ASSUME NEW s, Ladder(s), s # <<>>
  PROVE  SumOf(s) \in Nat \ {0}
<1>1. s \in Seq(Nat) /\ Len(s) \in Nat /\ Len(s) # 0 /\ \A i \in 1..Len(s) : s[i] >= 1
  BY DEF Ladder
<1>2. 0 \in 0..Len(s) /\ Len(s) \in 0..Len(s)
  BY <1>1
<1>3. SumUpTo(s)[Len(s)] >= (Len(s) - 0) * 1
  BY <1>1, <1>2, SumAtLeast
<1>4. SumUpTo(s)[Len(s)] \in Nat
  BY <1>1, <1>2, SumsAreNumbers
<1> QED
  BY <1>1, <1>3, <1>4 DEF SumOf

-----------------------------------------------------------------------------
(* The ladder. *)

LEMMA InsertKeepsLadder ==
  ASSUME NEW s, Ladder(s), NEW b \in Nat \ {0}
  PROVE  Ladder(InsertSize(s, b)) /\ Len(InsertSize(s, b)) = Len(s) + 1
<1> DEFINE z == InsertSize(s, b)
<1>1. Len(s) \in Nat /\ \A i \in 1..Len(s) : s[i] \in Nat \ {0}
  BY DEF Ladder
<1>2. \A i \in 1..(Len(s) + 1) :
        z[i] = IF i <= Len(s) /\ s[i] <= b THEN s[i]
               ELSE IF i = 1 \/ s[i - 1] <= b THEN b ELSE s[i - 1]
  BY DEF InsertSize
<1>3. ASSUME NEW i \in 1..(Len(s) + 1) PROVE z[i] \in Nat \ {0}
  <2>1. CASE i <= Len(s) /\ s[i] <= b
    BY <1>1, <1>2, <2>1
  <2>2. CASE i = 1 /\ ~ (i <= Len(s) /\ s[i] <= b)
    BY <1>2, <2>2
  <2>3. CASE i # 1 /\ ~ (i <= Len(s) /\ s[i] <= b)
    <3>1. i - 1 \in 1..Len(s)
      BY <1>1, <2>3
    <3> QED
      BY <1>1, <1>2, <2>3, <3>1
  <2> QED
    BY <2>1, <2>2, <2>3
<1>4. z \in Seq(Nat \ {0}) /\ Len(z) = Len(s) + 1
  <2>1. z = [i \in 1..(Len(s) + 1) |-> z[i]]
    BY DEF InsertSize
  <2> HIDE DEF z
  <2>2. Len(s) + 1 \in Nat
    BY <1>1
  <2> QED
    BY <1>3, <2>1, <2>2
<1>5. ASSUME NEW i \in 1..(Len(s) + 1), NEW j \in 1..(Len(s) + 1), i <= j
      PROVE  z[i] <= z[j]
  <2>1. \A h, k \in 1..Len(s) : h <= k => s[h] <= s[k]
    BY DEF Ladder
  <2>2. i # 1 => i - 1 \in 1..Len(s)
    BY <1>1
  <2>3. j # 1 => j - 1 \in 1..Len(s)
    BY <1>1
  <2>4. i <= Len(s) => i \in 1..Len(s)
    BY <1>1
  <2>5. j <= Len(s) => j \in 1..Len(s)
    BY <1>1
  <2>6. i \in Nat /\ j \in Nat /\ z[i] \in Nat /\ z[j] \in Nat
    BY <1>1, <1>3
  <2> HIDE DEF z
  <2>7. CASE i = j
    BY <2>6, <2>7
  <2>8. CASE i < j
    <3>1. i <= Len(s) /\ i <= j - 1 /\ i \in 1..Len(s) /\ j - 1 \in 1..Len(s)
      BY <1>1, <2>4, <2>3, <2>8
    <3>2. s[i] <= s[j - 1] /\ s[i] \in Nat /\ s[j - 1] \in Nat
      BY <1>1, <2>1, <3>1
    <3>3. j <= Len(s) => s[i] <= s[j] /\ s[j - 1] <= s[j] /\ s[j] \in Nat
      BY <1>1, <2>1, <2>5, <3>1
    <3>4. i # 1 => s[i - 1] <= s[i] /\ s[i - 1] <= s[j - 1] /\ s[i - 1] \in Nat
      BY <1>1, <2>1, <2>2, <3>1
    <3>5. z[i] = IF s[i] <= b THEN s[i] ELSE IF i = 1 \/ s[i - 1] <= b THEN b ELSE s[i - 1]
      BY <1>2, <3>1
    <3>6. z[j] = IF j <= Len(s) /\ s[j] <= b THEN s[j]
                 ELSE IF s[j - 1] <= b THEN b ELSE s[j - 1]
      BY <1>2, <2>8, <2>6, <3>1
    <3> QED
      BY <3>2, <3>3, <3>4, <3>5, <3>6
  <2> QED
    BY <1>5, <2>6, <2>7, <2>8
<1> HIDE DEF z
<1>6. Ladder(z)
  BY <1>4, <1>5 DEF Ladder
<1> QED
  BY <1>4, <1>6 DEF z

\* What is left of a ladder at either end is one.
LEMMA EndsAreLadders ==
  ASSUME NEW s, Ladder(s), NEW n \in 0..Len(s)
  PROVE  /\ Ladder(FirstN(s, n)) /\ Len(FirstN(s, n)) = n
         /\ Ladder(After(s, n)) /\ Len(After(s, n)) = Len(s) - n
         /\ \A i \in 1..n : FirstN(s, n)[i] = s[i]
         /\ \A i \in 1..(Len(s) - n) : After(s, n)[i] = s[n + i]
<1>1. s \in Seq(Nat \ {0}) /\ Len(s) \in Nat /\ n \in Nat
  BY DEF Ladder
<1> DEFINE f == FirstN(s, n)
<1> DEFINE a == After(s, n)
<1>2. f \in Seq(Nat \ {0}) /\ Len(f) = n /\ \A i \in 1..n : f[i] = s[i]
  BY <1>1 DEF FirstN
<1>3. a \in Seq(Nat \ {0}) /\ Len(a) = Len(s) - n /\ \A i \in 1..(Len(s) - n) : a[i] = s[n + i]
  BY <1>1 DEF After
<1>4. \A i, j \in 1..Len(s) : i <= j => s[i] <= s[j]
  BY DEF Ladder
<1> HIDE DEF f, a
<1>5. ASSUME NEW i \in 1..n, NEW j \in 1..n, i <= j PROVE f[i] <= f[j]
  <2>1. i \in 1..Len(s) /\ j \in 1..Len(s)
    BY <1>1
  <2> QED
    BY <1>2, <1>4, <1>5, <2>1
<1>6. ASSUME NEW i \in 1..(Len(s) - n), NEW j \in 1..(Len(s) - n), i <= j PROVE a[i] <= a[j]
  <2>1. n + i \in 1..Len(s) /\ n + j \in 1..Len(s) /\ n + i <= n + j
    BY <1>1, <1>6
  <2> QED
    BY <1>3, <1>4, <2>1
<1>7. Ladder(f) /\ Ladder(a)
  BY <1>2, <1>3, <1>5, <1>6 DEF Ladder
<1> QED
  BY <1>2, <1>3, <1>7 DEF f, a

-----------------------------------------------------------------------------
(* What a fold may take. *)

Weighed == base \in Nat /\ Ladder(tiers)

LEMMA ReferenceIsNumber ==
  ASSUME base \in Nat
  PROVE  Reference \in Nat /\ Reference * BaseTierPercent \in Nat
<1>1. Reference \in Nat
  BY KnobAssumption DEF Reference
<1> QED
  BY <1>1, KnobAssumption

\* The planner's filter takes the light end of the ladder.
LEMMA EligibleIsLightEnd ==
  ASSUME Weighed
  PROVE  \E n \in 0..Len(tiers) :
           /\ Eligible = FirstN(tiers, n)
           /\ \A i \in 1..n : ~ Exempt(tiers[i])
           /\ \A i \in (n + 1)..Len(tiers) : Exempt(tiers[i])
<1>1. Len(tiers) \in Nat /\ tiers \in Seq(Nat)
  BY DEF Weighed, Ladder
<1> DEFINE T == {n \in 0..Len(tiers) : n = Len(tiers) \/ Exempt(tiers[n + 1])}
<1>2. T \in SUBSET Nat /\ T # {}
  <2>1. Len(tiers) \in T
    BY <1>1
  <2> QED
    BY <1>1, <2>1
<1> HIDE DEF T
<1>3. PICK n \in T : \A m \in T : n <= m
  BY <1>2, LeastNumber
<1>4. n \in 0..Len(tiers) /\ n \in Nat /\ (n = Len(tiers) \/ Exempt(tiers[n + 1]))
  BY <1>1, <1>3 DEF T
<1>5. ASSUME NEW i \in 1..n PROVE ~ Exempt(tiers[i])
  <2>1. i - 1 \in 0..Len(tiers) /\ i - 1 < n /\ i - 1 # Len(tiers) /\ (i - 1) + 1 = i
    BY <1>1, <1>4
  <2>2. ~ (i - 1 \in T)
    BY <1>3, <1>4, <2>1
  <2> QED
    BY <2>1, <2>2 DEF T
<1>6. ASSUME NEW i \in (n + 1)..Len(tiers) PROVE Exempt(tiers[i])
  <2>1. n # Len(tiers) /\ n + 1 \in 1..Len(tiers) /\ i \in 1..Len(tiers) /\ n + 1 <= i
    BY <1>1, <1>4
  <2>2. Exempt(tiers[n + 1])
    BY <1>4, <2>1
  <2>3. tiers[n + 1] <= tiers[i] /\ tiers[n + 1] \in Nat /\ tiers[i] \in Nat
    BY <1>1, <2>1 DEF Weighed, Ladder
  <2>4. Reference * BaseTierPercent \in Nat
    BY ReferenceIsNumber DEF Weighed
  <2> QED
    BY <2>2, <2>3, <2>4 DEF Exempt
<1>7. {j \in 1..Len(tiers) : ~ Exempt(tiers[j])} = 1..n
  <2>1. ASSUME NEW j \in 1..Len(tiers) PROVE (~ Exempt(tiers[j])) <=> j \in 1..n
    <3>1. j \in 1..n \/ j \in (n + 1)..Len(tiers)
      BY <1>1, <1>4
    <3>2. ~ (j \in 1..n /\ j \in (n + 1)..Len(tiers))
      BY <1>1, <1>4
    <3> QED
      BY <1>5, <1>6, <3>1, <3>2
  <2>2. 1..n \subseteq 1..Len(tiers)
    BY <1>1, <1>4
  <2> QED
    BY <2>1, <2>2
<1>8. Eligible = [i \in 1..n |-> tiers[i]]
  BY <1>7 DEF Eligible
<1>9. FirstN(tiers, n) = [i \in 1..n |-> tiers[i]]
  BY <1>1, <1>4 DEF FirstN
<1> QED
  BY <1>4, <1>5, <1>6, <1>8, <1>9

LEMMA EligibleIsLadder ==
  ASSUME Weighed
  PROVE  Ladder(Eligible) /\ Len(Eligible) \in 0..Len(tiers) /\ Eligible = FirstN(tiers, Len(Eligible))
<1>1. PICK n \in 0..Len(tiers) : Eligible = FirstN(tiers, n)
  BY EligibleIsLightEnd
<1>2. Ladder(tiers)
  BY DEF Weighed
<1> QED
  BY <1>1, <1>2, EndsAreLadders

-----------------------------------------------------------------------------
(* The split. *)

\* Where git's split is: above it the sizes are a progression, and the first
\* of them dominates everything below.
LEMMA SplitIs ==
  ASSUME NEW s, Ladder(s)
  PROVE  /\ SplitOf(s) \in 0..Len(s)
         /\ SplitOf(s) # 0 =>
              /\ Dominates(s, SplitOf(s))
              /\ \A i \in (SplitOf(s) + 1)..Len(s) : s[i] >= Factor * s[i - 1]
<1>1. Len(s) \in Nat /\ \A i \in 1..Len(s) : s[i] \in Nat
  BY DEF Ladder
<1>2. CASE Breaks(s) = {}
  BY <1>1, <1>2 DEF SplitOf
<1>3. CASE Breaks(s) # {}
  <2> DEFINE low == CHOOSE i \in Breaks(s) : \A j \in Breaks(s) : j <= i
  <2>1. Breaks(s) \in SUBSET (0..Len(s))
    BY <1>1 DEF Breaks
  <2>2. \E i \in Breaks(s) : \A j \in Breaks(s) : j <= i
    BY <1>1, <1>3, <2>1, GreatestNumber
  <2>3. low \in Breaks(s) /\ \A j \in Breaks(s) : j <= low
    BY <2>2
  <2>4. low \in 2..Len(s)
    BY <2>3 DEF Breaks
  <2>5. SplitOf(s) = CHOOSE n \in low..Len(s) :
                       Dominates(s, n) /\ \A m \in low..(n - 1) : ~ Dominates(s, m)
    BY <1>3 DEF SplitOf
  <2> HIDE DEF low
  <2> DEFINE T == {n \in low..Len(s) : Dominates(s, n)}
  <2>6. T \in SUBSET Nat /\ T # {}
    <3>1. Len(s) \in T
      BY <1>1, <2>4 DEF Dominates
    <3> QED
      BY <1>1, <2>4, <3>1
  <2> HIDE DEF T
  <2>7. PICK k \in T : \A m \in T : k <= m
    BY <2>6, LeastNumber
  <2>8. k \in low..Len(s) /\ Dominates(s, k)
    BY <2>7 DEF T
  <2>9. ASSUME NEW m \in low..(k - 1) PROVE ~ Dominates(s, m)
    <3>1. m \in low..Len(s) /\ m < k
      BY <1>1, <2>4, <2>8
    <3>2. m \notin T
      BY <2>7, <2>8, <3>1, <1>1, <2>4
    <3> QED
      BY <3>1, <3>2 DEF T
  <2>10. \E n \in low..Len(s) : Dominates(s, n) /\ \A m \in low..(n - 1) : ~ Dominates(s, m)
    BY <2>8, <2>9
  <2>11. SplitOf(s) \in low..Len(s) /\ Dominates(s, SplitOf(s))
    BY <2>5, <2>10
  <2>12. SplitOf(s) \in 0..Len(s)
    BY <1>1, <2>4, <2>11
  <2>13. ASSUME NEW i \in (SplitOf(s) + 1)..Len(s) PROVE s[i] >= Factor * s[i - 1]
    <3>1. i \in 2..Len(s) /\ i > low /\ i - 1 \in 1..Len(s) /\ i \in 1..Len(s)
      BY <1>1, <2>4, <2>11
    <3>2. i \notin Breaks(s)
      BY <2>3, <2>4, <3>1
    <3>3. s[i] \in Nat /\ Factor * s[i - 1] \in Nat
      BY <1>1, <3>1, KnobAssumption
    <3> QED
      BY <3>1, <3>2, <3>3 DEF Breaks
  <2> QED
    BY <2>11, <2>12, <2>13
<1> QED
  BY <1>2, <1>3

\* How many packs a fold takes: none, or at least two of those it may take.
LEMMA FoldCountIs ==
  ASSUME Weighed
  PROVE  /\ FoldCount \in 0..Len(Eligible)
         /\ FoldCount # 0 => FoldCount >= 2
         /\ Len(Eligible) >= 2 /\ Forced => FoldCount # 0
<1>1. Len(Eligible) \in Nat /\ Ladder(Eligible)
  BY EligibleIsLadder DEF Weighed, Ladder
<1>2. SplitOf(Eligible) \in 0..Len(Eligible)
  BY <1>1, SplitIs
<1> DEFINE n == Len(Eligible)
<1> DEFINE k == SplitOf(Eligible)
<1>3. FoldCount = IF n < 2 THEN 0
                  ELSE IF k < 2 THEN (IF Forced THEN HalfByCount(n) ELSE 0)
                  ELSE IF SumOf(FirstN(Eligible, k)) < FoldMinBytes /\ ~ Forced THEN 0
                  ELSE k
  BY DEF FoldCount
<1>4. n \in Nat /\ k \in 0..n
  BY <1>1, <1>2
<1> HIDE DEF n, k
<1>5. CASE n < 2
  BY <1>3, <1>4, <1>5 DEF n
<1>6. CASE n >= 2 /\ k < 2
  <2>1. HalfByCount(n) \in 2..n
    BY <1>4, <1>6 DEF HalfByCount
  <2>2. CASE Forced
    <3>1. FoldCount = HalfByCount(n)
      BY <1>3, <1>4, <1>6, <2>2
    <3> QED
      BY <1>4, <2>1, <3>1 DEF n
  <2>3. CASE ~ Forced
    <3>1. FoldCount = 0
      BY <1>3, <1>4, <1>6, <2>3
    <3> QED
      BY <1>4, <2>3, <3>1 DEF n
  <2> QED
    BY <2>2, <2>3
<1>7. CASE n >= 2 /\ ~ (k < 2)
  <2>1. CASE SumOf(FirstN(Eligible, k)) < FoldMinBytes /\ ~ Forced
    <3>1. FoldCount = 0
      BY <1>3, <1>4, <1>7, <2>1
    <3> QED
      BY <1>4, <2>1, <3>1 DEF n
  <2>2. CASE ~ (SumOf(FirstN(Eligible, k)) < FoldMinBytes /\ ~ Forced)
    <3>1. FoldCount = k
      BY <1>3, <1>4, <1>7, <2>2
    <3> QED
      BY <1>4, <1>7, <3>1 DEF n
  <2> QED
    BY <2>1, <2>2
<1> QED
  BY <1>4, <1>5, <1>6, <1>7

-----------------------------------------------------------------------------
(* The cap. *)

LEMMA TimesMonotone ==
  ASSUME NEW a \in Nat, NEW b \in Nat, NEW c \in Nat, a <= b
  PROVE  a * c <= b * c /\ a * c \in Nat /\ b * c \in Nat
<1>1. PICK d \in Nat : b = a + d
  <2>1. b - a \in Nat /\ b = a + (b - a)
    OBVIOUS
  <2> QED
    BY <2>1
<1>2. b * c = a * c + d * c
  BY <1>1
<1>3. a * c \in Nat /\ b * c \in Nat /\ d * c \in Nat
  BY <1>1
<1> QED
  BY <1>2, <1>3

\* The cap leaves room for enough exempt packs to make a first base: with
\* fewer, a repository that has no base could keep as many tiers as the cap
\* allows and plan nothing.
KnobsCover == (Cap - 1) * BaseTierPercent >= 100

LEMMA CapIsNumber == Cap \in Nat /\ Cap >= 2
  BY KnobAssumption DEF Cap

\* Where no two packs may be folded, the exempt ones are worth a rebuild.
LEMMA ExemptAreWorthIt ==
  ASSUME KnobsCover, Weighed, CapTripped, Len(Eligible) < 2
  PROVE  /\ tiers # <<>>
         /\ IF base = 0 THEN SumOf(tiers) >= BaseMinBytes
            ELSE SumOf(tiers) * 100 >= base * BaseTierPercent
<1>1. PICK n \in 0..Len(tiers) : /\ Eligible = FirstN(tiers, n)
                                 /\ \A i \in (n + 1)..Len(tiers) : Exempt(tiers[i])
  BY EligibleIsLightEnd
<1>2. Ladder(tiers) /\ base \in Nat
  BY DEF Weighed
<1>3. tiers \in Seq(Nat) /\ Len(tiers) \in Nat /\ n \in Nat
  BY <1>2 DEF Ladder
<1>4. n < 2
  <2>1. Len(Eligible) = n
    BY <1>1, <1>2, EndsAreLadders
  <2> QED
    BY <2>1
<1>5. Len(tiers) >= Cap
  BY DEF CapTripped
<1>6. n + 1 \in 1..Len(tiers) /\ n + 1 \in (n + 1)..Len(tiers) /\ Len(tiers) \in n..Len(tiers)
      /\ Len(tiers) # 0
  BY <1>3, <1>4, <1>5, CapIsNumber
<1>7. PICK m \in Nat : m = tiers[n + 1]
  BY <1>3, <1>6
<1>8. Exempt(m)
  BY <1>1, <1>6, <1>7
<1>9. ASSUME NEW i \in (n + 1)..Len(tiers) PROVE tiers[i] >= m
  <2>1. i \in 1..Len(tiers) /\ n + 1 <= i /\ tiers[i] \in Nat
    BY <1>3
  <2>2. tiers[n + 1] <= tiers[i]
    BY <1>2, <1>6, <2>1 DEF Ladder
  <2> QED
    BY <1>7, <2>1, <2>2
<1>10. SumUpTo(tiers)[Len(tiers)] >= (Len(tiers) - n) * m
  BY <1>3, <1>6, <1>9, SumAtLeast
<1>11. PICK S \in Nat : S = SumOf(tiers)
  <2>1. Len(tiers) \in 0..Len(tiers)
    BY <1>3
  <2>2. SumOf(tiers) \in Nat
    BY <1>3, <2>1, SumsAreNumbers DEF SumOf
  <2> QED
    BY <2>2
<1>12. S >= (Len(tiers) - n) * m
  BY <1>10, <1>11 DEF SumOf
<1>13. PICK c \in Nat : c = Cap - 1
  BY CapIsNumber
<1>14. PICK d \in Nat : d = Len(tiers) - n /\ c <= d /\ 1 <= d
  <2>1. Len(tiers) - n \in Nat /\ c <= Len(tiers) - n /\ 1 <= Len(tiers) - n
    BY <1>3, <1>4, <1>5, <1>13, CapIsNumber
  <2> QED
    BY <2>1
<1>15. S >= d * m
  BY <1>12, <1>14
<1>16. tiers # <<>>
  BY <1>6
<1>17. CASE base = 0
  <2>1. PICK x \in Nat : x = BaseMinBytes * BaseTierPercent
    BY KnobAssumption
  <2>2. m * 100 >= x
    BY <1>8, <1>17, <2>1, <1>2 DEF Exempt, Reference
  <2>3. c * m <= d * m /\ c * m \in Nat /\ d * m \in Nat
    BY <1>14, TimesMonotone
  <2>4. S * 100 >= (m * 100) * c
    <3>1. (m * 100) * c = (c * m) * 100
      BY <1>7, <1>13
    <3> QED
      BY <1>15, <2>3, <3>1
  <2>5. x * c <= (m * 100) * c /\ x * c \in Nat /\ (m * 100) * c \in Nat
    <3>1. m * 100 \in Nat /\ x <= m * 100
      BY <2>1, <2>2
    <3> HIDE DEF KnobsCover
    <3> QED
      BY <2>1, <3>1, TimesMonotone
  <2>6. PICK y \in Nat : y = c * BaseTierPercent
    BY KnobAssumption
  <2>7. 100 <= y
    BY <1>13, <2>6 DEF KnobsCover
  <2>8. BaseMinBytes \in Nat /\ BaseTierPercent \in Nat
    BY KnobAssumption
  <2>9. 100 * BaseMinBytes <= y * BaseMinBytes /\ y * BaseMinBytes \in Nat
    BY <2>7, <2>8, TimesMonotone
  <2>10. y * BaseMinBytes = x * c
    BY <2>1, <2>6, <2>8
  <2>11. 100 * BaseMinBytes <= S * 100
    BY <2>4, <2>5, <2>8, <2>9, <2>10
  <2>12. BaseMinBytes <= S
    BY <2>8, <2>11
  <2> QED
    BY <1>11, <1>16, <1>17, <2>12
<1>18. CASE base # 0
  <2>1. PICK x \in Nat : x = base * BaseTierPercent
    BY <1>2, KnobAssumption
  <2>2. m * 100 >= x
    BY <1>8, <1>18, <2>1, <1>2 DEF Exempt, Reference
  <2>3. 1 * m <= d * m /\ d * m \in Nat
    BY <1>14, TimesMonotone
  <2>4. S >= m
    BY <1>15, <2>3
  <2>5. S * 100 >= x
    BY <2>2, <2>4
  <2> QED
    BY <1>11, <1>16, <1>18, <2>1, <2>5
<1> QED
  BY <1>17, <1>18

LEMMA CapAlwaysPlans ==
  ASSUME KnobsCover, Weighed
  PROVE  CapPlans
<1> SUFFICES ASSUME CapTripped, ~ (Len(Eligible) < 2 /\ ~ disk)
             PROVE  Planned
  BY DEF CapPlans
<1>1. Len(Eligible) \in Nat
  BY EligibleIsLadder DEF Weighed, Ladder
<1>2. CASE Len(Eligible) >= 2
  <2>1. Forced
    BY DEF Forced
  <2>2. FoldCount # 0 /\ FoldCount \in 0..Len(Eligible)
    BY <1>2, <2>1, FoldCountIs
  <2>3. FoldCount > 0
    BY <1>1, <2>2
  <2> QED
    BY <2>3 DEF Planned
<1>3. CASE ~ (Len(Eligible) >= 2)
  <2>1. Len(Eligible) < 2
    BY <1>1, <1>3
  <2>2. BaseDue
    BY <2>1, ExemptAreWorthIt DEF BaseDue
  <2> QED
    BY <2>2 DEF Planned
<1> QED
  BY <1>2, <1>3

-----------------------------------------------------------------------------
(* The steps. *)

LEMMA PlanTypes == PlanTypeOK => Weighed
  BY DEF PlanTypeOK, Weighed, Ladder

LEMMA PlanStarts == PlanInit => PlanTypeOK
  BY DEF PlanInit, PlanTypeOK

\* A fold of the lightest packs leaves a shorter ladder.
LEMMA FoldLeaves ==
  ASSUME Weighed, TierFold
  PROVE  Ladder(tiers') /\ Len(tiers') < Len(tiers)
<1>1. PICK n \in {FoldCount} :
        tiers' = InsertSize(After(tiers, n), SumOf(FirstN(tiers, n)))
  BY DEF TierFold
<1>2. Ladder(tiers) /\ Len(tiers) \in Nat
  BY DEF Weighed, Ladder
<1>3. Len(Eligible) \in 0..Len(tiers)
  BY EligibleIsLadder
<1>4. n \in 0..Len(tiers) /\ n >= 2
  <2>1. n = FoldCount /\ n > 0
    BY <1>1 DEF TierFold
  <2> QED
    BY <1>2, <1>3, <2>1, FoldCountIs
<1>5. Ladder(After(tiers, n)) /\ Len(After(tiers, n)) = Len(tiers) - n
      /\ Ladder(FirstN(tiers, n)) /\ Len(FirstN(tiers, n)) = n
  BY <1>2, <1>4, EndsAreLadders
<1>6. FirstN(tiers, n) # <<>>
  BY <1>4, <1>5
<1>7. SumOf(FirstN(tiers, n)) \in Nat \ {0}
  BY <1>5, <1>6, SumIsPositive
<1>8. Ladder(tiers') /\ Len(tiers') = (Len(tiers) - n) + 1
  BY <1>1, <1>5, <1>7, InsertKeepsLadder
<1> QED
  BY <1>2, <1>4, <1>8

LEMMA PlanStepsKeep ==
  ASSUME PlanTypeOK, [PlanNext]_planVars
  PROVE  PlanTypeOK'
<1>1. Weighed /\ disk \in BOOLEAN /\ cadence \in BOOLEAN
  BY PlanTypes DEF PlanTypeOK
<1> SUFFICES base' \in Nat /\ disk' \in BOOLEAN /\ cadence' \in BOOLEAN /\ Ladder(tiers')
  BY DEF PlanTypeOK, Ladder
<1>2. base \in Nat /\ Ladder(tiers)
  BY <1>1 DEF Weighed
<1>3. ASSUME NEW b \in PushBytes, PushPack(b)
      PROVE  base' \in Nat /\ disk' \in BOOLEAN /\ cadence' \in BOOLEAN /\ Ladder(tiers')
  <2>1. b \in Nat \ {0}
    BY KnobAssumption
  <2>2. Ladder(InsertSize(tiers, b))
    BY <1>2, <2>1, InsertKeepsLadder
  <2> QED
    BY <1>1, <1>2, <1>3, <2>2 DEF PushPack
<1>4. CASE BaseRebuild
  <2>1. Ladder(<<>>)
    BY DEF Ladder
  <2>2. tiers # <<>>
    BY <1>4 DEF BaseRebuild, BaseDue
  <2>3. SumOf(tiers) \in Nat
    BY <1>2, <2>2, SumIsPositive
  <2>4. base + SumOf(tiers) \in Nat
    BY <1>2, <2>3
  <2> QED
    BY <1>1, <1>4, <2>1, <2>4 DEF BaseRebuild
<1>5. CASE TierFold
  <2>1. Ladder(tiers')
    BY <1>1, <1>5, FoldLeaves
  <2> QED
    BY <1>1, <1>2, <1>5, <2>1 DEF TierFold
<1>6. CASE CadenceOpens
  BY <1>1, <1>2, <1>6 DEF CadenceOpens
<1>7. CASE DiskChanges
  BY <1>1, <1>2, <1>7 DEF DiskChanges
<1>8. CASE UNCHANGED planVars
  BY <1>1, <1>2, <1>8 DEF planVars
<1> QED
  BY <1>3, <1>4, <1>5, <1>6, <1>7, <1>8 DEF PlanNext

LEMMA PlanTypesAlways == PlanSpec => []PlanTypeOK
<1>1. PlanInit => PlanTypeOK
  BY PlanStarts
<1>2. PlanTypeOK /\ [PlanNext]_planVars => PlanTypeOK'
  BY PlanStepsKeep
<1> QED
  BY <1>1, <1>2, PTL DEF PlanSpec

(* The planner (plan): whatever is pushed, folded and rebuilt, the ladder  *)
(* stays sorted, and with as many tiers as the cap allows something is     *)
(* planned unless the disk has no room, provided the cap leaves room for   *)
(* the exempt packs of a first base.                                       *)
THEOREM CapBoundsLadder ==
  ASSUME KnobsCover
  PROVE  PlanSpec => []PlanInv
<1>1. PlanTypeOK => PlanInv
  BY PlanTypes, CapAlwaysPlans DEF PlanInv
<1> QED
  BY <1>1, PlanTypesAlways, PTL

\* What a fold leaves above its roll-up.
LEMMA FoldSettlesStep ==
  ASSUME Weighed, TierFold, FoldCount = SplitOf(Eligible)
  PROVE  LET left == After(Eligible, FoldCount)
             roll == SumOf(FirstN(Eligible, FoldCount))
         IN /\ left # <<>> => left[1] >= Factor * roll
            /\ \A i \in 2..Len(left) : left[i] >= Factor * left[i - 1]
<1>1. Ladder(Eligible) /\ Len(Eligible) \in Nat
  BY EligibleIsLadder DEF Ladder
<1>2. PICK n : n = FoldCount
  OBVIOUS
<1>3. n \in 0..Len(Eligible) /\ n \in Nat /\ n # 0
  BY <1>1, <1>2, FoldCountIs DEF TierFold
<1>4. Dominates(Eligible, n) /\ \A i \in (n + 1)..Len(Eligible) : Eligible[i] >= Factor * Eligible[i - 1]
  BY <1>1, <1>2, <1>3, SplitIs
<1> DEFINE left == After(Eligible, n)
<1>5. Len(left) = Len(Eligible) - n /\ \A i \in 1..(Len(Eligible) - n) : left[i] = Eligible[n + i]
  BY <1>1, <1>3, EndsAreLadders
<1>6. ASSUME left # <<>> PROVE left[1] >= Factor * SumOf(FirstN(Eligible, n))
  <2>1. Len(left) # 0
    <3>1. Ladder(left)
      BY <1>1, <1>3, EndsAreLadders
    <3> QED
      BY <1>6, <3>1 DEF Ladder
  <2>2. n # Len(Eligible) /\ 1 \in 1..(Len(Eligible) - n)
    BY <1>1, <1>3, <1>5, <2>1
  <2> QED
    BY <1>4, <1>5, <2>2 DEF Dominates
<1>7. ASSUME NEW i \in 2..Len(left) PROVE left[i] >= Factor * left[i - 1]
  <2>1. i \in 1..(Len(Eligible) - n) /\ i - 1 \in 1..(Len(Eligible) - n)
        /\ n + i \in (n + 1)..Len(Eligible) /\ (n + i) - 1 = n + (i - 1)
    BY <1>1, <1>3, <1>5
  <2> QED
    BY <1>4, <1>5, <2>1
<1> QED
  BY <1>2, <1>6, <1>7

(* The planner (plan): a rebuild against a closed cadence is bought only   *)
(* where no two packs could be folded, and a fold takes at least two packs *)
(* and leaves, unless the cap forced it, a progression that starts with    *)
(* its roll-up; for every factor, percentage and limit.                    *)
THEOREM PlanOnlySteps == PlanSpec => PlanSteps
<1>1. ASSUME PlanTypeOK, [PlanNext]_planVars
      PROVE  [BaseRebuild => cadence \/ Len(Eligible) < 2]_planVars
  BY DEF BaseRebuild, BaseDue
<1>2. ASSUME PlanTypeOK, [PlanNext]_planVars
      PROVE  [TierFold =>
               /\ Len(tiers') < Len(tiers)
               /\ FoldCount = SplitOf(Eligible) =>
                    LET left == After(Eligible, FoldCount)
                        roll == SumOf(FirstN(Eligible, FoldCount))
                    IN /\ left # <<>> => left[1] >= Factor * roll
                       /\ \A i \in 2..Len(left) : left[i] >= Factor * left[i - 1]]_planVars
  <2>1. Weighed
    BY <1>2, PlanTypes
  <2> QED
    BY <2>1, FoldLeaves, FoldSettlesStep
<1> QED
  BY <1>1, <1>2, PlanTypesAlways, PTL DEF PlanSpec, PlanSteps, CapBuysNoRewrite, FoldSettles

=============================================================================
