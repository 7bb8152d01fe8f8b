---------------------------- MODULE SumsProofs ----------------------------
(***************************************************************************)
(* What SumUpTo computes.  The induction theorems of the library take an   *)
(* operator, which no installed prover can instantiate; the proofs below   *)
(* take the least counterexample instead, which the first-order theorem    *)
(* WFMin provides.                                                         *)
(***************************************************************************)
EXTENDS Sums, TLAPS, WellFoundedInduction

\* Every non-empty set of natural numbers has a least element.
LEMMA LeastNatural ==
  ASSUME NEW T \in SUBSET Nat, T # {}
  PROVE  \E n \in T : \A m \in T : n <= m
<1> DEFINE R == OpToRel(<, Nat)
<1>1. IsWellFoundedOn(R, Nat)
  BY NatLessThanWellFounded
<1>2. R = {ss \in Nat \X Nat : ss[1] < ss[2]}
  BY DEF OpToRel
<1> HIDE DEF R
<1>3. PICK x \in T : \A y \in T : ~(<<y, x>> \in R)
  BY <1>1, WFMin
<1>4. ASSUME NEW m \in T PROVE x <= m
  <2>1. <<m, x>> \in Nat \X Nat
    OBVIOUS
  <2>2. ~(<<m, x>>[1] < <<m, x>>[2])
    BY <2>1, <1>2, <1>3
  <2> QED
    BY <2>2, x \in Nat, m \in Nat
<1> QED
  BY <1>4

\* Induction in the form that the proofs use: a set of naturals that holds 0
\* and with every number the next one holds them all.
LEMMA Induction ==
  ASSUME NEW S, 0 \in S, \A n \in Nat : n \in S => n + 1 \in S
  PROVE  Nat \subseteq S
<1> SUFFICES ASSUME ~(Nat \subseteq S)
             PROVE  FALSE
  OBVIOUS
<1> DEFINE T == {n \in Nat : n \notin S}
<1>1. T \in SUBSET Nat /\ T # {}
  OBVIOUS
<1>2. PICK n \in T : \A m \in T : n <= m
  BY <1>1, LeastNatural
<1>3. n \in Nat /\ n \notin S /\ n # 0
  BY <1>2
<1>4. n - 1 \in Nat /\ n - 1 \notin T
  BY <1>2, <1>3
<1>5. n - 1 \in S
  BY <1>4
<1>6. n - 1 + 1 \in S
  BY <1>4, <1>5
<1> QED
  BY <1>3, <1>6

-----------------------------------------------------------------------------
(* The recursive function exists and is the only one of its kind.           *)

IsSum(s, v, n) == s = [k \in 0 .. n |-> IF k = 0 THEN 0 ELSE s[k - 1] + v[k]]

\* The equation read as facts about the values.
LEMMA IsSumValues ==
  ASSUME NEW n \in Nat, NEW v, NEW s, IsSum(s, v, n)
  PROVE  s[0] = 0 /\ \A k \in 1 .. n : s[k] = s[k - 1] + v[k]
BY DEF IsSum

\* There are partial sums up to every number.
LEMMA SumExists ==
  ASSUME NEW v, NEW n \in Nat
  PROVE  \E s : IsSum(s, v, n)
<1> DEFINE S == {m \in Nat : \E s : IsSum(s, v, m)}
<1>1. 0 \in S
  <2>1. IsSum([k \in 0 .. 0 |-> 0], v, 0)
    BY DEF IsSum
  <2> QED
    BY <2>1
<1>2. ASSUME NEW m \in Nat, m \in S PROVE m + 1 \in S
  <2>1. PICK s : IsSum(s, v, m)
    BY <1>2
  <2> DEFINE t == [k \in 0 .. m + 1 |-> IF k = m + 1 THEN s[m] + v[m + 1] ELSE s[k]]
  <2>2. s[0] = 0 /\ \A k \in 1 .. m : s[k] = s[k - 1] + v[k]
    BY <2>1, IsSumValues
  <2>3. \A k \in 0 .. m + 1 : t[k] = IF k = 0 THEN 0 ELSE t[k - 1] + v[k]
    <3> TAKE k \in 0 .. m + 1
    <3>1. CASE k = 0
      BY <3>1, <2>2
    <3>2. CASE k = m + 1
      BY <3>2
    <3>3. CASE k \in 1 .. m
      BY <3>3, <2>2
    <3> QED
      BY <3>1, <3>2, <3>3
  <2>4. IsSum(t, v, m + 1)
    BY <2>3 DEF IsSum
  <2> QED
    BY <2>4
<1> HIDE DEF S
<1>3. Nat \subseteq S
  BY <1>1, <1>2, Induction
<1> QED
  BY <1>3 DEF S

\* Partial sums of sequences that agree, agree as far as both go.
LEMMA SumUnique ==
  ASSUME NEW v, NEW w, NEW m \in Nat, NEW n \in Nat, m <= n,
         \A k \in 1 .. m : v[k] = w[k],
         NEW s, NEW t, IsSum(s, v, m), IsSum(t, w, n)
  PROVE  s[m] = t[m]
<1> DEFINE S == {k \in Nat : k <= m => s[k] = t[k]}
<1>1. s[0] = 0 /\ \A k \in 1 .. m : s[k] = s[k - 1] + v[k]
  BY IsSumValues
<1>2. t[0] = 0 /\ \A k \in 1 .. n : t[k] = t[k - 1] + w[k]
  BY IsSumValues
<1>3. 0 \in S
  BY <1>1, <1>2
<1>4. ASSUME NEW k \in Nat, k \in S PROVE k + 1 \in S
  <2> SUFFICES ASSUME k + 1 <= m PROVE s[k + 1] = t[k + 1]
    OBVIOUS
  <2>1. k + 1 \in 1 .. m /\ k + 1 \in 1 .. n /\ k + 1 - 1 = k /\ k <= m
    OBVIOUS
  <2>2. s[k] = t[k]
    BY <1>4, <2>1
  <2>3. s[k + 1] = s[k] + v[k + 1] /\ t[k + 1] = t[k] + w[k + 1]
    BY <1>1, <1>2, <2>1
  <2> QED
    BY <2>1, <2>2, <2>3
<1> HIDE DEF S
<1>5. Nat \subseteq S
  BY <1>3, <1>4, Induction
<1> QED
  BY <1>5 DEF S

\* SumUpTo is the last of the partial sums.
LEMMA SumIs ==
  ASSUME NEW v, NEW n \in Nat
  PROVE  \E s : IsSum(s, v, n) /\ SumUpTo(v, n) = s[n]
<1> DEFINE s == CHOOSE f : IsSum(f, v, n)
<1>1. IsSum(s, v, n)
  BY SumExists
<1>2. SumUpTo(v, n) = s[n]
  BY DEF SumUpTo, IsSum
<1> QED
  BY <1>1, <1>2

-----------------------------------------------------------------------------
(* What the proofs about the link need.                                     *)

\* A sum of nothing is zero.
LEMMA SumEmpty ==
  ASSUME NEW v
  PROVE  SumUpTo(v, 0) = 0
BY SumIs, IsSumValues

\* Sums of sequences that agree are equal.
LEMMA SumSame ==
  ASSUME NEW v, NEW w, NEW n \in Nat, \A k \in 1 .. n : v[k] = w[k]
  PROVE  SumUpTo(v, n) = SumUpTo(w, n)
<1>1. PICK s : IsSum(s, v, n) /\ SumUpTo(v, n) = s[n]
  BY SumIs
<1>2. PICK t : IsSum(t, w, n) /\ SumUpTo(w, n) = t[n]
  BY SumIs
<1> QED
  BY <1>1, <1>2, SumUnique, n <= n

\* One more term.
LEMMA SumNext ==
  ASSUME NEW v, NEW n \in Nat
  PROVE  SumUpTo(v, n + 1) = SumUpTo(v, n) + v[n + 1]
<1>1. PICK s : IsSum(s, v, n) /\ SumUpTo(v, n) = s[n]
  BY SumIs
<1>2. PICK t : IsSum(t, v, n + 1) /\ SumUpTo(v, n + 1) = t[n + 1]
  BY SumIs
<1>3. s[n] = t[n]
  BY <1>1, <1>2, SumUnique, n <= n + 1
<1>4. t[n + 1] = t[n + 1 - 1] + v[n + 1]
  BY <1>2, IsSumValues
<1> QED
  BY <1>1, <1>2, <1>3, <1>4

\* A sum of integers is an integer.
LEMMA SumType ==
  ASSUME NEW n \in Nat, NEW v, \A k \in 1 .. n : v[k] \in Int
  PROVE  SumUpTo(v, n) \in Int
<1> DEFINE S == {m \in Nat : m <= n => SumUpTo(v, m) \in Int}
<1>1. 0 \in S
  BY SumEmpty
<1>2. ASSUME NEW m \in Nat, m \in S PROVE m + 1 \in S
  <2>1. SumUpTo(v, m + 1) = SumUpTo(v, m) + v[m + 1]
    BY SumNext
  <2> QED
    BY <1>2, <2>1
<1> HIDE DEF S
<1>3. Nat \subseteq S
  BY <1>1, <1>2, Induction
<1> QED
  BY <1>3 DEF S

\* A sum of zeros is zero.
LEMMA SumZero ==
  ASSUME NEW n \in Nat, NEW v, \A k \in 1 .. n : v[k] = 0
  PROVE  SumUpTo(v, n) = 0
<1> DEFINE S == {m \in Nat : m <= n => SumUpTo(v, m) = 0}
<1>1. 0 \in S
  BY SumEmpty
<1>2. ASSUME NEW m \in Nat, m \in S PROVE m + 1 \in S
  <2>1. SumUpTo(v, m + 1) = SumUpTo(v, m) + v[m + 1]
    BY SumNext
  <2> QED
    BY <1>2, <2>1
<1> HIDE DEF S
<1>3. Nat \subseteq S
  BY <1>1, <1>2, Induction
<1> QED
  BY <1>3 DEF S

\* The terms but the first.
Rest(v, n) == [k \in 1 .. n |-> v[k + 1]]

\* One term at the front (Tail).
LEMMA SumTail ==
  ASSUME NEW n \in Nat, NEW v \in [1 .. n + 1 -> Int]
  PROVE  SumUpTo(v, n + 1) = v[1] + SumUpTo(Rest(v, n), n)
<1> DEFINE w == Rest(v, n)
<1>0. \A k \in 1 .. n : w[k] = v[k + 1]
  BY DEF Rest
<1> HIDE DEF w
<1> DEFINE S == {m \in Nat : m <= n => SumUpTo(v, m + 1) = v[1] + SumUpTo(w, m)}
<1>1. 0 \in S
  <2>1. SumUpTo(v, 0 + 1) = SumUpTo(v, 0) + v[0 + 1]
    BY SumNext
  <2>2. v[1] \in Int
    OBVIOUS
  <2> QED
    BY <2>1, <2>2, SumEmpty
<1>2. ASSUME NEW m \in Nat, m \in S PROVE m + 1 \in S
  <2> SUFFICES ASSUME m + 1 <= n
               PROVE  SumUpTo(v, m + 1 + 1) = v[1] + SumUpTo(w, m + 1)
    OBVIOUS
  <2>1. SumUpTo(v, m + 1) = v[1] + SumUpTo(w, m)
    BY <1>2
  <2>2. SumUpTo(v, m + 1 + 1) = SumUpTo(v, m + 1) + v[m + 1 + 1]
    BY SumNext
  <2>3. SumUpTo(w, m + 1) = SumUpTo(w, m) + w[m + 1]
    BY SumNext
  <2>4. w[m + 1] = v[m + 1 + 1] /\ v[m + 1 + 1] \in Int /\ v[1] \in Int
    BY <1>0
  <2>5. \A k \in 1 .. m : w[k] \in Int
    BY <1>0
  <2>6. SumUpTo(w, m) \in Int
    BY <2>5, SumType
  <2> QED
    BY <2>1, <2>2, <2>3, <2>4, <2>6
<1> HIDE DEF S
<1>3. Nat \subseteq S
  BY <1>1, <1>2, Induction
<1> QED
  BY <1>3 DEF S, w

\* One term changed.
LEMMA SumUpdate ==
  ASSUME NEW n \in Nat, NEW v, NEW w, NEW i \in 1 .. n,
         \A k \in 1 .. n : v[k] \in Int /\ w[k] \in Int,
         \A k \in 1 .. n : k # i => w[k] = v[k]
  PROVE  SumUpTo(w, n) = SumUpTo(v, n) - v[i] + w[i]
<1> DEFINE S == {m \in Nat : m <= n =>
                   SumUpTo(w, m) = IF m < i THEN SumUpTo(v, m)
                                   ELSE SumUpTo(v, m) - v[i] + w[i]}
<1>1. 0 \in S
  BY SumEmpty
<1>2. ASSUME NEW m \in Nat, m \in S PROVE m + 1 \in S
  <2> SUFFICES ASSUME m + 1 <= n
               PROVE  SumUpTo(w, m + 1) = IF m + 1 < i THEN SumUpTo(v, m + 1)
                                          ELSE SumUpTo(v, m + 1) - v[i] + w[i]
    OBVIOUS
  <2>1. SumUpTo(v, m + 1) = SumUpTo(v, m) + v[m + 1]
    BY SumNext
  <2>2. SumUpTo(w, m + 1) = SumUpTo(w, m) + w[m + 1]
    BY SumNext
  <2>3. SumUpTo(v, m) \in Int
    BY SumType
  <2>4. v[m + 1] \in Int /\ w[m + 1] \in Int /\ v[i] \in Int /\ w[i] \in Int
    OBVIOUS
  <2>5. m + 1 # i => w[m + 1] = v[m + 1]
    OBVIOUS
  <2>6. SumUpTo(w, m) = IF m < i THEN SumUpTo(v, m) ELSE SumUpTo(v, m) - v[i] + w[i]
    BY <1>2
  <2>7. CASE m + 1 < i
    BY <2>1, <2>2, <2>5, <2>6, <2>7
  <2>8. CASE m + 1 = i
    BY <2>1, <2>2, <2>3, <2>4, <2>6, <2>8
  <2>9. CASE m + 1 > i
    BY <2>1, <2>2, <2>3, <2>4, <2>5, <2>6, <2>9
  <2> QED
    BY <2>7, <2>8, <2>9
<1> HIDE DEF S
<1>3. Nat \subseteq S
  BY <1>1, <1>2, Induction
<1> QED
  BY <1>3 DEF S
=============================================================================
