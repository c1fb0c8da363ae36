------------------------- MODULE FalseAlarmsProofs --------------------------
(***************************************************************************)
(* The binomial test of core/battery.py decides by chance: for every       *)
(* number of realisations and every rate, the critical count it finds with *)
(* a cumulative sum of the binomial formula separates the counts that an   *)
(* honest check reaches with probability alpha or more from the others,    *)
(* where the probability is found by counting outcomes.                    *)
(*                                                                         *)
(* The formula is proved to count: dropping the last draw of an outcome    *)
(* splits the outcomes of n + 1 draws into those of n, which is Pascal's   *)
(* rule.  What is defined by recursion is first shown to exist.            *)
(***************************************************************************)
EXTENDS FalseAlarms, FiniteSetTheorems, WellFoundedInduction, TLAPS

LEMMA LeastOf ==
  ASSUME NEW S \in SUBSET Nat, S # {}
  PROVE  \E m \in S : \A k \in S : m <= k
<1>1. PICK m \in S : \A k \in S : ~ (<<k, m>> \in OpToRel(<, Nat))
  BY NatLessThanWellFounded, WFMin
<1>2. \A k \in S : ~ (k < m)
  BY <1>1 DEF OpToRel
<1> QED
  BY <1>2

LEMMA HoldsUpTo ==
  ASSUME NEW n \in Nat, NEW S, 0 \in S, \A i \in 1..n : i - 1 \in S => i \in S
  PROVE  \A i \in 0..n : i \in S
<1> DEFINE Outside == (0..n) \ S
<1>1. SUFFICES ASSUME Outside # {} PROVE FALSE
  OBVIOUS
<1>2. Outside \in SUBSET Nat
  OBVIOUS
<1> HIDE DEF Outside
<1>3. PICK i \in Outside : \A k \in Outside : i <= k
  BY <1>1, <1>2, LeastOf
<1> USE DEF Outside
<1>4. i \in 1..n /\ i - 1 \in 0..n
  BY <1>3
<1>5. i - 1 \notin Outside
  BY <1>3, <1>4
<1> QED
  BY <1>4, <1>5

LEMMA HoldsForAll ==
  ASSUME NEW S, 0 \in S, \A i \in Nat \ {0} : i - 1 \in S => i \in S
  PROVE  \A i \in Nat : i \in S
<1> SUFFICES ASSUME NEW n \in Nat PROVE n \in S
  OBVIOUS
<1>1. \A i \in 0..n : i \in S
  BY HoldsUpTo
<1> QED
  BY <1>1

(* A value for 0 and a step from each value to the next define a function  *)
(* on 0..n, and only one.                                                  *)
Follows(f, n, first, step) ==
  f = [i \in 0..n |-> IF i = 0 THEN first ELSE step[<<i, f[i - 1]>>]]

LEMMA RecursionIsDefined ==
  ASSUME NEW n \in Nat, NEW V, NEW first \in V, NEW step \in [(1..n) \X V -> V]
  PROVE  \E f \in [0..n -> V] : Follows(f, n, first, step)
<1> DEFINE Starts(f, m) == /\ f \in [0..m -> V] /\ f[0] = first
                           /\ \A i \in 1..m : f[i] = step[<<i, f[i - 1]>>]
           Defined == {m \in 0..n : \E f : Starts(f, m)}
<1>1. 0 \in Defined
  <2>1. Starts([i \in 0..0 |-> first], 0)
    OBVIOUS
  <2> HIDE DEF Starts
  <2> QED
    BY <2>1
<1>2. ASSUME NEW m \in 1..n, m - 1 \in Defined PROVE m \in Defined
  <2>1. PICK f : Starts(f, m - 1)
    BY <1>2
  <2> DEFINE g == [i \in 0..m |-> IF i = m THEN step[<<m, f[m - 1]>>] ELSE f[i]]
  <2>2. m - 1 \in 0..(m - 1) /\ f[m - 1] \in V /\ step[<<m, f[m - 1]>>] \in V
    BY <2>1
  <2>3. g \in [0..m -> V] /\ g[0] = first
    BY <2>1, <2>2
  <2>4. ASSUME NEW i \in 1..m PROVE g[i] = step[<<i, g[i - 1]>>]
    <3>1. g[i - 1] = f[i - 1]
      OBVIOUS
    <3>2. CASE i = m
      <4>1. g[m] = step[<<m, f[m - 1]>>]
        OBVIOUS
      <4> QED
        BY <3>1, <3>2, <4>1
    <3>3. CASE i # m
      <4>1. i \in 1..(m - 1) /\ g[i] = f[i]
        BY <3>3
      <4> QED
        BY <2>1, <3>1, <4>1
    <3> QED
      BY <3>2, <3>3
  <2>5. Starts(g, m)
    BY <2>3, <2>4
  <2> HIDE DEF Starts
  <2> QED
    BY <2>5
<1>3. \A i \in 0..n : i \in Defined
  <2> HIDE DEF Defined
  <2> QED
    BY <1>1, <1>2, HoldsUpTo
<1>4. PICK f : Starts(f, n)
  <2> HIDE DEF Starts
  <2>1. n \in 0..n
    OBVIOUS
  <2> QED
    BY <1>3, <2>1
<1>5. Follows(f, n, first, step)
  BY <1>4 DEF Follows
<1> QED
  BY <1>4, <1>5

-----------------------------------------------------------------------------
(* The powers. *)

LEMMA PowersAreDefined ==
  ASSUME NEW b \in Nat, NEW n \in Nat
  PROVE  LET P == CHOOSE f : f = [i \in 0..n |-> IF i = 0 THEN 1 ELSE b * f[i - 1]]
         IN  /\ P[0] = 1 /\ Power(b, n) = P[n]
             /\ \A i \in 1..n : P[i] = b * P[i - 1]
<1> DEFINE P == CHOOSE f : f = [i \in 0..n |-> IF i = 0 THEN 1 ELSE b * f[i - 1]]
           step == [x \in (1..n) \X Nat |-> b * x[2]]
<1>1. step \in [(1..n) \X Nat -> Nat]
  OBVIOUS
<1>2. \A i \in 1..n, v \in Nat : step[<<i, v>>] = b * v
  OBVIOUS
<1> HIDE DEF step
<1>3. PICK f \in [0..n -> Nat] : Follows(f, n, 1, step)
  BY <1>1, RecursionIsDefined
<1>4. f = [i \in 0..n |-> IF i = 0 THEN 1 ELSE b * f[i - 1]]
  BY <1>2, <1>3 DEF Follows
<1>5. P = [i \in 0..n |-> IF i = 0 THEN 1 ELSE b * P[i - 1]]
  BY <1>4
<1>6. Power(b, n) = P[n]
  BY DEF Power
<1> HIDE DEF P
<1>7. P[0] = 1 /\ \A i \in 1..n : P[i] = b * P[i - 1]
  BY <1>5
<1> QED
  BY <1>6, <1>7 DEF P

LEMMA PowerSteps ==
  ASSUME NEW b \in Nat
  PROVE  /\ Power(b, 0) = 1
         /\ \A n \in Nat : Power(b, n + 1) = b * Power(b, n)
         /\ \A n \in Nat : Power(b, n) \in Nat
<1> DEFINE P(n) == CHOOSE f : f = [i \in 0..n |-> IF i = 0 THEN 1 ELSE b * f[i - 1]]
<1>1. \A n \in Nat : P(n)[0] = 1 /\ Power(b, n) = P(n)[n] /\ \A i \in 1..n : P(n)[i] = b * P(n)[i - 1]
  BY PowersAreDefined
<1> HIDE DEF P
<1>2. ASSUME NEW n \in Nat PROVE Power(b, n + 1) = b * Power(b, n)
  <2> DEFINE Same == {i \in 0..n : P(n + 1)[i] = P(n)[i]}
  <2>1. n + 1 \in Nat /\ \A i \in 1..n : i \in 1..(n + 1)
    OBVIOUS
  <2>2. 0 \in Same
    BY <1>1, <2>1
  <2>3. ASSUME NEW i \in 1..n, i - 1 \in Same PROVE i \in Same
    BY <1>1, <2>1, <2>3
  <2> HIDE DEF Same
  <2>4. \A i \in 0..n : i \in Same
    BY <2>2, <2>3, HoldsUpTo
  <2>5. P(n + 1)[n] = P(n)[n]
    BY <2>4 DEF Same
  <2>6. P(n + 1)[n + 1] = b * P(n + 1)[n]
    <3>1. n + 1 \in 1..(n + 1) /\ (n + 1) - 1 = n
      OBVIOUS
    <3> QED
      BY <1>1, <2>1, <3>1
  <2> QED
    BY <1>1, <2>1, <2>5, <2>6
<1>3. Power(b, 0) = 1
  BY <1>1
<1> DEFINE Whole_ == {i \in Nat : Power(b, i) \in Nat}
<1>4. 0 \in Whole_
  BY <1>3
<1>5. ASSUME NEW i \in Nat \ {0}, i - 1 \in Whole_ PROVE i \in Whole_
  <2>1. Power(b, (i - 1) + 1) = b * Power(b, i - 1) /\ (i - 1) + 1 = i
    BY <1>2
  <2>2. Power(b, i - 1) \in Nat
    BY <1>5
  <2> QED
    BY <2>1, <2>2
<1> HIDE DEF Whole_
<1>6. \A i \in Nat : i \in Whole_
  BY <1>4, <1>5, HoldsForAll
<1> QED
  BY <1>2, <1>3, <1>6 DEF Whole_

-----------------------------------------------------------------------------
(* Pascal's triangle. *)

PascalRow(k, above) ==
  [j \in 0..k |-> IF j = 0 THEN 1 ELSE above[j - 1] + above[j]]

LEMMA PascalIsDefined ==
  ASSUME NEW n \in Nat, NEW k \in Nat
  PROVE  /\ \A j \in 0..k : Pascal(n, k)[0][j] = IF j = 0 THEN 1 ELSE 0
         /\ \A i \in 1..n : Pascal(n, k)[i][0] = 1
         /\ \A i \in 1..n, j \in 1..k :
              Pascal(n, k)[i][j] = Pascal(n, k)[i - 1][j - 1] + Pascal(n, k)[i - 1][j]
<1> DEFINE P == Pascal(n, k)
           first == [j \in 0..k |-> IF j = 0 THEN 1 ELSE 0]
           V == [0..k -> Nat]
           step == [x \in (1..n) \X V |-> PascalRow(k, x[2])]
<1>1. first \in V
  OBVIOUS
<1>2. ASSUME NEW v \in V PROVE PascalRow(k, v) \in V
  BY DEF PascalRow
<1>3. step \in [(1..n) \X V -> V]
  <2>1. \A x \in (1..n) \X V : PascalRow(k, x[2]) \in V
    <3> HIDE DEF V
    <3> QED
      BY <1>2
  <2> HIDE DEF V
  <2> QED
    BY <2>1
<1>4. \A i \in 1..n, v \in V : step[<<i, v>>] = PascalRow(k, v)
  <2> HIDE DEF V
  <2> QED
    OBVIOUS
<1> HIDE DEF step, V, first
<1>5. PICK f \in [0..n -> V] : Follows(f, n, first, step)
  BY <1>1, <1>3, RecursionIsDefined
<1>6. f = [i \in 0..n |-> IF i = 0 THEN first ELSE PascalRow(k, f[i - 1])]
  BY <1>4, <1>5 DEF Follows
<1>7. f = [i \in 0..n |->
             [j \in 0..k |-> IF j = 0 THEN 1 ELSE IF i = 0 THEN 0 ELSE f[i - 1][j - 1] + f[i - 1][j]]]
  <2> DEFINE row(i) ==
        [j \in 0..k |-> IF j = 0 THEN 1 ELSE IF i = 0 THEN 0 ELSE f[i - 1][j - 1] + f[i - 1][j]]
  <2>1. ASSUME NEW i \in 0..n PROVE (IF i = 0 THEN first ELSE PascalRow(k, f[i - 1])) = row(i)
    <3>1. CASE i = 0
      BY <3>1 DEF first
    <3>2. CASE i # 0
      BY <3>2 DEF PascalRow
    <3> QED
      BY <3>1, <3>2
  <2> HIDE DEF row
  <2>2. f = [i \in 0..n |-> row(i)]
    BY <1>6, <2>1
  <2> QED
    BY <2>2 DEF row
<1>8. P = [i \in 0..n |->
             [j \in 0..k |-> IF j = 0 THEN 1 ELSE IF i = 0 THEN 0 ELSE P[i - 1][j - 1] + P[i - 1][j]]]
  BY <1>7 DEF Pascal
<1> HIDE DEF P
<1>9. \A i \in 0..n, j \in 0..k :
        P[i][j] = IF j = 0 THEN 1 ELSE IF i = 0 THEN 0 ELSE P[i - 1][j - 1] + P[i - 1][j]
  <2> SUFFICES ASSUME NEW i \in 0..n, NEW j \in 0..k
               PROVE  P[i][j] = IF j = 0 THEN 1 ELSE IF i = 0 THEN 0 ELSE P[i - 1][j - 1] + P[i - 1][j]
    OBVIOUS
  <2>1. P[i] = [l \in 0..k |-> IF l = 0 THEN 1 ELSE IF i = 0 THEN 0 ELSE P[i - 1][l - 1] + P[i - 1][l]]
    BY <1>8
  <2> QED
    BY <2>1
<1>10. /\ \A j \in 0..k : P[0][j] = IF j = 0 THEN 1 ELSE 0
       /\ \A i \in 1..n : P[i][0] = 1
       /\ \A i \in 1..n, j \in 1..k : P[i][j] = P[i - 1][j - 1] + P[i - 1][j]
  BY <1>9
<1> QED
  BY <1>10 DEF P

(* Every larger triangle has the same entries. *)
LEMMA PascalIsOne ==
  ASSUME NEW n \in Nat, NEW k \in Nat, NEW m \in 0..n, NEW l \in 0..k
  PROVE  Pascal(n, k)[m][l] = comb(m, l)
<1> DEFINE P == Pascal(n, k)
           Q == Pascal(m, l)
           Same == {i \in 0..m : \A j \in 0..l : P[i][j] = Q[i][j]}
<1>1. /\ \A j \in 0..k : P[0][j] = IF j = 0 THEN 1 ELSE 0
      /\ \A i \in 1..n : P[i][0] = 1
      /\ \A i \in 1..n, j \in 1..k : P[i][j] = P[i - 1][j - 1] + P[i - 1][j]
  BY PascalIsDefined
<1>2. /\ \A j \in 0..l : Q[0][j] = IF j = 0 THEN 1 ELSE 0
      /\ \A i \in 1..m : Q[i][0] = 1
      /\ \A i \in 1..m, j \in 1..l : Q[i][j] = Q[i - 1][j - 1] + Q[i - 1][j]
  BY PascalIsDefined
<1> HIDE DEF P, Q
<1>3. 0 \in Same
  BY <1>1, <1>2
<1>4. ASSUME NEW i \in 1..m, i - 1 \in Same PROVE i \in Same
  <2>1. i \in 1..n /\ \A j \in 0..l : P[i - 1][j] = Q[i - 1][j]
    BY <1>4
  <2>2. ASSUME NEW j \in 0..l PROVE P[i][j] = Q[i][j]
    <3>1. CASE j = 0
      BY <1>1, <1>2, <2>1, <3>1
    <3>2. CASE j # 0
      <4>1. j \in 1..l /\ j \in 1..k /\ j - 1 \in 0..l
        BY <3>2
      <4>2. P[i - 1][j] = Q[i - 1][j] /\ P[i - 1][j - 1] = Q[i - 1][j - 1]
        BY <2>1, <4>1
      <4> QED
        BY <1>1, <1>2, <2>1, <4>1, <4>2
    <3> QED
      BY <3>1, <3>2
  <2> QED
    BY <2>2
<1> HIDE DEF Same
<1>5. \A i \in 0..m : i \in Same
  BY <1>3, <1>4, HoldsUpTo
<1>6. m \in 0..m /\ l \in 0..l
  OBVIOUS
<1>7. P[m][l] = Q[m][l]
  BY <1>5, <1>6 DEF Same
<1> QED
  BY <1>7 DEF P, Q, comb

LEMMA CombSteps ==
  /\ \A n \in Nat : comb(n, 0) = 1
  /\ \A k \in Nat \ {0} : comb(0, k) = 0
  /\ \A n, k \in Nat : comb(n + 1, k + 1) = comb(n, k) + comb(n, k + 1)
<1>1. ASSUME NEW n \in Nat PROVE comb(n, 0) = 1
  <2>1. Pascal(n, 0)[n][0] = 1
    BY PascalIsDefined
  <2> QED
    BY <2>1 DEF comb
<1>2. ASSUME NEW k \in Nat \ {0} PROVE comb(0, k) = 0
  <2>1. Pascal(0, k)[0][k] = 0
    BY PascalIsDefined
  <2> QED
    BY <2>1 DEF comb
<1>3. ASSUME NEW n \in Nat, NEW k \in Nat PROVE comb(n + 1, k + 1) = comb(n, k) + comb(n, k + 1)
  <2> DEFINE P == Pascal(n + 1, k + 1)
  <2>1. n + 1 \in Nat /\ k + 1 \in Nat /\ n \in 0..(n + 1) /\ k \in 0..(k + 1) /\ k + 1 \in 0..(k + 1)
        /\ n + 1 \in 1..(n + 1) /\ k + 1 \in 1..(k + 1) /\ (n + 1) - 1 = n /\ (k + 1) - 1 = k
    OBVIOUS
  <2>2. P[n][k] = comb(n, k) /\ P[n][k + 1] = comb(n, k + 1)
    BY <2>1, PascalIsOne
  <2>3. \A i \in 1..(n + 1), j \in 1..(k + 1) : P[i][j] = P[i - 1][j - 1] + P[i - 1][j]
    BY <2>1, PascalIsDefined
  <2> HIDE DEF P
  <2>4. P[n + 1][k + 1] = P[n][k] + P[n][k + 1]
    BY <2>1, <2>3
  <2> QED
    BY <2>2, <2>4 DEF comb, P
<1> QED
  BY <1>1, <1>2, <1>3

LEMMA CombIsNat ==
  /\ \A n, k \in Nat : comb(n, k) \in Nat
  /\ \A n, k \in Nat : k > n => comb(n, k) = 0
<1> DEFINE Good == {n \in Nat : \A k \in Nat : comb(n, k) \in Nat /\ (k > n => comb(n, k) = 0)}
<1>1. 0 \in Good
  <2> SUFFICES ASSUME NEW k \in Nat PROVE comb(0, k) \in Nat /\ (k > 0 => comb(0, k) = 0)
    OBVIOUS
  <2>1. CASE k = 0
    BY <2>1, CombSteps
  <2>2. CASE k # 0
    BY <2>2, CombSteps
  <2> QED
    BY <2>1, <2>2
<1>2. ASSUME NEW n \in Nat \ {0}, n - 1 \in Good PROVE n \in Good
  <2> SUFFICES ASSUME NEW k \in Nat PROVE comb(n, k) \in Nat /\ (k > n => comb(n, k) = 0)
    OBVIOUS
  <2>1. CASE k = 0
    BY <2>1, CombSteps
  <2>2. CASE k # 0
    <3>1. n - 1 \in Nat /\ k - 1 \in Nat /\ (n - 1) + 1 = n /\ (k - 1) + 1 = k
      BY <2>2
    <3>2. comb(n, k) = comb(n - 1, k - 1) + comb(n - 1, k)
      BY <3>1, CombSteps
    <3> QED
      BY <1>2, <3>1, <3>2
  <2> QED
    BY <2>1, <2>2
<1> HIDE DEF Good
<1>3. \A n \in Nat : n \in Good
  BY <1>1, <1>2, HoldsForAll
<1> QED
  BY <1>3 DEF Good

-----------------------------------------------------------------------------
(* The formula satisfies the same rule. *)

LEMMA Regroup ==
  ASSUME NEW a \in Int, NEW b \in Int, NEW x \in Int, NEW y \in Int, NEW p \in Int, NEW q \in Int
  PROVE  (a + b) * (p * x) * (q * y) = p * (a * x * (q * y)) + q * (b * (p * x) * y)
OBVIOUS

LEMMA MassSteps ==
  ASSUME NEW p \in 1..(RateScale - 1)
  PROVE  /\ \A n \in Nat : \A k \in 0..n : Mass(n, p, k) \in Nat
         /\ \A n \in Nat : Mass(n + 1, p, 0) = (RateScale - p) * Mass(n, p, 0)
         /\ \A n \in Nat : Mass(n + 1, p, n + 1) = p * Mass(n, p, n)
         /\ \A n \in Nat : \A k \in 0..(n - 1) :
              Mass(n + 1, p, k + 1) = p * Mass(n, p, k) + (RateScale - p) * Mass(n, p, k + 1)
<1> DEFINE q == RateScale - p
<1>1. p \in Nat /\ q \in Nat
  BY RateScaleAssumption
<1>2. /\ Power(p, 0) = 1 /\ Power(q, 0) = 1
      /\ \A n \in Nat : Power(p, n) \in Nat /\ Power(q, n) \in Nat
      /\ \A n \in Nat : Power(p, n + 1) = p * Power(p, n) /\ Power(q, n + 1) = q * Power(q, n)
  BY <1>1, PowerSteps
<1>3. \A n, k : Mass(n, p, k) = comb(n, k) * Power(p, k) * Power(q, n - k)
  BY DEF Mass
<1> HIDE DEF q
<1>4. ASSUME NEW n \in Nat, NEW k \in 0..n PROVE Mass(n, p, k) \in Nat
  <2>1. comb(n, k) \in Nat /\ Power(p, k) \in Nat /\ Power(q, n - k) \in Nat
    <3>1. k \in Nat /\ n - k \in Nat
      OBVIOUS
    <3>2. comb(n, k) \in Nat
      BY <3>1, CombIsNat
    <3> QED
      BY <1>2, <3>1, <3>2
  <2>2. \A a, b \in Nat : a * b \in Nat
    OBVIOUS
  <2> QED
    BY <1>3, <2>1, <2>2
<1>5. ASSUME NEW n \in Nat PROVE Mass(n + 1, p, 0) = q * Mass(n, p, 0)
  <2>1. /\ comb(n, 0) = 1 /\ comb(n + 1, 0) = 1 /\ n + 1 \in Nat
        /\ (n + 1) - 0 = n + 1 /\ n - 0 = n
    BY CombSteps
  <2>2. Mass(n + 1, p, 0) = 1 * 1 * Power(q, n + 1) /\ Mass(n, p, 0) = 1 * 1 * Power(q, n)
    BY <1>2, <1>3, <2>1
  <2>3. Power(q, n + 1) = q * Power(q, n) /\ Power(q, n) \in Nat /\ Power(q, n + 1) \in Nat
    BY <1>2, <2>1
  <2> QED
    BY <2>2, <2>3
<1>6. ASSUME NEW n \in Nat PROVE Mass(n + 1, p, n + 1) = p * Mass(n, p, n)
  <2>1. n + 1 \in Nat /\ (n + 1) - (n + 1) = 0 /\ n - n = 0
    OBVIOUS
  <2>2. comb(n + 1, n + 1) = comb(n, n) /\ comb(n, n) \in Nat
    <3>1. comb(n + 1, n + 1) = comb(n, n) + comb(n, n + 1)
      BY CombSteps
    <3>2. comb(n, n) \in Nat
      BY CombIsNat
    <3>3. n + 1 > n
      OBVIOUS
    <3>4. comb(n, n + 1) = 0
      BY <2>1, <3>3, CombIsNat
    <3> QED
      BY <3>1, <3>2, <3>4
  <2>3. /\ Mass(n + 1, p, n + 1) = comb(n, n) * Power(p, n + 1) * 1
        /\ Mass(n, p, n) = comb(n, n) * Power(p, n) * 1
    BY <1>2, <1>3, <2>1, <2>2
  <2>4. Power(p, n + 1) = p * Power(p, n) /\ Power(p, n) \in Nat
    BY <1>2
  <2>5. \A a, x \in Nat : a * (p * x) * 1 = p * (a * x * 1)
    BY <1>1
  <2> QED
    BY <2>2, <2>3, <2>4, <2>5
<1>7. ASSUME NEW n \in Nat, NEW k \in 0..(n - 1)
      PROVE  Mass(n + 1, p, k + 1) = p * Mass(n, p, k) + q * Mass(n, p, k + 1)
  <2> DEFINE a == comb(n, k)
             b == comb(n, k + 1)
             x == Power(p, k)
             y == Power(q, n - (k + 1))
  <2>1. /\ k \in Nat /\ k + 1 \in Nat /\ n - (k + 1) \in Nat
        /\ (n + 1) - (k + 1) = (n - (k + 1)) + 1 /\ n - k = (n - (k + 1)) + 1
    OBVIOUS
  <2>2. a \in Nat /\ b \in Nat /\ x \in Nat /\ y \in Nat
    BY <1>2, <2>1, CombIsNat
  <2>3. Power(p, k + 1) = p * x /\ Power(q, n - k) = q * y /\ Power(q, (n + 1) - (k + 1)) = q * y
    BY <1>2, <2>1
  <2>4. comb(n + 1, k + 1) = a + b
    BY <2>1, CombSteps
  <2>5. /\ Mass(n + 1, p, k + 1) = (a + b) * (p * x) * (q * y)
        /\ Mass(n, p, k) = a * x * (q * y)
        /\ Mass(n, p, k + 1) = b * (p * x) * y
    BY <1>3, <2>3, <2>4
  <2> HIDE DEF a, b, x, y
  <2>6. (a + b) * (p * x) * (q * y) = p * (a * x * (q * y)) + q * (b * (p * x) * y)
    BY <1>1, <2>2, Regroup
  <2> QED
    BY <2>5, <2>6
<1> QED
  BY <1>4, <1>5, <1>6, <1>7 DEF q

LEMMA MassIsNat ==
  ASSUME NEW p \in 1..(RateScale - 1), NEW n \in Nat, NEW k \in 0..n
  PROVE  Mass(n, p, k) \in Nat
BY MassSteps

LEMMA MassAtTheTop ==
  ASSUME NEW p \in 1..(RateScale - 1), NEW n \in Nat
  PROVE  Mass(n + 1, p, n + 1) = p * Mass(n, p, n) /\ Mass(n, p, n) \in Nat
<1>1. Mass(n + 1, p, n + 1) = p * Mass(n, p, n)
  BY MassSteps
<1>2. n \in 0..n
  OBVIOUS
<1> QED
  BY <1>1, <1>2, MassIsNat

LEMMA MassInside ==
  ASSUME NEW p \in 1..(RateScale - 1), NEW n \in Nat, NEW k \in 0..(n - 1)
  PROVE  Mass(n + 1, p, k + 1) = p * Mass(n, p, k) + (RateScale - p) * Mass(n, p, k + 1)
BY MassSteps

LEMMA MassAtTheBottom ==
  ASSUME NEW p \in 1..(RateScale - 1), NEW n \in Nat
  PROVE  Mass(n + 1, p, 0) = (RateScale - p) * Mass(n, p, 0)
BY MassSteps

-----------------------------------------------------------------------------
(* Counting. *)

Exactly(n, p, k) == {outcome \in Outcomes(n) : AlarmsOf(outcome, p) = k}
Extended(n, outcome, face) == [i \in 1..(n + 1) |-> IF i = n + 1 THEN face ELSE outcome[i]]

LEMMA OneMoreDraw ==
  ASSUME NEW n \in Nat, NEW outcome \in Outcomes(n), NEW face \in 1..RateScale, NEW p \in Nat
  PROVE  /\ Extended(n, outcome, face) \in Outcomes(n + 1)
         /\ AlarmsOf(outcome, p) \in 0..n
         /\ AlarmsOf(Extended(n, outcome, face), p) = AlarmsOf(outcome, p) + (IF face <= p THEN 1 ELSE 0)
<1> DEFINE longer == Extended(n, outcome, face)
           Low == {i \in 1..n : outcome[i] <= p}
<1>1. longer \in Outcomes(n + 1) /\ DOMAIN longer = 1..(n + 1) /\ DOMAIN outcome = 1..n
  BY DEF Extended, Outcomes
<1>2. longer[n + 1] = face /\ \A i \in 1..n : longer[i] = outcome[i]
  BY DEF Extended
<1>3. Low \in SUBSET (1..n) /\ IsFiniteSet(1..n) /\ Cardinality(1..n) = n
  BY FS_Interval
<1>4. IsFiniteSet(Low) /\ Cardinality(Low) <= n /\ Cardinality(Low) \in Nat
  BY <1>3, FS_Subset, FS_CardinalityType
<1>5. {i \in DOMAIN longer : longer[i] <= p} = IF face <= p THEN Low \cup {n + 1} ELSE Low
  BY <1>1, <1>2
<1>6. n + 1 \notin Low
  OBVIOUS
<1>7. AlarmsOf(outcome, p) = Cardinality(Low)
  BY <1>1 DEF AlarmsOf
<1> HIDE DEF Low, longer
<1>8. Cardinality(Low \cup {n + 1}) = Cardinality(Low) + 1
  BY <1>4, <1>6, FS_AddElement
<1>9. AlarmsOf(longer, p) = Cardinality(Low) + (IF face <= p THEN 1 ELSE 0)
  BY <1>4, <1>5, <1>8 DEF AlarmsOf
<1> QED
  BY <1>1, <1>4, <1>7, <1>9 DEF longer

LEMMA DroppingADraw ==
  ASSUME NEW n \in Nat, NEW X \in SUBSET Outcomes(n + 1),
         NEW Y \in SUBSET (Outcomes(n) \X (1..RateScale)), IsFiniteSet(Y),
         \A outcome \in Outcomes(n), face \in 1..RateScale :
           <<outcome, face>> \in Y <=> Extended(n, outcome, face) \in X
  PROVE  IsFiniteSet(X) /\ Cardinality(X) = Cardinality(Y)
<1> DEFINE f == [y \in Y |-> Extended(n, y[1], y[2])]
<1>1. \A y \in Y : y[1] \in Outcomes(n) /\ y[2] \in 1..RateScale /\ y = <<y[1], y[2]>>
  OBVIOUS
<1>2. f \in [Y -> X]
  BY <1>1
<1>3. ASSUME NEW y \in Y, NEW z \in Y, f[y] = f[z] PROVE y = z
  <2>1. Extended(n, y[1], y[2]) = Extended(n, z[1], z[2])
    BY <1>3
  <2>2. /\ Extended(n, y[1], y[2])[n + 1] = y[2] /\ Extended(n, z[1], z[2])[n + 1] = z[2]
        /\ \A i \in 1..n : /\ Extended(n, y[1], y[2])[i] = y[1][i]
                           /\ Extended(n, z[1], z[2])[i] = z[1][i]
    BY DEF Extended
  <2>3. y[2] = z[2] /\ \A i \in 1..n : y[1][i] = z[1][i]
    BY <2>1, <2>2
  <2>4. y[1] = z[1]
    BY <1>1, <2>3 DEF Outcomes
  <2> QED
    BY <1>1, <2>3, <2>4
<1>4. ASSUME NEW x \in X PROVE \E y \in Y : f[y] = x
  <2> DEFINE shorter == [i \in 1..n |-> x[i]]
  <2>1. x \in [1..(n + 1) -> 1..RateScale]
    BY DEF Outcomes
  <2>2. shorter \in Outcomes(n) /\ x[n + 1] \in 1..RateScale
    BY <2>1 DEF Outcomes
  <2>3. Extended(n, shorter, x[n + 1]) = x
    BY <2>1 DEF Extended
  <2> HIDE DEF shorter
  <2>4. <<shorter, x[n + 1]>> \in Y
    BY <2>2, <2>3
  <2> QED
    BY <2>3, <2>4
<1>5. f \in Bijection(Y, X)
  <2> HIDE DEF f
  <2> QED
    BY <1>2, <1>3, <1>4 DEF Bijection, Injection, Surjection, IsInjective
<1> QED
  BY <1>5, FS_Bijection DEF ExistsBijection

LEMMA NoDrawAtAll == Outcomes(0) # {} /\ IsFiniteSet(Outcomes(0)) /\ Cardinality(Outcomes(0)) = 1
<1> DEFINE nothing == [i \in 1..0 |-> 1]
<1>1. nothing \in Outcomes(0)
  BY DEF Outcomes
<1>2. \A outcome \in Outcomes(0) : outcome = nothing
  BY DEF Outcomes
<1> HIDE DEF nothing
<1>3. Outcomes(0) = {nothing}
  BY <1>1, <1>2
<1> QED
  BY <1>3, FS_Singleton

LEMMA OutcomesAreWhole ==
  \A n \in Nat : IsFiniteSet(Outcomes(n)) /\ Cardinality(Outcomes(n)) = Whole(n)
<1> DEFINE Good == {n \in Nat : IsFiniteSet(Outcomes(n)) /\ Cardinality(Outcomes(n)) = Whole(n)}
<1>1. /\ RateScale \in Nat /\ Power(RateScale, 0) = 1
      /\ \A n \in Nat : Power(RateScale, n + 1) = RateScale * Power(RateScale, n)
      /\ \A n \in Nat : Power(RateScale, n) \in Nat
  BY RateScaleAssumption, PowerSteps
<1>2. 0 \in Good
  BY <1>1, NoDrawAtAll DEF Whole
<1>3. ASSUME NEW n \in Nat \ {0}, n - 1 \in Good PROVE n \in Good
  <2> DEFINE m == n - 1
             Y == Outcomes(m) \X (1..RateScale)
  <2>1. m \in Nat /\ m + 1 = n /\ IsFiniteSet(Outcomes(m)) /\ Cardinality(Outcomes(m)) = Power(RateScale, m)
    BY <1>3 DEF Whole
  <2> HIDE DEF m
  <2>2. IsFiniteSet(1..RateScale) /\ Cardinality(1..RateScale) = RateScale
    BY <1>1, FS_Interval
  <2>3. IsFiniteSet(Y) /\ Cardinality(Y) = Power(RateScale, m) * RateScale
    BY <2>1, <2>2, FS_Product
  <2>4. \A outcome \in Outcomes(m), face \in 1..RateScale :
          <<outcome, face>> \in Y <=> Extended(m, outcome, face) \in Outcomes(m + 1)
    BY <2>1, OneMoreDraw
  <2>5. Y \in SUBSET (Outcomes(m) \X (1..RateScale))
    OBVIOUS
  <2> HIDE DEF Y
  <2>6. IsFiniteSet(Outcomes(m + 1)) /\ Cardinality(Outcomes(m + 1)) = Cardinality(Y)
    BY <2>1, <2>3, <2>4, <2>5, DroppingADraw
  <2>7. Power(RateScale, m + 1) = RateScale * Power(RateScale, m) /\ Power(RateScale, m) \in Nat
    BY <1>1, <2>1
  <2> QED
    BY <1>1, <2>1, <2>3, <2>6, <2>7 DEF Whole
<1> HIDE DEF Good
<1>4. \A n \in Nat : n \in Good
  BY <1>2, <1>3, HoldsForAll
<1> QED
  BY <1>4 DEF Good

LEMMA AlarmsAreCounted ==
  \A n, p \in Nat : \A outcome \in Outcomes(n) : AlarmsOf(outcome, p) \in 0..n
<1> SUFFICES ASSUME NEW n \in Nat, NEW p \in Nat, NEW outcome \in Outcomes(n)
             PROVE  AlarmsOf(outcome, p) \in 0..n
  OBVIOUS
<1>1. 1 \in 1..RateScale
  BY RateScaleAssumption
<1> QED
  BY <1>1, OneMoreDraw

LEMMA ExactlyIsFinite ==
  \A n, p \in Nat : \A k : IsFiniteSet(Exactly(n, p, k)) /\ Cardinality(Exactly(n, p, k)) \in Nat
<1> SUFFICES ASSUME NEW n \in Nat, NEW p \in Nat, NEW k
             PROVE  IsFiniteSet(Exactly(n, p, k)) /\ Cardinality(Exactly(n, p, k)) \in Nat
  OBVIOUS
<1>1. Exactly(n, p, k) \in SUBSET Outcomes(n)
  BY DEF Exactly
<1>2. IsFiniteSet(Outcomes(n))
  BY OutcomesAreWhole
<1>3. IsFiniteSet(Exactly(n, p, k))
  BY <1>1, <1>2, FS_Subset
<1> QED
  BY <1>3, FS_CardinalityType

(* The last draw either raises an alarm, with p faces, or does not.        *)
LEMMA ExactlySteps ==
  ASSUME NEW p \in 1..(RateScale - 1), NEW n \in Nat, NEW k \in Nat
  PROVE  /\ k = 0 => Cardinality(Exactly(n + 1, p, k)) = (RateScale - p) * Cardinality(Exactly(n, p, k))
         /\ k # 0 => Cardinality(Exactly(n + 1, p, k)) =
                       p * Cardinality(Exactly(n, p, k - 1)) + (RateScale - p) * Cardinality(Exactly(n, p, k))
<1> DEFINE Before == {outcome \in Outcomes(n) : AlarmsOf(outcome, p) + 1 = k}
           Alarming == Before \X (1..p)
           Silent == Exactly(n, p, k) \X ((p + 1)..RateScale)
           Y == Alarming \cup Silent
<1>1. p \in Nat /\ RateScale \in Nat /\ RateScale - p \in Nat
  BY RateScaleAssumption
<1>2. IsFiniteSet(Before) /\ (k = 0 => Before = {}) /\ (k # 0 => Before = Exactly(n, p, k - 1))
  <2>1. \A outcome \in Outcomes(n) : AlarmsOf(outcome, p) \in Nat
    BY <1>1, AlarmsAreCounted
  <2>2. k = 0 => Before = {}
    BY <2>1
  <2>3. k # 0 => Before = Exactly(n, p, k - 1)
    BY <2>1 DEF Exactly
  <2> HIDE DEF Before
  <2> QED
    BY <1>1, <2>2, <2>3, ExactlyIsFinite, FS_EmptySet
<1>3. IsFiniteSet(Exactly(n, p, k)) /\ Cardinality(Exactly(n, p, k)) \in Nat
  BY <1>1, ExactlyIsFinite
<1>4. /\ IsFiniteSet(1..p) /\ Cardinality(1..p) = p
      /\ IsFiniteSet((p + 1)..RateScale) /\ Cardinality((p + 1)..RateScale) = RateScale - p
  <2>1. p - 1 + 1 = p /\ RateScale - (p + 1) + 1 = RateScale - p /\ 1 <= p /\ p + 1 <= RateScale
        /\ p \in Int /\ p + 1 \in Int /\ RateScale \in Int
    BY <1>1
  <2> QED
    BY <2>1, FS_Interval
<1>5. Y \in SUBSET (Outcomes(n) \X (1..RateScale))
  <2>1. Before \in SUBSET Outcomes(n) /\ Exactly(n, p, k) \in SUBSET Outcomes(n)
    BY DEF Exactly
  <2>2. (1..p) \in SUBSET (1..RateScale) /\ ((p + 1)..RateScale) \in SUBSET (1..RateScale)
    BY <1>1
  <2> HIDE DEF Before
  <2> QED
    BY <2>1, <2>2
<1>6. \A outcome \in Outcomes(n), face \in 1..RateScale :
        <<outcome, face>> \in Y <=> Extended(n, outcome, face) \in Exactly(n + 1, p, k)
  <2> SUFFICES ASSUME NEW outcome \in Outcomes(n), NEW face \in 1..RateScale
               PROVE  <<outcome, face>> \in Y <=> Extended(n, outcome, face) \in Exactly(n + 1, p, k)
    OBVIOUS
  <2>1. /\ Extended(n, outcome, face) \in Outcomes(n + 1) /\ AlarmsOf(outcome, p) \in Nat
        /\ AlarmsOf(Extended(n, outcome, face), p) = AlarmsOf(outcome, p) + (IF face <= p THEN 1 ELSE 0)
    BY <1>1, OneMoreDraw
  <2>2. Extended(n, outcome, face) \in Exactly(n + 1, p, k)
          <=> AlarmsOf(outcome, p) + (IF face <= p THEN 1 ELSE 0) = k
    BY <2>1 DEF Exactly
  <2>3. CASE face <= p
    <3>1. face \in 1..p /\ face \notin (p + 1)..RateScale
      BY <1>1, <2>3
    <3>2. <<outcome, face>> \in Y <=> outcome \in Before
      BY <3>1
    <3> QED
      BY <2>2, <2>3, <3>2
  <2>4. CASE ~ (face <= p)
    <3>1. face \notin 1..p /\ face \in (p + 1)..RateScale
      BY <1>1, <2>4
    <3>2. <<outcome, face>> \in Y <=> outcome \in Exactly(n, p, k)
      BY <3>1
    <3> QED
      BY <2>1, <2>2, <2>4, <3>2 DEF Exactly
  <2> QED
    BY <2>3, <2>4
<1> HIDE DEF Before
<1>7. /\ IsFiniteSet(Alarming) /\ Cardinality(Alarming) = Cardinality(Before) * p
      /\ IsFiniteSet(Silent) /\ Cardinality(Silent) = Cardinality(Exactly(n, p, k)) * (RateScale - p)
  BY <1>2, <1>3, <1>4, FS_Product
<1>8. Alarming \cap Silent = {}
  BY <1>1
<1> HIDE DEF Alarming, Silent
<1>9. Cardinality(Alarming \cap Silent) = 0
  BY <1>8, FS_EmptySet
<1>10. IsFiniteSet(Y) /\ Cardinality(Y) = Cardinality(Alarming) + Cardinality(Silent) - 0
  BY <1>7, <1>9, FS_Union
<1> HIDE DEF Y
<1>11. Exactly(n + 1, p, k) \in SUBSET Outcomes(n + 1)
  BY DEF Exactly
<1>12. Cardinality(Exactly(n + 1, p, k)) = Cardinality(Y)
  BY <1>5, <1>6, <1>10, <1>11, DroppingADraw
<1>13. Cardinality(Before) \in Nat /\ (k = 0 => Cardinality(Before) = 0)
  BY <1>2, FS_EmptySet, FS_CardinalityType
<1>14. \A a, b \in Nat : a * p + b * (RateScale - p) - 0 = p * a + (RateScale - p) * b
  BY <1>1
<1>15. Cardinality(Exactly(n + 1, p, k)) =
         p * Cardinality(Before) + (RateScale - p) * Cardinality(Exactly(n, p, k))
  BY <1>3, <1>7, <1>10, <1>12, <1>13, <1>14
<1>16. CASE k = 0
  <2>1. Cardinality(Before) = 0 /\ p * 0 = 0 /\ (RateScale - p) * Cardinality(Exactly(n, p, k)) \in Int
    BY <1>1, <1>3, <1>13, <1>16
  <2> QED
    BY <1>15, <1>16, <2>1
<1>17. CASE k # 0
  BY <1>2, <1>15, <1>17
<1> QED
  BY <1>16, <1>17

LEMMA MassCounts ==
  ASSUME NEW p \in 1..(RateScale - 1)
  PROVE  \A n, k \in Nat : Cardinality(Exactly(n, p, k)) = IF k <= n THEN Mass(n, p, k) ELSE 0
<1> DEFINE Good == {n \in Nat : \A k \in Nat :
                      Cardinality(Exactly(n, p, k)) = IF k <= n THEN Mass(n, p, k) ELSE 0}
           q == RateScale - p
<1>1. p \in Nat /\ q \in Nat
  BY RateScaleAssumption
<1>2. 0 \in Good
  <2> SUFFICES ASSUME NEW k \in Nat
               PROVE  Cardinality(Exactly(0, p, k)) = IF k <= 0 THEN Mass(0, p, k) ELSE 0
    OBVIOUS
  <2>1. \A outcome \in Outcomes(0) : AlarmsOf(outcome, p) = 0
    <3>1. \A outcome \in Outcomes(0) : AlarmsOf(outcome, p) \in 0..0
      BY <1>1, AlarmsAreCounted
    <3> QED
      BY <3>1
  <2>2. CASE k = 0
    <3>1. Exactly(0, p, k) = Outcomes(0)
      BY <2>1, <2>2 DEF Exactly
    <3>2. comb(0, 0) = 1 /\ Power(p, 0) = 1 /\ Power(q, 0) = 1 /\ 0 - 0 = 0
      BY <1>1, CombSteps, PowerSteps
    <3>3. Mass(0, p, 0) = 1 * 1 * 1
      BY <3>2 DEF Mass
    <3> QED
      BY <2>2, <3>1, <3>3, NoDrawAtAll
  <2>3. CASE k # 0
    <3>1. Exactly(0, p, k) = {}
      BY <2>1, <2>3 DEF Exactly
    <3> QED
      BY <2>3, <3>1, FS_EmptySet
  <2> QED
    BY <2>2, <2>3
<1>3. ASSUME NEW m \in Nat \ {0}, m - 1 \in Good PROVE m \in Good
  <2> DEFINE n == m - 1
  <2>1. n \in Nat /\ n + 1 = m
    OBVIOUS
  <2>2. \A k \in Nat : Cardinality(Exactly(n, p, k)) = IF k <= n THEN Mass(n, p, k) ELSE 0
    BY <1>3
  <2> HIDE DEF n
  <2>3. ASSUME NEW k \in Nat
        PROVE  Cardinality(Exactly(n + 1, p, k)) = IF k <= n + 1 THEN Mass(n + 1, p, k) ELSE 0
    <3>1. CASE k = 0
      <4>1. Cardinality(Exactly(n + 1, p, 0)) = q * Cardinality(Exactly(n, p, 0))
        BY <2>1, ExactlySteps
      <4>2. Cardinality(Exactly(n, p, 0)) = Mass(n, p, 0)
        BY <2>1, <2>2
      <4>3. Mass(n + 1, p, 0) = q * Mass(n, p, 0)
        BY <2>1, MassAtTheBottom
      <4>4. k <= n + 1
        BY <2>1, <3>1
      <4> HIDE DEF q
      <4> QED
        BY <3>1, <4>1, <4>2, <4>3, <4>4
    <3>2. CASE k # 0
      <4> DEFINE j == k - 1
      <4>1. j \in Nat /\ j + 1 = k
        BY <3>2
      <4>2. Cardinality(Exactly(n + 1, p, k)) = p * Cardinality(Exactly(n, p, j)) + q * Cardinality(Exactly(n, p, k))
        BY <2>1, <3>2, ExactlySteps
      <4>3. /\ Cardinality(Exactly(n, p, j)) = (IF j <= n THEN Mass(n, p, j) ELSE 0)
            /\ Cardinality(Exactly(n, p, k)) = (IF k <= n THEN Mass(n, p, k) ELSE 0)
        BY <2>2, <4>1
      <4> HIDE DEF j, q
      <4>4. CASE k <= n
        <5>1. j \in 0..(n - 1) /\ j <= n /\ k <= n + 1
          BY <2>1, <4>1, <4>4
        <5>2. Mass(n + 1, p, j + 1) = p * Mass(n, p, j) + q * Mass(n, p, j + 1)
          BY <2>1, <5>1, MassInside DEF q
        <5> QED
          BY <4>1, <4>2, <4>3, <4>4, <5>1, <5>2
      <4>5. CASE k = n + 1
        <5>1. j = n /\ ~ (k <= n) /\ j <= n /\ k <= n + 1
          BY <2>1, <4>1, <4>5
        <5>2. Mass(n + 1, p, n + 1) = p * Mass(n, p, n) /\ Mass(n, p, n) \in Nat
          BY <2>1, MassAtTheTop
        <5>3. Cardinality(Exactly(n + 1, p, k)) = p * Mass(n, p, n) + q * 0
          BY <4>2, <4>3, <5>1
        <5>4. \A x \in Nat : p * x + q * 0 = p * x
          BY <1>1
        <5> QED
          BY <4>5, <5>1, <5>2, <5>3, <5>4
      <4>6. CASE k > n + 1
        <5>1. ~ (j <= n) /\ ~ (k <= n) /\ ~ (k <= n + 1)
          BY <2>1, <4>1, <4>6
        <5>2. p * 0 + q * 0 = 0
          BY <1>1
        <5> QED
          BY <4>2, <4>3, <5>1, <5>2
      <4> QED
        BY <2>1, <4>4, <4>5, <4>6
    <3> QED
      BY <3>1, <3>2
  <2> QED
    BY <2>1, <2>3
<1> HIDE DEF Good
<1>4. \A n \in Nat : n \in Good
  BY <1>2, <1>3, HoldsForAll
<1> QED
  BY <1>4 DEF Good

-----------------------------------------------------------------------------
(* The sum the loop accumulates counts too. *)

AtMost(n, p, k) == {outcome \in Outcomes(n) : AlarmsOf(outcome, p) <= k}

LEMMA CumulatedIsDefined ==
  ASSUME NEW p \in 1..(RateScale - 1), NEW n \in Nat, NEW k \in 0..n
  PROVE  /\ Cumulated(n, p, k)[0] = Mass(n, p, 0)
         /\ \A i \in 1..k : Cumulated(n, p, k)[i] = Cumulated(n, p, k)[i - 1] + Mass(n, p, i)
<1> DEFINE C == Cumulated(n, p, k)
           step == [x \in (1..k) \X Nat |-> x[2] + Mass(n, p, x[1])]
<1>1. k \in Nat /\ \A i \in 0..k : Mass(n, p, i) \in Nat
  <2>1. ASSUME NEW i \in 0..k PROVE i \in 0..n
    OBVIOUS
  <2> QED
    BY <2>1, MassIsNat
<1>2. step \in [(1..k) \X Nat -> Nat] /\ \A i \in 1..k, v \in Nat : step[<<i, v>>] = v + Mass(n, p, i)
  BY <1>1
<1>3. Mass(n, p, 0) \in Nat
  BY <1>1
<1> HIDE DEF step
<1>4. PICK f \in [0..k -> Nat] : Follows(f, k, Mass(n, p, 0), step)
  BY <1>1, <1>2, <1>3, RecursionIsDefined
<1>5. f = [i \in 0..k |-> IF i = 0 THEN Mass(n, p, 0) ELSE f[i - 1] + Mass(n, p, i)]
  BY <1>2, <1>4 DEF Follows
<1>6. C = [i \in 0..k |-> IF i = 0 THEN Mass(n, p, 0) ELSE C[i - 1] + Mass(n, p, i)]
  BY <1>5 DEF Cumulated
<1> HIDE DEF C
<1>7. C[0] = Mass(n, p, 0) /\ \A i \in 1..k : C[i] = C[i - 1] + Mass(n, p, i)
  BY <1>1, <1>6
<1> QED
  BY <1>7 DEF C

LEMMA CumulativeCounts ==
  ASSUME NEW p \in 1..(RateScale - 1), NEW n \in Nat, NEW k \in 0..n
  PROVE  IsFiniteSet(AtMost(n, p, k)) /\ Cardinality(AtMost(n, p, k)) = Cumulative(n, p, k)
<1> DEFINE C == Cumulated(n, p, k)
           Good == {i \in 0..k : IsFiniteSet(AtMost(n, p, i)) /\ Cardinality(AtMost(n, p, i)) = C[i]}
<1>1. C[0] = Mass(n, p, 0) /\ \A i \in 1..k : C[i] = C[i - 1] + Mass(n, p, i)
  BY CumulatedIsDefined
<1> HIDE DEF C
<1>2. p \in Nat /\ k \in Nat /\ k <= n
  OBVIOUS
<1>3. \A outcome \in Outcomes(n) : AlarmsOf(outcome, p) \in Nat
  BY <1>2, AlarmsAreCounted
<1>4. \A i \in 0..k : /\ IsFiniteSet(Exactly(n, p, i))
                      /\ Cardinality(Exactly(n, p, i)) = Mass(n, p, i) /\ Mass(n, p, i) \in Nat
  <2> SUFFICES ASSUME NEW i \in 0..k
               PROVE  /\ IsFiniteSet(Exactly(n, p, i))
                      /\ Cardinality(Exactly(n, p, i)) = Mass(n, p, i) /\ Mass(n, p, i) \in Nat
    OBVIOUS
  <2>1. i \in Nat /\ i <= n
    BY <1>2
  <2>2. Cardinality(Exactly(n, p, i)) = Mass(n, p, i)
    BY <2>1, MassCounts
  <2> QED
    BY <1>2, <2>1, <2>2, ExactlyIsFinite
<1>5. 0 \in Good
  <2>1. AtMost(n, p, 0) = Exactly(n, p, 0)
    BY <1>3 DEF AtMost, Exactly
  <2>2. 0 \in 0..k
    BY <1>2
  <2> QED
    BY <1>1, <1>4, <2>1, <2>2
<1>6. ASSUME NEW i \in 1..k, i - 1 \in Good PROVE i \in Good
  <2> DEFINE A == AtMost(n, p, i - 1)
             B == Exactly(n, p, i)
  <2>1. IsFiniteSet(A) /\ Cardinality(A) = C[i - 1]
    BY <1>6
  <2>2. IsFiniteSet(B) /\ Cardinality(B) = Mass(n, p, i) /\ Mass(n, p, i) \in Nat
    BY <1>4
  <2>3. AtMost(n, p, i) = A \cup B /\ A \cap B = {}
    BY <1>3 DEF AtMost, Exactly
  <2> HIDE DEF A, B
  <2>4. Cardinality(A \cap B) = 0 /\ Cardinality(A) \in Nat
    BY <2>1, <2>3, FS_EmptySet, FS_CardinalityType
  <2>5. IsFiniteSet(A \cup B) /\ Cardinality(A \cup B) = Cardinality(A) + Cardinality(B) - 0
    BY <2>1, <2>2, <2>4, FS_Union
  <2>6. IsFiniteSet(AtMost(n, p, i)) /\ Cardinality(AtMost(n, p, i)) = C[i - 1] + Mass(n, p, i)
    BY <2>1, <2>2, <2>3, <2>4, <2>5
  <2>7. C[i] = C[i - 1] + Mass(n, p, i)
    BY <1>1
  <2> QED
    BY <2>6, <2>7
<1> HIDE DEF Good
<1>7. \A i \in 0..k : i \in Good
  BY <1>2, <1>5, <1>6, HoldsUpTo
<1>8. k \in Good
  BY <1>2, <1>7
<1> QED
  BY <1>8 DEF Good, C, Cumulative

(* What is left of the whole is the chance of more alarms than that. *)
LEMMA CriticalIsRare ==
  ASSUME NEW p \in 1..(RateScale - 1), NEW n \in Nat, NEW k \in 0..n
  PROVE  IsCritical(n, p, k) <=>
           AlphaScale * Cardinality(AsMany(n, p, k + 1)) < Alpha * Cardinality(Outcomes(n))
<1>1. IsFiniteSet(Outcomes(n)) /\ Cardinality(Outcomes(n)) = Whole(n)
  BY OutcomesAreWhole
<1>2. IsFiniteSet(AtMost(n, p, k)) /\ Cardinality(AtMost(n, p, k)) = Cumulative(n, p, k)
  BY CumulativeCounts
<1>3. AtMost(n, p, k) \in SUBSET Outcomes(n)
  BY DEF AtMost
<1>4. AsMany(n, p, k + 1) = Outcomes(n) \ AtMost(n, p, k)
  <2>1. \A outcome \in Outcomes(n) : AlarmsOf(outcome, p) \in 0..n
    BY AlarmsAreCounted
  <2> QED
    BY <2>1 DEF AsMany, AtMost
<1>5. Outcomes(n) \cap AtMost(n, p, k) = AtMost(n, p, k)
  BY <1>3
<1>6. Cardinality(AsMany(n, p, k + 1)) = Whole(n) - Cumulative(n, p, k)
  BY <1>1, <1>2, <1>4, <1>5, FS_Difference
<1> QED
  BY <1>1, <1>6 DEF IsCritical

LEMMA RarerStill ==
  ASSUME NEW p \in Nat, NEW n \in Nat, NEW i \in Nat, NEW j \in Nat, i <= j
  PROVE  /\ Cardinality(AsMany(n, p, i)) \in Nat /\ Cardinality(AsMany(n, p, j)) \in Nat
         /\ Cardinality(AsMany(n, p, j)) <= Cardinality(AsMany(n, p, i))
<1>1. \A outcome \in Outcomes(n) : AlarmsOf(outcome, p) \in Nat
  BY AlarmsAreCounted
<1>2. AsMany(n, p, j) \in SUBSET AsMany(n, p, i) /\ AsMany(n, p, i) \in SUBSET Outcomes(n)
  BY <1>1 DEF AsMany
<1>3. IsFiniteSet(AsMany(n, p, i))
  BY <1>2, OutcomesAreWhole, FS_Subset
<1> QED
  BY <1>2, <1>3, FS_Subset, FS_CardinalityType

(* The test declares a rate inconsistent (_check_false_alarm,              *)
(* _binomial_critical) exactly when a check that has it would raise so     *)
(* many alarms with a probability below alpha.                             *)
THEOREM BinomialTestIsExact ==
  ASSUME NEW n \in Nat, NEW declared \in 1..(RateScale - 1), NEW failures \in 0..n
  PROVE  Inconsistent(failures, n, declared) <=>
           AlphaScale * Cardinality(AsMany(n, declared, failures)) < Alpha * Cardinality(Outcomes(n))
<1> DEFINE Rare(k) == AlphaScale * Cardinality(AsMany(n, declared, k)) < Alpha * Cardinality(Outcomes(n))
           enough == {k \in 0..n : IsCritical(n, declared, k)}
           critical == Critical(n, declared)
<1>1. declared \in Nat /\ Alpha \in Nat /\ AlphaScale \in Nat /\ Alpha # 0 /\ Alpha < AlphaScale
  BY RateScaleAssumption, AlphaAssumption
<1>2. Cardinality(Outcomes(n)) \in Nat /\ Cardinality(Outcomes(n)) # 0
  <2>1. IsFiniteSet(Outcomes(n))
    BY OutcomesAreWhole
  <2>2. [i \in 1..n |-> 1] \in Outcomes(n)
    BY RateScaleAssumption DEF Outcomes
  <2> QED
    BY <2>1, <2>2, FS_EmptySet, FS_CardinalityType
<1>3. \A k \in 0..n : IsCritical(n, declared, k) <=> Rare(k + 1)
  BY CriticalIsRare
<1>4. \A i, j \in Nat : i <= j /\ Rare(i) => Rare(j)
  <2> SUFFICES ASSUME NEW i \in Nat, NEW j \in Nat, i <= j, Rare(i) PROVE Rare(j)
    OBVIOUS
  <2>1. /\ Cardinality(AsMany(n, declared, i)) \in Nat /\ Cardinality(AsMany(n, declared, j)) \in Nat
        /\ Cardinality(AsMany(n, declared, j)) <= Cardinality(AsMany(n, declared, i))
    BY <1>1, RarerStill
  <2>2. \A a, b \in Nat : a <= b => AlphaScale * a <= AlphaScale * b
    BY <1>1
  <2>3. AlphaScale * Cardinality(AsMany(n, declared, j)) <= AlphaScale * Cardinality(AsMany(n, declared, i))
    BY <2>1, <2>2
  <2>4. PICK x \in Int : x = AlphaScale * Cardinality(AsMany(n, declared, i))
    BY <1>1, <2>1
  <2>5. PICK y \in Int : y = AlphaScale * Cardinality(AsMany(n, declared, j))
    BY <1>1, <2>1
  <2>6. PICK w \in Int : w = Alpha * Cardinality(Outcomes(n))
    BY <1>1, <1>2
  <2> QED
    BY <2>3, <2>4, <2>5, <2>6
<1>5. Rare(n + 1)
  <2>1. \A outcome \in Outcomes(n) : AlarmsOf(outcome, declared) \in 0..n
    BY <1>1, AlarmsAreCounted
  <2>2. AsMany(n, declared, n + 1) = {}
    BY <2>1 DEF AsMany
  <2>3. Cardinality(AsMany(n, declared, n + 1)) = 0
    BY <2>2, FS_EmptySet
  <2>4. \A a, b \in Nat : a # 0 /\ b # 0 => AlphaScale * 0 < a * b
    BY <1>1
  <2> QED
    BY <1>1, <1>2, <2>3, <2>4
<1>6. ~ Rare(0)
  <2>1. \A outcome \in Outcomes(n) : AlarmsOf(outcome, declared) \in 0..n
    BY <1>1, AlarmsAreCounted
  <2>2. AsMany(n, declared, 0) = Outcomes(n)
    BY <2>1 DEF AsMany
  <2>3. \A w \in Nat : ~ (AlphaScale * w < Alpha * w)
    BY <1>1
  <2> QED
    BY <1>2, <2>2, <2>3
<1> HIDE DEF Rare
<1>7. n \in enough
  BY <1>3, <1>5
<1>8. enough \in SUBSET Nat /\ enough # {}
  BY <1>7
<1>9. critical = CHOOSE k \in enough : \A j \in enough : k <= j
  BY <1>8 DEF Critical
<1> HIDE DEF enough, critical
<1>10. critical \in enough /\ \A j \in enough : critical <= j
  BY <1>8, <1>9, LeastOf
<1> USE DEF enough
<1>11. critical \in 0..n /\ Rare(critical + 1)
  BY <1>3, <1>10
<1>12. ASSUME failures > critical PROVE Rare(failures)
  <2>1. critical + 1 <= failures /\ critical + 1 \in Nat /\ failures \in Nat
    BY <1>11, <1>12
  <2> QED
    BY <1>4, <1>11, <2>1
<1>13. ASSUME Rare(failures) PROVE failures > critical
  <2>1. failures # 0
    BY <1>6, <1>13
  <2>2. failures - 1 \in 0..n /\ (failures - 1) + 1 = failures
    BY <2>1
  <2>3. failures - 1 \in enough
    BY <1>3, <1>13, <2>2
  <2> QED
    BY <1>10, <1>11, <2>3
<1>14. Inconsistent(failures, n, declared) <=> Rare(failures)
  BY <1>12, <1>13 DEF Inconsistent, critical
<1> QED
  BY <1>14 DEF Rare
=============================================================================
