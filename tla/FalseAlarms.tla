---------------------------- MODULE FalseAlarms ----------------------------
(***************************************************************************)
(* How the battery judges a measured false-alarm rate (core/battery.py).   *)
(* Rates are whole numbers of 1/RateScale, alpha is a ratio of whole       *)
(* numbers and a probability over n realisations is a whole number of      *)
(* 1/RateScale^n.  Comparisons are exact, but for the one that the smoke   *)
(* tier may reach with equality: the code multiplies doubles, and 9 alarms *)
(* in 20 exceed 3.0 * 0.15.  How it comes out is `tie'.                    *)
(***************************************************************************)
EXTENDS Integers, FiniteSets

CONSTANTS
  RateScale,       \* the denominator of a rate
  GrossFactor,     \* SMOKE_GROSS_FACTOR
  Alpha,           \* FULL_ALPHA is Alpha / AlphaScale
  AlphaScale

ASSUME RateScaleAssumption == RateScale \in Nat \ {0}
ASSUME GrossFactorAssumption == GrossFactor \in Nat \ {0}
ASSUME AlphaAssumption == Alpha \in Nat \ {0} /\ AlphaScale \in Nat /\ Alpha < AlphaScale

(* base ** exponent and, by Pascal's rule, math.comb(n, k).                *)
Power(base, exponent) ==
  LET upTo[i \in 0..exponent] == IF i = 0 THEN 1 ELSE base * upTo[i - 1]
  IN  upTo[exponent]

Pascal(n, k) ==
  LET upTo[i \in 0..n] ==
        [j \in 0..k |-> IF j = 0 THEN 1 ELSE IF i = 0 THEN 0 ELSE upTo[i - 1][j - 1] + upTo[i - 1][j]]
  IN  upTo
comb(n, k) == Pascal(n, k)[n][k]

Whole(n) == Power(RateScale, n)

(* P(X = k) for X ~ Binomial(n, p), and the sum the loop accumulates.      *)
Mass(n, p, k) == comb(n, k) * Power(p, k) * Power(RateScale - p, n - k)

Cumulated(n, p, k) ==
  LET upTo[i \in 0..k] == IF i = 0 THEN Mass(n, p, 0) ELSE upTo[i - 1] + Mass(n, p, i)
  IN  upTo
Cumulative(n, p, k) == Cumulated(n, p, k)[k]

SlipSumOneBehind(n, p, k) ==
  AlphaScale * (Whole(n) - (Cumulative(n, p, k) - Mass(n, p, k))) < Alpha * Whole(n)

IsCritical(n, p, k) == AlphaScale * (Whole(n) - Cumulative(n, p, k)) < Alpha * Whole(n)

Critical(n, p) ==
  LET enough == {k \in 0..n : IsCritical(n, p, k)}
  IN  IF enough = {} THEN n ELSE CHOOSE k \in enough : \A j \in enough : k <= j

GrosslyExceeds(failures, n, declared, tie) ==
  LET seen == failures * RateScale
      allowed == GrossFactor * declared * n
  IN  seen > allowed \/ (seen = allowed /\ ~tie)

Inconsistent(failures, n, declared) == failures > Critical(n, declared)

-----------------------------------------------------------------------------
(* What the test is to decide, without the binomial formula.  Of the       *)
(* equally likely outcomes of n draws from RateScale faces, those in which *)
(* a check with exactly the declared rate raises at least so many alarms.  *)
Outcomes(n) == [1..n -> 1..RateScale]
AlarmsOf(outcome, declared) == Cardinality({i \in DOMAIN outcome : outcome[i] <= declared})
AsMany(n, declared, alarms) ==
  {outcome \in Outcomes(n) : AlarmsOf(outcome, declared) >= alarms}
=============================================================================
