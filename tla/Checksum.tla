------------------------------ MODULE Checksum ------------------------------
(***************************************************************************)
(* The checksum gate (instruments/checksum.py): recompute from the raw     *)
(* parse the statistics the vendor published.  Readings are whole          *)
(* thousandths; a published statistic has two decimals, so it is a         *)
(* multiple of Place, and PUBLISHED_TOLERANCE is half of the last place.   *)
(*                                                                         *)
(* The code compares doubles, with nothing to spare for their rounding.  A *)
(* computed value nearer or farther than half of the last place is told    *)
(* apart as the exact fractions are.  One exactly half-way, a tie, falls   *)
(* on either side: 0.605 against 0.61 disagrees, as abs(0.605 - 0.61) is   *)
(* 0.0050000000000000044, and others agree.  How the doubles of a tie come *)
(* out is left open: `tie' says that they agree.                           *)
(***************************************************************************)
EXTENDS Integers, Sequences, FiniteSetsExt

Place == 10
Tolerance == Place \div 2

(* readings[np.isfinite(readings)] *)
Finite(values) == {i \in DOMAIN values : values[i] \in Int}
Readings(values) == {values[i] : i \in Finite(values)}
Count(values) == Cardinality(Finite(values))

PartialSums(terms) ==
  LET upTo[i \in 0..Len(terms)] == IF i = 0 THEN 0 ELSE upTo[i - 1] + terms[i]
  IN  upTo
Sum(terms) == PartialSums(terms)[Len(terms)]

Addends(values) == [i \in DOMAIN values |-> IF i \in Finite(values) THEN values[i] ELSE 0]
Squares(values) == [i \in DOMAIN values |-> Addends(values)[i] * Addends(values)[i]]
Total(values) == Sum(Addends(values))

(* n^2 times the population variance (ddof = 0) of the n readings. *)
Spread(values) == Count(values) * Sum(Squares(values)) - Total(values) * Total(values)

-----------------------------------------------------------------------------
(* abs(computed - published) <= PUBLISHED_TOLERANCE, computed = sum / n    *)
Distance(a, b) == IF a < b THEN b - a ELSE a - b

Tied(published, sum, n) == Distance(sum, published * n) = Tolerance * n

SlipHalfTolerance(published, sum, n, tie) == 2 * Distance(sum, published * n) < Tolerance * n

Within(published, sum, n, tie) ==
  \/ Distance(sum, published * n) < Tolerance * n
  \/ tie /\ Tied(published, sum, n)

(* The same for the deviation sqrt(spread) / n, squared. *)
SquareOf(thousandths, n) == thousandths * thousandths * n * n

DeviationTied(published, spread, n) ==
  \/ published >= Tolerance /\ spread = SquareOf(published - Tolerance, n)
  \/ spread = SquareOf(published + Tolerance, n)

DeviationWithin(published, spread, n, tie) ==
  \/ /\ published < Tolerance \/ SquareOf(published - Tolerance, n) < spread
     /\ spread < SquareOf(published + Tolerance, n)
  \/ tie /\ DeviationTied(published, spread, n)

(* The statistics that are compared within the tolerance; the others are   *)
(* counts and instants and are compared exactly.                           *)
Compared == {"maximum", "minimum", "average", "std_dev"}

(* _checks: five statistics and two instants, all of them.  `agreeing' are *)
(* the compared ones that agree where they are half-way.                   *)
SlipTimesNotChecked(published, stamps, values, agreeing) ==
  /\ published.samples = Len(stamps)
  /\ Within(published.maximum, Max(Readings(values)), 1, "maximum" \in agreeing)
  /\ Within(published.minimum, Min(Readings(values)), 1, "minimum" \in agreeing)
  /\ Within(published.average, Total(values), Count(values), "average" \in agreeing)
  /\ DeviationWithin(published.std_dev, Spread(values), Count(values), "std_dev" \in agreeing)

AllReproduced(published, stamps, values, agreeing) ==
  /\ published.samples = Len(stamps)
  /\ Within(published.maximum, Max(Readings(values)), 1, "maximum" \in agreeing)
  /\ Within(published.minimum, Min(Readings(values)), 1, "minimum" \in agreeing)
  /\ Within(published.average, Total(values), Count(values), "average" \in agreeing)
  /\ DeviationWithin(published.std_dev, Spread(values), Count(values), "std_dev" \in agreeing)
  /\ published.first_sample_time = stamps[1]
  /\ published.last_sample_time = stamps[Len(stamps)]

(* verify_published_statistics, when statistics are published: a parse     *)
(* with no readings at all is a disagreement of its own.                   *)
Refuses(published, stamps, values, agreeing) ==
  Finite(values) = {} \/ ~AllReproduced(published, stamps, values, agreeing)

-----------------------------------------------------------------------------
(* What the vendor publishes of a recording: rounded to two decimals.  A   *)
(* recording of which a statistic is half-way between two published values *)
(* is as far from what is published as the tolerance allows.               *)
Rounded(sum, n) == Place * ((2 * sum + Place * n) \div (2 * Place * n))

RoundedDeviation(spread, n) ==
  Place * (CHOOSE k \in 0..spread : DeviationWithin(Place * k, spread, n, TRUE))

Publish(stamps, values) ==
  [samples |-> Len(stamps),
   maximum |-> Rounded(Max(Readings(values)), 1),
   minimum |-> Rounded(Min(Readings(values)), 1),
   average |-> Rounded(Total(values), Count(values)),
   std_dev |-> RoundedDeviation(Spread(values), Count(values)),
   first_sample_time |-> stamps[1],
   last_sample_time |-> stamps[Len(stamps)]]
HalfWay(published, values) ==
  \/ Tied(published.maximum, Max(Readings(values)), 1)
  \/ Tied(published.minimum, Min(Readings(values)), 1)
  \/ Tied(published.average, Total(values), Count(values))
  \/ DeviationTied(published.std_dev, Spread(values), Count(values))
=============================================================================
