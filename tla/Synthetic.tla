------------------------------ MODULE Synthetic ------------------------------
(***************************************************************************)
(* Synthetic records and the requirements that admit them                  *)
(* (core/synthetic.py, core/requirements.py).  A record is what it was     *)
(* made from (a seed and a gap fraction; derive_seed is taken as           *)
(* injective: it is a sha256 of its arguments) with its grid: the          *)
(* interval, in native intervals, the number of points n, numbered from 0, *)
(* and the points that hold a reading.                                     *)
(***************************************************************************)
EXTENDS Integers, FiniteSets

MinPoints == 2     \* __post_init__: a grid needs two points to have a spacing

Seed(case, index) == <<case, index>>

Points(n) == 0..(n - 1)
Made(seed, n, missing) ==
  [seed |-> seed, gap |-> 0, dt |-> 1, n |-> n, held |-> Points(n) \ missing]

NValid(record) == Cardinality(record.held)
Missing(record) == record.n - NValid(record)
Duration(record) == (record.n - 1) * record.dt

(* iloc[::factor]: the first point and every factor-th after it.           *)
Strided(n, factor) == (n + factor - 1) \div factor
Decimate(record, factor) ==
  [record EXCEPT !.dt = record.dt * factor,
                 !.n = Strided(record.n, factor),
                 !.held = {i \in Points(Strided(record.n, factor)) : i * factor \in record.held}]

(* round(fraction * n), of a fraction and a product that are doubles: the  *)
(* nearest whole number, or either of two.                                 *)
RoundedPercents(percent, n) ==
  {size \in 0..n : 100 * size <= percent * n + 50 /\ percent * n <= 100 * size + 50}

(* In place: the grid keeps its points.                                    *)
WithGaps(record, percent, positions) ==
  [record EXCEPT !.gap = percent, !.held = record.held \ positions]

-----------------------------------------------------------------------------
(* A requirement is data: its kind and its limit.  gap_fraction is         *)
(* 1.0 - n_valid / len, rounded twice, so a record with exactly the        *)
(* allowed fraction of gaps may compare as having more: 1.0 - 0.85 > 0.15. *)
(* "tie" says how such a comparison comes out.                             *)
MinValidSamples(n) == [kind |-> "MinValidSamples", limit |-> n, tie |-> TRUE]
MinDuration(span) == [kind |-> "MinDuration", limit |-> span, tie |-> TRUE]
MaxGapFraction(percent, tie) == [kind |-> "MaxGapFraction", limit |-> percent, tie |-> tie]

Unmet(requirement, record) ==
  \/ requirement.kind = "MinValidSamples" /\ NValid(record) < requirement.limit
  \/ requirement.kind = "MinDuration" /\ Duration(record) < requirement.limit
  \/ /\ requirement.kind = "MaxGapFraction"
     /\ LET missing == 100 * Missing(record)
            allowed == requirement.limit * record.n
        IN  missing > allowed \/ (missing = allowed /\ ~requirement.tie)

Admissible(requirements, record) == \A r \in requirements : ~Unmet(r, record)
=============================================================================
