------------------------------ MODULE MCIngest ------------------------------
EXTENDS Ingest

Recorded(readings, by) == [readings |-> readings, shift |-> [at |-> 8, by |-> by]]

(* Readings in thousandths of a degree: a constant recording, one with a   *)
(* sample logged without a reading, both published away from what was      *)
(* read; and one over the autumn transition, when the local clock goes     *)
(* back by one interval.                                                   *)
MCRecordings ==
  {Recorded(<<604, 604, 604, 604>>, 0), Recorded(<<964, NaN, 600, 615>>, 0),
   Recorded(<<605, 964, NaN, 605>>, -4)}

(* A constant recording half-way between two published values.             *)
MCTies == {Recorded(<<605, 605, 605, 605>>, 0)}

(* Any readings, over the spring transition. *)
MCSpring ==
  {Recorded(r, 4) : r \in {r \in [1..4 -> {605, 964, NaN}] : \E i \in 1..4 : r[i] # NaN}}

MCOffset == -32
MCSuppliedIntervals == {0, 2, 4, 8}
MCEditedStamps == {-28, -25, -20, -16}
=============================================================================
