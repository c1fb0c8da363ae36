------------------------------ MODULE MCRunner ------------------------------
(***************************************************************************)
(* A registry in which every kind of order occurs: a provider and its      *)
(* consumer in either registration order, a consumer of two capabilities,  *)
(* a two-check cycle, and a capability nobody provides.                    *)
(***************************************************************************)
EXTENDS Runner

MCCheckIds == {"gap", "tide", "lag", "fit", "loop", "marine.gap"}
MCCapabilities == {"mask", "phase", "trend", "Mask"}
MCRequirements == {"min_samples"}
MCSnakeNames == {"gap", "tide", "lag", "fit", "loop", "mask", "phase", "trend"}
MCVerdicts == {"PASS", "INCONCLUSIVE"}

Declare(id, requirements, provides, consumes) ==
  [check_id |-> id, bound |-> [value |-> 5, unit |-> "1"],
   positive_control |-> TRUE, requirements |-> requirements,
   provides |-> provides, consumes |-> consumes]

WellFormed ==
  {Declare("gap", {"min_samples"}, {"mask"}, <<>>),
   Declare("tide", {}, {"phase", "trend"}, <<"mask">>),
   Declare("lag", {}, {}, <<"phase", "mask">>),
   Declare("fit", {"min_samples"}, {}, <<"trend">>),
   Declare("loop", {}, {"mask"}, <<"phase">>)}

(* A second claim to an id, and declarations that break one rule each.     *)
Rival == Declare("gap", {}, {"trend"}, <<>>)

Sound == Declare("gap", {}, {"mask"}, <<>>)

IllFormed ==
  {Declare("marine.gap", {}, {}, <<>>),
   [Sound EXCEPT !.bound.value = 0], [Sound EXCEPT !.bound.value = 100],
   [Sound EXCEPT !.bound.unit = "percent"], [Sound EXCEPT !.positive_control = FALSE],
   [Sound EXCEPT !.provides = {"Mask"}], [Sound EXCEPT !.consumes = <<"Mask">>],
   [Sound EXCEPT !.consumes = <<"mask">>]}

MCDeclarations == WellFormed \cup {Rival} \cup IllFormed
=============================================================================
